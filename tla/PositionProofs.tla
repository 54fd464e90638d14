---------------------------- MODULE PositionProofs ----------------------------
(***************************************************************************)
(* Proofs about PositionIndex, for every spine, page length and chapter     *)
(* length.                                                                  *)
(***************************************************************************)
EXTENDS PositionIndex, TLAPS, FiniteSetTheorems

-----------------------------------------------------------------------------
\* The number of the last page of the k-th chapter, and of no page at all.
Prior(k) == IF k = 0 THEN 0
            ELSE by_chapter[k][Len(by_chapter[k])].global_position
SpineOf(k) == by_chapter[k][1].spine_index

\* The i-th page of the k-th chapter is what its place says, totals aside.
PageInv(k, i) ==
    LET page == by_chapter[k][i] IN
    /\ page \in Pages
    /\ page.spine_index = SpineOf(k)
    /\ page.package = <<6, SpineStep(SpineOf(k))>>
    /\ page.local = IF i = 1 THEN <<4>> ELSE <<4, (i - 1) * 2>>
    /\ page.global_position = Prior(k - 1) + i

ChapterInv(k) ==
    /\ Len(by_chapter[k]) >= 1
    /\ \A i \in DOMAIN by_chapter[k] : PageInv(k, i)

\* What counting leaves: chapters in spine order, numbered through.
ChaptersInv ==
    /\ by_chapter \in Seq(Seq(Pages))
    /\ \A k \in DOMAIN by_chapter : ChapterInv(k)
    /\ \A k, l \in DOMAIN by_chapter : k < l => SpineOf(k) < SpineOf(l)
    /\ \A k, l \in DOMAIN by_chapter : k < l => Prior(k) <= Prior(l - 1)
    /\ \A k \in DOMAIN by_chapter : SpineOf(k) < Len(spine)
    /\ last_position = Prior(Len(by_chapter))

\* What building has done after the first `next` chapters.
BuildInv ==
    /\ next <= Len(by_chapter)
    /\ \A k \in DOMAIN by_chapter : \A i \in DOMAIN by_chapter[k] :
          by_chapter[k][i].total_progression = <<Prior(k - 1) + i - 1, last_position>>
    /\ Len(chapter_starts) = next + 1
    /\ \A k \in 0..next : chapter_starts[k + 1] = Prior(k)
    /\ Len(positions) = Prior(next)
    /\ \A k \in 1..next : Prior(k) <= Len(positions)
    /\ \A k \in 1..next : \A i \in DOMAIN by_chapter[k] :
          positions[Prior(k - 1) + i] = by_chapter[k][i]
    /\ \A j \in DOMAIN positions : \E k \in 1..next : \E i \in DOMAIN by_chapter[k] :
          j = Prior(k - 1) + i
    /\ DOMAIN spine_to_order = {SpineOf(k) : k \in 1..next}
    /\ \A k \in 1..next : spine_to_order[SpineOf(k)] = k - 1

PhaseInv ==
    /\ phase \in {"count", "failed"} =>
          /\ next <= Len(spine)
          /\ \A k \in DOMAIN by_chapter : SpineOf(k) < next
          /\ positions = << >> /\ chapter_starts = << >> /\ spine_to_order = << >>
    /\ phase \in {"build", "ready"} => BuildInv
    /\ phase = "ready" => next = Len(by_chapter)

BasicType ==
    /\ phase \in {"count", "build", "ready", "failed"}
    /\ spine \in Books /\ page_length \in PageLengths
    /\ next \in Nat /\ last_position \in Nat
    /\ positions \in Seq(Pages) /\ chapter_starts \in Seq(Nat)

IndexInv == BasicType /\ ChaptersInv /\ PhaseInv

-----------------------------------------------------------------------------
LEMMA MadeSequence ==
    ASSUME NEW S, NEW n \in Nat, NEW f,
           f = [i \in 1..n |-> f[i]], \A i \in 1..n : f[i] \in S
    PROVE  f \in Seq(S) /\ Len(f) = n /\ DOMAIN f = 1..n
<1>1. [i \in 1..n |-> f[i]] \in Seq(S) /\ Len([i \in 1..n |-> f[i]]) = n
  OBVIOUS
<1>2. QED
  BY <1>1

LEMMA Joined ==
    ASSUME NEW S, NEW s \in Seq(S), NEW t \in Seq(S)
    PROVE  /\ s \o t \in Seq(S) /\ Len(s \o t) = Len(s) + Len(t)
           /\ \A j \in 1..Len(s) : (s \o t)[j] = s[j]
           /\ \A i \in 1..Len(t) : (s \o t)[Len(s) + i] = t[i]
OBVIOUS

LEMMA PagesOfType ==
    ASSUME NEW item \in SpineItem, NEW page \in Nat
    PROVE  PagesOf(item, page) \in Nat \ {0}
<1>1. ASSUME NEW len \in Nat PROVE PositionCount(len, page) \in Nat \ {0}
  <2> DEFINE page_len == IF page < 1 THEN 1 ELSE page
             count == (len + page_len - 1) \div page_len
  <2>1. page_len \in Nat /\ page_len > 0
    OBVIOUS
  <2> HIDE DEF page_len
  <2>2. count \in Int
    BY <2>1
  <2>3. PositionCount(len, page) = IF count < 1 THEN 1 ELSE count
    BY Zenon DEF PositionCount, page_len
  <2> HIDE DEF count
  <2>4. QED
    BY <2>2, <2>3
<1>2. QED
  BY <1>1, NoLengthAssumption DEF PagesOf, SpineItem

LEMMA SpineType ==
    ASSUME BasicType
    PROVE  spine \in Seq(SpineItem) /\ page_length \in Nat
BY BooksAssumption, PageLengthsAssumption DEF BasicType

\* The numbers of a chapter's last page, from its first.
LEMMA PriorStep ==
    ASSUME ChaptersInv, NEW k \in DOMAIN by_chapter
    PROVE  /\ Prior(k) = Prior(k - 1) + Len(by_chapter[k])
           /\ Prior(k) \in Nat /\ Prior(k - 1) \in Nat
           /\ Len(by_chapter[k]) \in Nat \ {0}
           /\ SpineOf(k) \in Nat
<1>1. ASSUME NEW m \in DOMAIN by_chapter
      PROVE  /\ Len(by_chapter[m]) \in Nat \ {0}
             /\ DOMAIN by_chapter[m] = 1..Len(by_chapter[m])
             /\ \A i \in DOMAIN by_chapter[m] : PageInv(m, i)
  BY DEF ChaptersInv, ChapterInv
<1>2. ASSUME NEW m \in DOMAIN by_chapter
      PROVE  Prior(m) \in Nat
  <2>1. Len(by_chapter[m]) \in DOMAIN by_chapter[m]
    BY <1>1
  <2>2. by_chapter[m][Len(by_chapter[m])] \in Pages
    BY <1>1, <2>1 DEF PageInv
  <2>3. by_chapter[m][Len(by_chapter[m])].global_position \in Nat
    BY <2>2 DEF Pages
  <2>4. QED
    BY <2>3 DEF Prior
<1>3. k \in Nat \ {0} /\ (k - 1 \in DOMAIN by_chapter \/ k - 1 = 0)
  BY DEF ChaptersInv
<1>4. Prior(k - 1) \in Nat
  <2>1. CASE k - 1 = 0
    BY <2>1 DEF Prior
  <2>2. QED
    BY <1>2, <1>3, <2>1
<1>5. Prior(k) = Prior(k - 1) + Len(by_chapter[k])
  <2>1. PageInv(k, Len(by_chapter[k]))
    BY <1>1
  <2>2. QED
    BY <1>3, <2>1 DEF PageInv, Prior
<1>6. SpineOf(k) \in Nat
  <2>1. 1 \in DOMAIN by_chapter[k]
    BY <1>1
  <2>2. by_chapter[k][1] \in Pages
    BY <1>1, <2>1 DEF PageInv
  <2>3. QED
    BY <2>2 DEF Pages, SpineOf
<1>7. QED
  BY <1>1, <1>2, <1>4, <1>5, <1>6

\* Later chapters start after earlier ones end.
LEMMA PriorType ==
    ASSUME ChaptersInv, NEW k \in 0..Len(by_chapter)
    PROVE  Prior(k) \in Nat
<1>1. CASE k = 0
  BY <1>1 DEF Prior
<1>2. CASE k # 0
  BY <1>2, PriorStep DEF ChaptersInv
<1>3. QED
  BY <1>1, <1>2

LEMMA ChapterPages ==
    ASSUME NEW s \in Nat, NEW count \in Nat \ {0}, NEW start \in Nat
    PROVE  /\ Chapter(s, count, start) \in Seq(Pages)
           /\ Len(Chapter(s, count, start)) = count
           /\ \A i \in 1..count : Chapter(s, count, start)[i] = Page(s, i - 1, count, start)
<1>1. ASSUME NEW i \in 1..count PROVE Page(s, i - 1, count, start) \in Pages
  <2>1. i - 1 \in Nat /\ start + (i - 1) + 1 \in Nat \ {0}
    OBVIOUS
  <2>2. <<6, SpineStep(s)>> \in Seq(Nat)
    BY DEF SpineStep
  <2>3. (IF i - 1 = 0 THEN <<4>> ELSE <<4, (i - 1) * 2>>) \in Seq(Nat)
    <3>1. <<4>> \in Seq(Nat)
      OBVIOUS
    <3>2. (i - 1) * 2 \in Nat
      BY <2>1
    <3>3. <<4, (i - 1) * 2>> \in Seq(Nat)
      BY <3>2
    <3>4. QED
      BY <3>1, <3>3
  <2>4. <<i - 1, count>> \in Nat \X (Nat \ {0}) /\ <<0, 1>> \in Nat \X (Nat \ {0})
    BY <2>1
  <2> DEFINE local == IF i - 1 = 0 THEN <<4>> ELSE <<4, (i - 1) * 2>>
             package == <<6, SpineStep(s)>>
             global == start + (i - 1) + 1
  <2> HIDE DEF local, package, global
  <2>5. [spine_index |-> s, package |-> package, local |-> local,
         global_position |-> global, chapter_progression |-> <<i - 1, count>>,
         total_progression |-> <<0, 1>>] \in Pages
    BY <2>1, <2>2, <2>3, <2>4 DEF Pages, local, package, global
  <2>6. QED
    BY <2>5, Zenon DEF Page, local, package, global
<1>2. Chapter(s, count, start) = [i \in 1..count |-> Page(s, i - 1, count, start)]
  BY DEF Chapter
<1>3. QED
  BY <1>1, <1>2

-----------------------------------------------------------------------------
LEMMA InitHolds == Init => IndexInv
<1> SUFFICES ASSUME Init PROVE IndexInv
  OBVIOUS
<1>1. BasicType
  BY DEF Init, BasicType
<1>2. ChaptersInv
  BY DEF Init, ChaptersInv, Prior
<1>3. next <= Len(spine)
  BY SpineType, <1>1 DEF Init
<1>4. PhaseInv
  BY <1>3 DEF Init, PhaseInv
<1>5. QED
  BY <1>1, <1>2, <1>4 DEF IndexInv

\* A step that leaves the chapters as they are.
LEMMA SameChapters ==
    ASSUME ChaptersInv, UNCHANGED <<by_chapter, spine, last_position>>
    PROVE  ChaptersInv' /\ \A k : Prior(k)' = Prior(k) /\ SpineOf(k)' = SpineOf(k)
BY DEF ChaptersInv, ChapterInv, PageInv, Prior, SpineOf

LEMMA SkipKeeps ==
    ASSUME IndexInv, SkipNonLinear
    PROVE  IndexInv'
<1>1. BasicType'
  BY DEF SkipNonLinear, IndexInv, BasicType
<1>2. ChaptersInv' /\ \A k : SpineOf(k)' = SpineOf(k)
  BY SameChapters DEF SkipNonLinear, IndexInv
<1>3. Len(spine) \in Nat /\ next \in Nat
  BY SpineType DEF IndexInv, BasicType
<1>4. \A k \in DOMAIN by_chapter : SpineOf(k) \in Nat
  BY PriorStep DEF IndexInv
<1>5. PhaseInv'
  BY <1>2, <1>3, <1>4 DEF SkipNonLinear, Counting, IndexInv, PhaseInv
<1>6. QED
  BY <1>1, <1>2, <1>5 DEF IndexInv

LEMMA MissingKeeps ==
    ASSUME IndexInv, MissingManifestItem
    PROVE  IndexInv'
<1>1. BasicType'
  BY DEF MissingManifestItem, IndexInv, BasicType
<1>2. ChaptersInv' /\ \A k : SpineOf(k)' = SpineOf(k)
  BY SameChapters DEF MissingManifestItem, IndexInv
<1>3. PhaseInv'
  BY <1>2 DEF MissingManifestItem, Counting, IndexInv, PhaseInv
<1>4. QED
  BY <1>1, <1>2, <1>3 DEF IndexInv

LEMMA CountKeeps ==
    ASSUME IndexInv, CountChapter
    PROVE  IndexInv'
<1> DEFINE pages == PagesOf(spine[next + 1], page_length)
<1>1. /\ spine \in Seq(SpineItem) /\ page_length \in Nat
      /\ next \in Nat /\ next < Len(spine) /\ Len(spine) \in Nat
      /\ last_position \in Nat
  BY SpineType DEF IndexInv, BasicType, CountChapter, Counting
<1>2. PICK count \in Nat \ {0} : count = pages
  <2>1. spine[next + 1] \in SpineItem
    BY <1>1
  <2>2. QED
    BY <1>1, <2>1, PagesOfType
<1>3. PICK new : new = Chapter(next, count, last_position)
  OBVIOUS
<1>4. PICK n \in Nat : n = Len(by_chapter)
  BY DEF IndexInv, ChaptersInv
<1>5. /\ by_chapter' = Append(by_chapter, new)
      /\ last_position' = last_position + count
      /\ next' = next + 1
      /\ UNCHANGED <<phase, spine, page_length, positions, chapter_starts, spine_to_order>>
      /\ phase = "count"
  BY <1>2, <1>3 DEF CountChapter, Counting
<1> HIDE DEF pages
<1>6. /\ new \in Seq(Pages) /\ Len(new) = count
      /\ \A i \in 1..count : new[i] = Page(next, i - 1, count, last_position)
  <2> DEFINE made == Chapter(next, count, last_position)
  <2>1. /\ made \in Seq(Pages) /\ Len(made) = count
        /\ \A i \in 1..count : made[i] = Page(next, i - 1, count, last_position)
    BY <1>1, <1>2, ChapterPages
  <2>2. new = made
    BY <1>3
  <2> HIDE DEF made
  <2>3. QED
    BY <2>1, <2>2
<1>7. by_chapter \in Seq(Seq(Pages)) /\ n \in Nat /\ DOMAIN by_chapter = 1..n
  BY <1>4 DEF IndexInv, ChaptersInv
<1>8. /\ by_chapter' \in Seq(Seq(Pages)) /\ Len(by_chapter') = n + 1
      /\ DOMAIN by_chapter' = 1..(n + 1)
      /\ \A k \in 1..n : by_chapter'[k] = by_chapter[k]
      /\ by_chapter'[n + 1] = new
  BY <1>5, <1>6, <1>7
<1>9. last_position = Prior(n)
  BY <1>4 DEF IndexInv, ChaptersInv
<1>10. \A k \in 0..n : Prior(k)' = Prior(k)
  BY <1>7, <1>8, SMTT(30) DEF Prior
<1>11. \A k \in 1..n : SpineOf(k)' = SpineOf(k)
  BY <1>8 DEF SpineOf
<1>12. ASSUME NEW k \in 1..n PROVE ChapterInv(k)'
  <2>1. ChapterInv(k)
    BY <1>7 DEF IndexInv, ChaptersInv
  <2>2. by_chapter'[k] = by_chapter[k] /\ Prior(k - 1)' = Prior(k - 1) /\ SpineOf(k)' = SpineOf(k)
    BY <1>7, <1>8, <1>10, <1>11
  <2>3. \A i : PageInv(k, i)' <=> PageInv(k, i)
    BY <2>2 DEF PageInv
  <2>4. QED
    BY <2>1, <2>2, <2>3 DEF ChapterInv
<1>13. SpineOf(n + 1)' = next
  <2>1. new[1] = Page(next, 1 - 1, count, last_position)
    BY <1>2, <1>6
  <2>2. QED
    BY <1>8, <2>1 DEF SpineOf, Page
<1>14. ASSUME NEW i \in 1..count PROVE PageInv(n + 1, i)'
  <2>1. by_chapter'[n + 1][i] = Page(next, i - 1, count, last_position)
    BY <1>6, <1>8
  <2>2. by_chapter'[n + 1][i] \in Pages
    BY <1>6, <1>8
  <2>3. Prior(n + 1 - 1)' = last_position
    <3>1. n + 1 - 1 = n /\ n \in 0..n
      BY <1>7
    <3>2. QED
      BY <1>9, <1>10, <3>1
  <2>4. last_position + (i - 1) + 1 = last_position + i /\ (i - 1 = 0 <=> i = 1)
    BY <1>1, <1>2
  <2>5. QED
    BY <1>13, <2>1, <2>2, <2>3, <2>4 DEF PageInv, Page
<1>15. ChapterInv(n + 1)'
  <2>1. DOMAIN by_chapter'[n + 1] = 1..count /\ Len(by_chapter'[n + 1]) >= 1
    BY <1>2, <1>6, <1>8
  <2>2. QED
    BY <1>14, <2>1 DEF ChapterInv
<1>16. last_position' = Prior(n + 1)'
  <2>1. PageInv(n + 1, count)'
    BY <1>2, <1>14
  <2>2. by_chapter'[n + 1][count].global_position = Prior(n + 1 - 1)' + count
    BY <2>1 DEF PageInv
  <2>3. n + 1 - 1 = n /\ n \in 0..n /\ n + 1 # 0
    BY <1>7
  <2>4. Len(by_chapter'[n + 1]) = count
    BY <1>6, <1>8
  <2>5. QED
    BY <1>5, <1>9, <1>10, <2>2, <2>3, <2>4 DEF Prior
<1>17. \A k \in 1..n : SpineOf(k) < next /\ SpineOf(k) \in Nat
  BY <1>5, <1>7, PriorStep DEF IndexInv, PhaseInv
<1>18. ChaptersInv'
  <2>1. \A k \in DOMAIN by_chapter' : ChapterInv(k)'
    BY <1>7, <1>8, <1>12, <1>15
  <2>2. \A k, l \in DOMAIN by_chapter' : k < l => SpineOf(k)' < SpineOf(l)'
    <3>1. ASSUME NEW k \in 1..(n + 1), NEW l \in 1..(n + 1), k < l
          PROVE  SpineOf(k)' < SpineOf(l)'
      <4>1. k \in 1..n
        BY <1>7, <3>1
      <4>2. CASE l = n + 1
        BY <1>11, <1>13, <1>17, <4>1, <4>2
      <4>3. CASE l \in 1..n
        BY <1>7, <1>11, <3>1, <4>1, <4>3 DEF IndexInv, ChaptersInv
      <4>4. QED
        BY <1>7, <4>2, <4>3
    <3>2. QED
      BY <1>8, <3>1
  <2>3. \A k \in DOMAIN by_chapter' : SpineOf(k)' < Len(spine')
    BY <1>1, <1>5, <1>7, <1>8, <1>11, <1>13, <1>17, SMTT(30)
  <2>4. \A k, l \in DOMAIN by_chapter' : k < l => Prior(k)' <= Prior(l - 1)'
    <3>1. ASSUME NEW k \in 1..n, NEW l \in 1..(n + 1), k < l
          PROVE  Prior(k) <= Prior(l - 1)
      <4>1. CASE l \in 1..n
        BY <1>7, <3>1, <4>1 DEF IndexInv, ChaptersInv
      <4>2. CASE l = n + 1
        <5>1. l - 1 = n
          BY <4>2
        <5>2. CASE k = n
          <6>1. Prior(n) \in Nat
            BY <1>7, <5>2, PriorStep DEF IndexInv
          <6>2. QED
            BY <5>1, <5>2, <6>1
        <5>3. CASE k < n
          <6>1. PICK m \in DOMAIN by_chapter : m = n
            BY <1>7, <5>3
          <6>2. Prior(k) <= Prior(m - 1)
            BY <1>7, <5>3, <6>1 DEF IndexInv, ChaptersInv
          <6>3. /\ Prior(m) = Prior(m - 1) + Len(by_chapter[m])
                /\ Prior(m - 1) \in Nat /\ Len(by_chapter[m]) \in Nat /\ Prior(m) \in Nat
            BY PriorStep DEF IndexInv
          <6>4. Prior(k) \in Nat
            BY <1>7, PriorStep DEF IndexInv
          <6>5. Prior(k) <= Prior(m)
            BY <6>2, <6>3, <6>4
          <6>6. QED
            BY <5>1, <6>1, <6>5
        <5>4. QED
          BY <1>7, <5>2, <5>3
      <4>3. QED
        BY <1>7, <4>1, <4>2
    <3>2. ASSUME NEW k \in 1..(n + 1), NEW l \in 1..(n + 1), k < l
          PROVE  Prior(k)' <= Prior(l - 1)'
      <4>1. k \in 1..n /\ k \in 0..n /\ l - 1 \in 0..n
        BY <1>4, <3>2
      <4>2. Prior(k)' = Prior(k) /\ Prior(l - 1)' = Prior(l - 1)
        BY <1>10, <4>1
      <4>3. QED
        BY <3>1, <3>2, <4>1, <4>2
    <3>3. QED
      BY <1>8, <3>2
  <2>5. QED
    BY <1>8, <1>16, <2>1, <2>2, <2>3, <2>4 DEF ChaptersInv
<1>19. BasicType'
  BY <1>1, <1>2, <1>5 DEF IndexInv, BasicType
<1>20. PhaseInv'
  <2>1. next' <= Len(spine')
    BY <1>1, <1>5
  <2>2. \A k \in DOMAIN by_chapter' : SpineOf(k)' < next'
    <3>1. ASSUME NEW k \in 1..(n + 1) PROVE SpineOf(k)' < next'
      <4>1. CASE k = n + 1
        <5>1. SpineOf(n + 1)' = SpineOf(k)'
          BY <4>1
        <5>2. QED
          BY <1>1, <1>5, <1>13, <5>1
      <4>2. CASE k \in 1..n
        BY <1>1, <1>5, <1>11, <1>17, <4>2
      <4>3. QED
        BY <1>4, <4>1, <4>2
    <3>2. QED
      BY <1>8, <3>1
  <2>3. QED
    BY <1>5, <2>1, <2>2 DEF IndexInv, PhaseInv
<1>21. QED
  BY <1>18, <1>19, <1>20 DEF IndexInv

LEMMA TotalsKeep ==
    ASSUME IndexInv, ComputeTotals
    PROVE  IndexInv'
<1>1. PICK n \in Nat : n = Len(by_chapter)
  BY DEF IndexInv, ChaptersInv
<1> DEFINE total(k, i) == <<by_chapter[k][i].global_position - 1, last_position>>
<1>2. /\ by_chapter' = [k \in DOMAIN by_chapter |-> [i \in DOMAIN by_chapter[k] |->
            [by_chapter[k][i] EXCEPT !.total_progression = total(k, i)]]]
      /\ chapter_starts' = <<0>> /\ phase' = "build" /\ next' = 0 /\ phase = "count"
      /\ UNCHANGED <<spine, page_length, last_position, positions, spine_to_order>>
  BY DEF ComputeTotals
<1>3. by_chapter \in Seq(Seq(Pages)) /\ n \in Nat /\ DOMAIN by_chapter = 1..n
  BY <1>1 DEF IndexInv, ChaptersInv
<1>4. ASSUME NEW k \in 1..n
      PROVE  /\ by_chapter[k] \in Seq(Pages)
             /\ Len(by_chapter[k]) \in Nat \ {0}
             /\ DOMAIN by_chapter[k] = 1..Len(by_chapter[k])
             /\ DOMAIN by_chapter'[k] = 1..Len(by_chapter[k])
  <2>1. Len(by_chapter[k]) \in Nat \ {0}
    BY <1>3, PriorStep DEF IndexInv
  <2>2. QED
    BY <1>2, <1>3, <2>1
<1>5. ASSUME NEW k \in 1..n
      PROVE  last_position \in Nat \ {0}
  <2>1. n \in DOMAIN by_chapter
    BY <1>3
  <2>2. Prior(n) \in Nat \ {0}
    BY <2>1, PriorStep DEF IndexInv
  <2>3. QED
    BY <1>1, <2>2 DEF IndexInv, ChaptersInv
<1>6. ASSUME NEW k \in 1..n, NEW i \in DOMAIN by_chapter[k]
      PROVE  /\ by_chapter'[k][i] = [by_chapter[k][i] EXCEPT !.total_progression = total(k, i)]
             /\ by_chapter'[k][i] \in Pages
             /\ by_chapter'[k][i].total_progression = total(k, i)
             /\ by_chapter'[k][i].spine_index = by_chapter[k][i].spine_index
             /\ by_chapter'[k][i].package = by_chapter[k][i].package
             /\ by_chapter'[k][i].local = by_chapter[k][i].local
             /\ by_chapter'[k][i].global_position = by_chapter[k][i].global_position
  <2> DEFINE t == total(k, i)
             page == by_chapter[k][i]
  <2>1. by_chapter'[k][i] = [page EXCEPT !.total_progression = t]
    BY <1>2, <1>3
  <2>2. page \in Pages
    BY <1>4
  <2>3. t \in Nat \X (Nat \ {0})
    <3>1. page.global_position \in Nat \ {0}
      BY <2>2 DEF Pages
    <3>2. QED
      BY <1>5, <3>1
  <2> HIDE DEF t, page
  <2>4. /\ [page EXCEPT !.total_progression = t] \in Pages
        /\ [page EXCEPT !.total_progression = t].total_progression = t
        /\ [page EXCEPT !.total_progression = t].spine_index = page.spine_index
        /\ [page EXCEPT !.total_progression = t].package = page.package
        /\ [page EXCEPT !.total_progression = t].local = page.local
        /\ [page EXCEPT !.total_progression = t].global_position = page.global_position
    BY <2>2, <2>3 DEF Pages
  <2>5. QED
    BY <2>1, <2>4 DEF t, page
<1>7. ASSUME NEW k \in 1..n
      PROVE  by_chapter'[k] \in Seq(Pages) /\ Len(by_chapter'[k]) = Len(by_chapter[k])
  <2> DEFINE f == [i \in 1..Len(by_chapter[k]) |->
                     [by_chapter[k][i] EXCEPT !.total_progression = total(k, i)]]
  <2>1. by_chapter'[k] = f
    BY <1>2, <1>3, <1>4
  <2>2. \A i \in 1..Len(by_chapter[k]) : f[i] \in Pages
    <3>1. ASSUME NEW i \in 1..Len(by_chapter[k]) PROVE f[i] \in Pages
      <4>1. by_chapter'[k][i] \in Pages
        BY <1>4, <1>6
      <4>2. QED
        BY <2>1, <4>1
    <3>2. QED
      BY <3>1
  <2>3. f = [i \in 1..Len(by_chapter[k]) |-> f[i]]
    OBVIOUS
  <2> HIDE DEF f
  <2>4. f \in Seq(Pages) /\ Len(f) = Len(by_chapter[k])
    BY <1>4, <2>2, <2>3, MadeSequence
  <2>5. QED
    BY <2>1, <2>4
<1>8. by_chapter' \in Seq(Seq(Pages)) /\ Len(by_chapter') = n /\ DOMAIN by_chapter' = 1..n
  <2> DEFINE g == by_chapter'
  <2>1. g = [k \in 1..n |-> g[k]]
    BY <1>2, <1>3
  <2>2. \A k \in 1..n : g[k] \in Seq(Pages)
    BY <1>7
  <2> HIDE DEF g
  <2>3. g \in Seq(Seq(Pages)) /\ Len(g) = n /\ DOMAIN g = 1..n
    BY <1>3, <2>1, <2>2, MadeSequence
  <2>4. QED
    BY <2>3 DEF g
<1>9. ASSUME NEW k \in 0..n PROVE Prior(k)' = Prior(k)
  <2>1. CASE k = 0
    BY <2>1 DEF Prior
  <2>2. CASE k # 0
    <3>1. k \in 1..n /\ Len(by_chapter[k]) \in DOMAIN by_chapter[k]
      BY <1>3, <1>4, <2>2
    <3>2. Len(by_chapter[k])' = Len(by_chapter[k])
      BY <1>7, <3>1
    <3>3. by_chapter'[k][Len(by_chapter[k])].global_position
            = by_chapter[k][Len(by_chapter[k])].global_position
      BY <1>6, <3>1
    <3>4. QED
      BY <2>2, <3>2, <3>3 DEF Prior
  <2>3. QED
    BY <2>1, <2>2
<1>10. ASSUME NEW k \in 1..n PROVE SpineOf(k)' = SpineOf(k)
  <2>1. 1 \in DOMAIN by_chapter[k]
    BY <1>4
  <2>2. QED
    BY <1>6, <2>1 DEF SpineOf
<1>11. ASSUME NEW k \in 1..n, NEW i \in DOMAIN by_chapter[k]
       PROVE  /\ PageInv(k, i)'
              /\ by_chapter'[k][i].total_progression = <<Prior(k - 1)' + i - 1, last_position'>>
  <2>1. PageInv(k, i)
    BY <1>3 DEF IndexInv, ChaptersInv, ChapterInv
  <2>2. Prior(k - 1)' = Prior(k - 1)
    BY <1>3, <1>9
  <2>3. by_chapter[k][i].global_position = Prior(k - 1) + i
    BY <2>1 DEF PageInv
  <2>4. PageInv(k, i)'
    BY <1>6, <1>10, <2>1, <2>2 DEF PageInv
  <2>5. QED
    <3>1. Prior(k - 1) \in Nat /\ i \in Nat
      <4>1. k \in DOMAIN by_chapter /\ DOMAIN by_chapter[k] = 1..Len(by_chapter[k])
        BY <1>3, <1>4
      <4>2. Prior(k - 1) \in Nat
        BY <4>1, PriorStep DEF IndexInv
      <4>3. QED
        BY <4>1, <4>2
    <3>2. by_chapter[k][i].global_position - 1 = Prior(k - 1)' + i - 1
      BY <2>2, <2>3, <3>1
    <3>3. total(k, i) = <<Prior(k - 1)' + i - 1, last_position'>>
      BY <1>2, <3>2
    <3>4. QED
      BY <1>6, <2>4, <3>3
<1>12. ChaptersInv'
  <2>1. \A k \in DOMAIN by_chapter' : ChapterInv(k)'
    <3>1. ASSUME NEW k \in 1..n PROVE ChapterInv(k)'
      <4>1. Len(by_chapter'[k]) >= 1 /\ DOMAIN by_chapter'[k] = DOMAIN by_chapter[k]
        BY <1>4, <1>7
      <4>2. QED
        BY <1>11, <4>1 DEF ChapterInv
    <3>2. QED
      BY <1>8, <3>1
  <2>2. \A k, l \in DOMAIN by_chapter' : k < l => SpineOf(k)' < SpineOf(l)'
    BY <1>3, <1>8, <1>10 DEF IndexInv, ChaptersInv
  <2>3. \A k \in DOMAIN by_chapter' : SpineOf(k)' < Len(spine')
    BY <1>2, <1>3, <1>8, <1>10 DEF IndexInv, ChaptersInv
  <2>4. last_position' = Prior(Len(by_chapter))'
    <3>1. n \in 0..n /\ Len(by_chapter)' = n
      BY <1>3, <1>8
    <3>2. last_position = Prior(n)
      BY <1>1 DEF IndexInv, ChaptersInv
    <3>3. Prior(n)' = Prior(n)
      BY <1>9, <3>1
    <3>4. Prior(Len(by_chapter))' = Prior(n)'
      BY <3>1 DEF Prior
    <3>5. QED
      BY <1>2, <3>2, <3>3, <3>4
  <2>5. \A k, l \in DOMAIN by_chapter' : k < l => Prior(k)' <= Prior(l - 1)'
    <3>1. ASSUME NEW k \in 1..n, NEW l \in 1..n, k < l
          PROVE  Prior(k)' <= Prior(l - 1)'
      <4>1. k \in 0..n /\ l - 1 \in 0..n
        BY <1>1
      <4>2. Prior(k)' = Prior(k) /\ Prior(l - 1)' = Prior(l - 1)
        BY <1>9, <4>1
      <4>3. QED
        BY <1>3, <3>1, <4>2 DEF IndexInv, ChaptersInv
    <3>2. QED
      BY <1>8, <3>1
  <2>6. QED
    BY <1>8, <2>1, <2>2, <2>3, <2>4, <2>5 DEF ChaptersInv
<1>13. BasicType'
  BY <1>2 DEF IndexInv, BasicType
<1>14. BuildInv'
  <2>1. positions' = << >> /\ spine_to_order' = << >>
    BY <1>2 DEF IndexInv, PhaseInv
  <2>2. next' <= Len(by_chapter')
    BY <1>2, <1>3, <1>8
  <2>3. \A k \in DOMAIN by_chapter' : \A i \in DOMAIN by_chapter'[k] :
          by_chapter'[k][i].total_progression = <<Prior(k - 1)' + i - 1, last_position'>>
    BY <1>4, <1>8, <1>11
  <2>4. Prior(0)' = 0
    BY DEF Prior
  <2>5. /\ Len(chapter_starts') = next' + 1
        /\ \A k \in 0..next' : chapter_starts'[k + 1] = Prior(k)'
        /\ Len(positions') = Prior(next)'
    <3>1. Prior(next)' = 0
      BY <1>2, <2>4 DEF Prior
    <3>2. Len(chapter_starts') = 1 /\ chapter_starts'[1] = 0
      BY <1>2
    <3>3. ASSUME NEW k \in 0..next' PROVE chapter_starts'[k + 1] = Prior(k)'
      <4>1. k = 0
        BY <1>2
      <4>2. QED
        BY <3>2, <4>1 DEF Prior
    <3>4. QED
      BY <1>2, <2>1, <3>1, <3>2, <3>3
  <2>6. DOMAIN spine_to_order' = {} /\ DOMAIN positions' = {} /\ 1..next' = {}
    BY <1>2, <2>1
  <2>7. QED
    BY <2>2, <2>3, <2>5, <2>6 DEF BuildInv
<1>15. PhaseInv'
  BY <1>2, <1>14 DEF PhaseInv
<1>16. QED
  BY <1>12, <1>13, <1>15 DEF IndexInv

\* A chapter's pages go to the end of the flat list, and its start is noted.
LEMMA BuildKeeps ==
    ASSUME IndexInv, BuildChapter
    PROVE  IndexInv'
<1>1. /\ phase = "build" /\ next \in Nat /\ next < Len(by_chapter)
      /\ by_chapter \in Seq(Seq(Pages))
      /\ positions \in Seq(Pages) /\ chapter_starts \in Seq(Nat)
      /\ ChaptersInv /\ BuildInv
  BY DEF IndexInv, BasicType, ChaptersInv, PhaseInv, BuildChapter
<1>2. PICK n \in Nat : n = next
  BY <1>1
<1>3. PICK all \in Nat : all = Len(by_chapter)
  BY <1>1
<1>4. n + 1 \in DOMAIN by_chapter /\ n + 1 \in 1..all /\ DOMAIN by_chapter = 1..all
  BY <1>1, <1>2, <1>3
<1>5. PICK len \in Nat \ {0} : len = Len(by_chapter[n + 1])
  BY <1>1, <1>4, PriorStep
<1>6. PICK start \in Nat : start = Prior(n) /\ Prior(n + 1) = start + len
  <2>1. PICK m \in DOMAIN by_chapter : m = n + 1 /\ m - 1 = n
    BY <1>4
  <2>2. Prior(m) = Prior(m - 1) + Len(by_chapter[m]) /\ Prior(m - 1) \in Nat
    BY <1>1, PriorStep
  <2>3. Prior(n + 1) = Prior(n) + len /\ Prior(n) \in Nat
    BY <1>5, <2>1, <2>2
  <2>4. QED
    BY <2>3
<1>7. /\ positions' = positions \o by_chapter[n + 1]
      /\ next' = n + 1
      /\ UNCHANGED <<phase, spine, page_length, last_position, by_chapter>>
  BY <1>2 DEF BuildChapter
<1>8. /\ positions' \in Seq(Pages) /\ Len(positions') = start + len
      /\ \A j \in 1..start : positions'[j] = positions[j]
      /\ \A i \in 1..len : positions'[start + i] = by_chapter[n + 1][i]
      /\ DOMAIN positions' = 1..(start + len) /\ DOMAIN positions = 1..start
  <2>1. by_chapter[n + 1] \in Seq(Pages)
    BY <1>1, <1>4
  <2>2. Len(positions) = start
    BY <1>1, <1>2, <1>6 DEF BuildInv
  <2>3. PICK more \in Seq(Pages) : more = by_chapter[n + 1]
    BY <2>1
  <2>4. /\ positions \o more \in Seq(Pages) /\ Len(positions \o more) = start + len
        /\ \A j \in 1..start : (positions \o more)[j] = positions[j]
        /\ \A i \in 1..len : (positions \o more)[start + i] = more[i]
    <3>1. Len(more) = len
      BY <1>5, <2>3
    <3>2. /\ positions \o more \in Seq(Pages)
          /\ Len(positions \o more) = Len(positions) + Len(more)
          /\ \A j \in 1..Len(positions) : (positions \o more)[j] = positions[j]
          /\ \A i \in 1..Len(more) : (positions \o more)[Len(positions) + i] = more[i]
      BY <1>1, Joined
    <3>3. QED
      BY <2>2, <3>1, <3>2
  <2>5. DOMAIN positions = 1..start /\ DOMAIN positions' = 1..(start + len)
    BY <1>1, <1>7, <2>2, <2>3, <2>4
  <2>6. QED
    BY <1>7, <2>3, <2>4, <2>5
<1>9. /\ chapter_starts' \in Seq(Nat) /\ Len(chapter_starts') = n + 2
      /\ \A k \in 0..n : chapter_starts'[k + 1] = chapter_starts[k + 1]
      /\ chapter_starts'[n + 2] = start + len
  <2>1. chapter_starts' = Append(chapter_starts, start + len)
    BY <1>8 DEF BuildChapter
  <2>2. Len(chapter_starts) = n + 1 /\ start + len \in Nat
    BY <1>1, <1>2 DEF BuildInv
  <2>3. QED
    BY <1>1, <2>1, <2>2
<1>10. /\ DOMAIN spine_to_order' = DOMAIN spine_to_order \cup {SpineOf(n + 1)}
       /\ \A s \in DOMAIN spine_to_order \cup {SpineOf(n + 1)} :
             spine_to_order'[s] = IF s = SpineOf(n + 1) THEN n ELSE spine_to_order[s]
  <2>1. by_chapter[n + 1] # << >>
    BY <1>5
  <2>2. spine_to_order' = OrderBySpine(by_chapter[n + 1][1].spine_index)
    BY <1>2, <2>1 DEF BuildChapter
  <2>3. QED
    BY <1>2, <2>2 DEF OrderBySpine, SpineOf
<1>11. ChaptersInv' /\ \A k : Prior(k)' = Prior(k) /\ SpineOf(k)' = SpineOf(k)
  BY <1>1, <1>7, SameChapters
<1>12. BasicType'
  BY <1>2, <1>7, <1>8, <1>9 DEF IndexInv, BasicType
<1>13. BuildInv'
  <2>1. n + 1 <= Len(by_chapter)'
    BY <1>3, <1>4, <1>7
  <2>2. \A k \in DOMAIN by_chapter : \A i \in DOMAIN by_chapter[k] :
          by_chapter[k][i].total_progression = <<Prior(k - 1) + i - 1, last_position>>
    BY <1>1 DEF BuildInv
  <2>3. ASSUME NEW k \in 0..(n + 1) PROVE chapter_starts'[k + 1] = Prior(k)
    <3>1. CASE k \in 0..n
      BY <1>1, <1>2, <1>9, <3>1 DEF BuildInv
    <3>2. CASE k = n + 1
      <4>1. k + 1 = n + 2
        BY <3>2
      <4>2. QED
        BY <1>6, <1>9, <3>2, <4>1
    <3>3. QED
      BY <3>1, <3>2
  <2>4. ASSUME NEW k \in 1..n
        PROVE  Prior(k) <= start /\ Prior(k) \in Nat /\ Prior(k) = Prior(k - 1) + Len(by_chapter[k])
               /\ Prior(k - 1) \in Nat /\ Len(by_chapter[k]) \in Nat
               /\ DOMAIN by_chapter[k] = 1..Len(by_chapter[k])
    <3>1. k \in DOMAIN by_chapter
      BY <1>3, <1>4
    <3>2. /\ Prior(k) = Prior(k - 1) + Len(by_chapter[k])
          /\ Prior(k - 1) \in Nat /\ Len(by_chapter[k]) \in Nat \ {0}
          /\ DOMAIN by_chapter[k] = 1..Len(by_chapter[k])
      BY <1>1, <3>1, PriorStep
    <3>3. Prior(k) <= start
      BY <1>1, <1>2, <1>6 DEF BuildInv
    <3>4. QED
      BY <3>2, <3>3
  <2>5. ASSUME NEW k \in 1..(n + 1), NEW i \in DOMAIN by_chapter[k]
        PROVE  positions'[Prior(k - 1) + i] = by_chapter[k][i]
    <3>1. CASE k \in 1..n
      <4>1. positions[Prior(k - 1) + i] = by_chapter[k][i]
        BY <1>1, <1>2, <3>1 DEF BuildInv
      <4>2. Prior(k - 1) + i \in 1..start
        BY <2>4, <3>1
      <4>3. QED
        BY <1>8, <4>1, <4>2
    <3>2. CASE k = n + 1
      <4>1. k - 1 = n /\ i \in 1..len
        BY <1>1, <1>4, <1>5, <3>2
      <4>2. QED
        BY <1>6, <1>8, <3>2, <4>1
    <3>3. QED
      BY <3>1, <3>2
  <2>6. ASSUME NEW j \in 1..(start + len)
        PROVE  \E k \in 1..(n + 1) : \E i \in DOMAIN by_chapter[k] : j = Prior(k - 1) + i
    <3>1. CASE j \in 1..start
      <4>1. PICK k \in 1..n : \E i \in DOMAIN by_chapter[k] : j = Prior(k - 1) + i
        <5>1. \A x \in DOMAIN positions : \E k \in 1..next : \E i \in DOMAIN by_chapter[k] :
                x = Prior(k - 1) + i
          BY <1>1 DEF BuildInv
        <5>2. j \in DOMAIN positions
          BY <1>8, <3>1
        <5>3. QED
          BY <1>2, <5>1, <5>2
      <4>2. k \in 1..(n + 1)
        OBVIOUS
      <4>3. QED
        BY <4>1, <4>2
    <3>2. CASE j \notin 1..start
      <4>1. j - start \in 1..len /\ j = start + (j - start)
        BY <3>2
      <4>2. j - start \in DOMAIN by_chapter[n + 1]
        BY <1>1, <1>4, <1>5, <4>1
      <4>3. n + 1 - 1 = n /\ n + 1 \in 1..(n + 1)
        OBVIOUS
      <4>4. j = Prior(n + 1 - 1) + (j - start)
        BY <1>6, <4>1, <4>3
      <4>5. QED
        BY <4>2, <4>3, <4>4
    <3>3. QED
      BY <3>1, <3>2
  <2>7. /\ DOMAIN spine_to_order' = {SpineOf(k) : k \in 1..(n + 1)}
        /\ \A k \in 1..(n + 1) : spine_to_order'[SpineOf(k)] = k - 1
    <3>1. /\ DOMAIN spine_to_order = {SpineOf(k) : k \in 1..n}
          /\ \A k \in 1..n : spine_to_order[SpineOf(k)] = k - 1
      BY <1>1, <1>2 DEF BuildInv
    <3>2. \A k \in 1..n : SpineOf(k) # SpineOf(n + 1)
      <4>1. ASSUME NEW k \in 1..n PROVE SpineOf(k) # SpineOf(n + 1)
        <5>1. k \in DOMAIN by_chapter /\ k < n + 1
          BY <1>3, <1>4
        <5>2. SpineOf(k) < SpineOf(n + 1)
          BY <1>1, <1>4, <5>1 DEF ChaptersInv
        <5>3. SpineOf(k) \in Nat /\ SpineOf(n + 1) \in Nat
          BY <1>1, <1>4, <5>1, PriorStep
        <5>4. QED
          BY <5>2, <5>3
      <4>2. QED
        BY <4>1
    <3>3. 1..(n + 1) = 1..n \cup {n + 1}
      OBVIOUS
    <3>4. DOMAIN spine_to_order' = {SpineOf(k) : k \in 1..(n + 1)}
      BY <1>10, <3>1, <3>3
    <3>5. ASSUME NEW k \in 1..(n + 1) PROVE spine_to_order'[SpineOf(k)] = k - 1
      <4>1. CASE k = n + 1
        <5>1. n + 1 - 1 = n
          OBVIOUS
        <5>2. QED
          BY <1>10, <4>1, <5>1
      <4>2. CASE k \in 1..n
        <5>1. SpineOf(k) \in DOMAIN spine_to_order
          BY <3>1, <4>2
        <5>2. QED
          BY <1>10, <3>1, <3>2, <4>2, <5>1
      <4>3. QED
        BY <3>3, <4>1, <4>2
    <3>6. QED
      BY <3>4, <3>5
  <2>8. \A k \in DOMAIN by_chapter' : \A i \in DOMAIN by_chapter'[k] :
          by_chapter'[k][i].total_progression = <<Prior(k - 1)' + i - 1, last_position'>>
    BY <1>7, <1>11, <2>2
  <2>9. /\ Len(chapter_starts') = next' + 1
        /\ \A k \in 0..next' : chapter_starts'[k + 1] = Prior(k)'
    BY <1>7, <1>9, <1>11, <2>3
  <2>10. Len(positions)' = Prior(next)'
    <3>1. Prior(next)' = Prior(n + 1)'
      BY <1>7 DEF Prior
    <3>2. QED
      BY <1>6, <1>8, <1>11, <3>1
  <2>11. /\ \A k \in 1..next' : \A i \in DOMAIN by_chapter'[k] :
              positions'[Prior(k - 1)' + i] = by_chapter'[k][i]
         /\ \A j \in DOMAIN positions' : \E k \in 1..next' : \E i \in DOMAIN by_chapter'[k] :
              j = Prior(k - 1)' + i
    <3>1. \A k : DOMAIN by_chapter'[k] = DOMAIN by_chapter[k] /\ by_chapter'[k] = by_chapter[k]
      BY <1>7
    <3>2. \A k : Prior(k - 1)' = Prior(k - 1)
      BY <1>11
    <3>3. next' = n + 1 /\ DOMAIN positions' = 1..(start + len)
      BY <1>7, <1>8
    <3>4. \A k \in 1..next' : \A i \in DOMAIN by_chapter'[k] :
            positions'[Prior(k - 1)' + i] = by_chapter'[k][i]
      <4>1. ASSUME NEW k \in 1..next', NEW i \in DOMAIN by_chapter'[k]
            PROVE  positions'[Prior(k - 1)' + i] = by_chapter'[k][i]
        <5>1. k \in 1..(n + 1)
          BY <3>3, Zenon
        <5>2. i \in DOMAIN by_chapter[k]
          BY <3>1, Zenon
        <5>3. positions'[Prior(k - 1) + i] = by_chapter[k][i]
          BY <2>5, <5>1, <5>2, Zenon
        <5>4. QED
          BY <3>1, <3>2, <5>3, Zenon
      <4>2. QED
        BY <4>1, Zenon
    <3>5. \A j \in DOMAIN positions' : \E k \in 1..next' : \E i \in DOMAIN by_chapter'[k] :
            j = Prior(k - 1)' + i
      <4>1. ASSUME NEW j \in DOMAIN positions'
            PROVE  \E k \in 1..next' : \E i \in DOMAIN by_chapter'[k] : j = Prior(k - 1)' + i
        <5>1. PICK k \in 1..(n + 1) : \E i \in DOMAIN by_chapter[k] : j = Prior(k - 1) + i
          BY <2>6, <3>3
        <5>2. PICK i \in DOMAIN by_chapter[k] : j = Prior(k - 1) + i
          BY <5>1
        <5>3. k \in 1..next' /\ i \in DOMAIN by_chapter'[k] /\ j = Prior(k - 1)' + i
          BY <3>1, <3>2, <3>3, <5>1, <5>2
        <5>4. QED
          BY <5>3, Zenon
      <4>2. QED
        BY <4>1, Zenon
    <3>6. QED
      BY <3>4, <3>5
  <2>12. /\ DOMAIN spine_to_order' = {SpineOf(k)' : k \in 1..next'}
         /\ \A k \in 1..next' : spine_to_order'[SpineOf(k)'] = k - 1
    BY <1>7, <1>11, <2>7
  <2>13. \A k \in 1..next' : Prior(k)' <= Len(positions)'
    <3>1. ASSUME NEW k \in 1..(n + 1) PROVE Prior(k) <= start + len
      <4>1. CASE k = n + 1
        BY <1>6, <4>1
      <4>2. CASE k \in 1..n
        <5>1. Prior(k) <= start /\ Prior(k) \in Nat
          BY <2>4, <4>2
        <5>2. QED
          BY <5>1
      <4>3. QED
        BY <4>1, <4>2
    <3>2. QED
      BY <1>7, <1>8, <1>11, <3>1
  <2>14. QED
    BY <1>7, <2>1, <2>8, <2>9, <2>10, <2>11, <2>12, <2>13 DEF BuildInv
<1>14. PhaseInv'
  BY <1>1, <1>7, <1>13 DEF PhaseInv
<1>15. QED
  BY <1>11, <1>12, <1>14 DEF IndexInv

\* BuildInv reads these variables only.
LEMMA SameBuild ==
    ASSUME BuildInv, UNCHANGED <<next, last_position, by_chapter, positions,
                                 chapter_starts, spine_to_order>>
    PROVE  BuildInv'
<1>1. /\ next' = next /\ last_position' = last_position /\ by_chapter' = by_chapter
      /\ positions' = positions /\ chapter_starts' = chapter_starts
      /\ spine_to_order' = spine_to_order
  OBVIOUS
<1>2. \A k : Prior(k)' = Prior(k) /\ SpineOf(k)' = SpineOf(k)
  BY <1>1 DEF Prior, SpineOf
<1>3. Prior(next)' = Prior(next)
  BY <1>1 DEF Prior
<1>4. QED
  BY <1>1, <1>2, <1>3, SMTT(30) DEF BuildInv

LEMMA BuiltKeeps ==
    ASSUME IndexInv, Built
    PROVE  IndexInv'
<1>1. BasicType'
  BY DEF Built, IndexInv, BasicType
<1>2. ChaptersInv' /\ \A k : Prior(k)' = Prior(k) /\ SpineOf(k)' = SpineOf(k)
  BY SameChapters DEF Built, IndexInv
<1>3. BuildInv' /\ next' = Len(by_chapter')
  BY SameBuild DEF Built, IndexInv, PhaseInv
<1>4. PhaseInv'
  BY <1>3 DEF Built, PhaseInv
<1>5. QED
  BY <1>1, <1>2, <1>4 DEF IndexInv

LEMMA StutterKeeps ==
    ASSUME IndexInv, UNCHANGED vars
    PROVE  IndexInv'
<1>1. /\ phase' = phase /\ spine' = spine /\ page_length' = page_length /\ next' = next
      /\ last_position' = last_position /\ by_chapter' = by_chapter
      /\ positions' = positions /\ chapter_starts' = chapter_starts
      /\ spine_to_order' = spine_to_order
  BY DEF vars
<1>2. ChaptersInv' /\ BasicType'
  BY <1>1, SameChapters DEF IndexInv, BasicType
<1>3. PhaseInv'
  <2>1. BuildInv => BuildInv'
    BY <1>1, SameBuild
  <2>2. \A k : SpineOf(k)' = SpineOf(k)
    BY <1>1 DEF SpineOf
  <2>3. QED
    BY <1>1, <2>1, <2>2 DEF IndexInv, PhaseInv
<1>4. QED
  BY <1>2, <1>3 DEF IndexInv

\* The invariant of the three phases: chapters numbered through, then laid out
\* flat with their starts and orders.
THEOREM IndexInvariant == Spec => []IndexInv
<1>1. IndexInv /\ [Next]_vars => IndexInv'
  BY SkipKeeps, MissingKeeps, CountKeeps, TotalsKeep, BuildKeeps, BuiltKeeps, StutterKeeps
     DEF Next
<1>2. QED
  BY InitHolds, <1>1, PTL DEF Spec

-----------------------------------------------------------------------------
\* Where a page of the finished index comes from.
LEMMA PageOrigin ==
    ASSUME IndexInv, phase = "ready", NEW j \in DOMAIN positions
    PROVE  \E k \in DOMAIN by_chapter : \E i \in DOMAIN by_chapter[k] :
              /\ j = Prior(k - 1) + i
              /\ positions[j] = by_chapter[k][i]
              /\ PageInv(k, i)
              /\ positions[j].total_progression = <<j - 1, last_position>>
<1>1. BuildInv /\ ChaptersInv /\ next = Len(by_chapter) /\ by_chapter \in Seq(Seq(Pages))
  BY DEF IndexInv, PhaseInv, ChaptersInv
<1>2. DOMAIN by_chapter = 1..next
  BY <1>1
<1>3. PICK k \in 1..next : \E i \in DOMAIN by_chapter[k] : j = Prior(k - 1) + i
  BY <1>1 DEF BuildInv
<1>4. PICK i \in DOMAIN by_chapter[k] : j = Prior(k - 1) + i
  BY <1>3
<1>5. positions[Prior(k - 1) + i] = by_chapter[k][i]
  BY <1>1 DEF BuildInv
<1>6. PageInv(k, i)
  BY <1>1, <1>2 DEF ChaptersInv, ChapterInv
<1>7. by_chapter[k][i].total_progression = <<Prior(k - 1) + i - 1, last_position>>
  BY <1>1, <1>2 DEF BuildInv
<1>8. positions[j] = by_chapter[k][i]
      /\ positions[j].total_progression = <<j - 1, last_position>>
  <2>1. positions[j] = by_chapter[k][i]
    BY <1>4, <1>5, Zenon
  <2>2. Prior(k - 1) + i - 1 = j - 1
    <3>1. j = Prior(k - 1) + i
      BY <1>4
    <3>2. i \in DOMAIN by_chapter[k] /\ k \in DOMAIN by_chapter
      BY <1>2
    <3>3. Prior(k - 1) \in Nat /\ DOMAIN by_chapter[k] = 1..Len(by_chapter[k])
          /\ Len(by_chapter[k]) \in Nat
      <4>1. ChaptersInv
        BY <1>1
      <4>2. Prior(k - 1) \in Nat
        BY <3>2, <4>1, PriorStep
      <4>3. by_chapter[k] \in Seq(Pages)
        BY <1>1, <3>2
      <4>4. QED
        BY <4>2, <4>3
    <3>4. i \in Nat
      BY <3>2, <3>3
    <3>5. QED
      BY <3>1, <3>3, <3>4
  <2>3. QED
    BY <1>7, <2>1, <2>2, Zenon
<1>9. k \in DOMAIN by_chapter
  BY <1>2
<1>10. QED
  BY <1>4, <1>6, <1>8, <1>9, Zenon

\* Pages are numbered through and know their share, for any spine and page
\* length.
THEOREM NumberedThrough == Spec => []GloballyNumbered
<1>1. ASSUME IndexInv PROVE GloballyNumbered
  <2>1. TypeOK
    <3>1. BasicType /\ ChaptersInv /\ PhaseInv /\ spine \in Seq(SpineItem)
      BY SpineType, <1>1 DEF IndexInv
    <3>2. DOMAIN spine_to_order \subseteq 0..(Len(spine) - 1)
          /\ \A s \in DOMAIN spine_to_order : spine_to_order[s] \in Nat
      <4>1. CASE phase \in {"count", "failed"}
        <5>1. spine_to_order = << >>
          BY <3>1, <4>1 DEF PhaseInv
        <5>2. DOMAIN spine_to_order = {}
          BY <5>1
        <5>3. QED
          BY <5>2
      <4>2. CASE phase \in {"build", "ready"}
        <5>1. BuildInv /\ next \in Nat /\ Len(spine) \in Nat
          BY <3>1, <4>2 DEF PhaseInv, BasicType
        <5>2. ASSUME NEW k \in 1..next
              PROVE  SpineOf(k) \in 0..(Len(spine) - 1) /\ spine_to_order[SpineOf(k)] \in Nat
          <6>1. k \in DOMAIN by_chapter
            BY <3>1, <5>1 DEF ChaptersInv, BuildInv
          <6>2. SpineOf(k) \in Nat /\ SpineOf(k) < Len(spine)
            BY <3>1, <6>1, PriorStep DEF ChaptersInv
          <6>3. spine_to_order[SpineOf(k)] = k - 1
            BY <5>1 DEF BuildInv
          <6>4. QED
            BY <5>1, <6>2, <6>3
        <5>3. DOMAIN spine_to_order = {SpineOf(k) : k \in 1..next}
          BY <5>1 DEF BuildInv
        <5>4. QED
          BY <5>2, <5>3
      <4>3. QED
        BY <3>1, <4>1, <4>2 DEF BasicType
    <3>3. QED
      BY <3>1, <3>2 DEF TypeOK, BasicType, ChaptersInv
  <2>2. ASSUME phase = "ready"
        PROVE  Len(positions) = last_position
    BY <1>1, <2>2 DEF IndexInv, PhaseInv, BuildInv, ChaptersInv
  <2>3. ASSUME phase = "ready", NEW j \in DOMAIN positions
        PROVE  /\ positions[j].global_position = j
               /\ positions[j].total_progression = <<j - 1, Len(positions)>>
    <3>1. PICK k \in DOMAIN by_chapter : \E i \in DOMAIN by_chapter[k] :
              /\ j = Prior(k - 1) + i
              /\ positions[j] = by_chapter[k][i]
              /\ PageInv(k, i)
              /\ positions[j].total_progression = <<j - 1, last_position>>
      BY <1>1, <2>3, PageOrigin
    <3>2. PICK i \in DOMAIN by_chapter[k] :
              /\ j = Prior(k - 1) + i
              /\ positions[j] = by_chapter[k][i]
              /\ PageInv(k, i)
              /\ positions[j].total_progression = <<j - 1, last_position>>
      BY <3>1
    <3>3. positions[j].global_position = j
      BY <3>2 DEF PageInv
    <3>4. QED
      BY <2>2, <2>3, <3>2, <3>3
  <2>4. QED
    BY <2>1, <2>2, <2>3 DEF GloballyNumbered
<1>2. QED
  BY IndexInvariant, <1>1, PTL

-----------------------------------------------------------------------------
(***************************************************************************)
(* Lookups                                                                  *)
(***************************************************************************)
\* In the finished index the tables give a chapter's start and length.
LEMMA ChapterTables ==
    ASSUME IndexInv, phase = "ready", NEW k \in DOMAIN by_chapter
    PROVE  /\ k \in Nat \ {0}
           /\ SpineOf(k) \in Nat
           /\ SpineOf(k) \in DOMAIN spine_to_order
           /\ spine_to_order[SpineOf(k)] = k - 1
           /\ Prior(k - 1) \in Nat
           /\ Len(by_chapter[k]) \in Nat \ {0}
           /\ Prior(k) = Prior(k - 1) + Len(by_chapter[k])
           /\ chapter_starts[(k - 1) + 1] = Prior(k - 1)
           /\ chapter_starts[(k - 1) + 2] = Prior(k)
           /\ positions # << >>
           /\ DOMAIN by_chapter[k] = 1..Len(by_chapter[k])
<1>1. BuildInv /\ ChaptersInv /\ next = Len(by_chapter) /\ by_chapter \in Seq(Seq(Pages))
      /\ next \in Nat
  BY DEF IndexInv, PhaseInv, ChaptersInv, BasicType
<1>2. k \in 1..next /\ k - 1 \in 0..next /\ k \in 0..next
      /\ (k - 1) + 1 = k /\ (k - 1) + 2 = k + 1
  BY <1>1
<1>3. /\ Prior(k) = Prior(k - 1) + Len(by_chapter[k])
      /\ Prior(k - 1) \in Nat /\ Len(by_chapter[k]) \in Nat \ {0}
      /\ SpineOf(k) \in Nat
  BY <1>1, PriorStep
<1>4. chapter_starts[(k - 1) + 1] = Prior(k - 1) /\ chapter_starts[k + 1] = Prior(k)
  BY <1>1, <1>2 DEF BuildInv
<1>5. SpineOf(k) \in DOMAIN spine_to_order /\ spine_to_order[SpineOf(k)] = k - 1
  BY <1>1, <1>2 DEF BuildInv
<1>6. positions # << >>
  <2>1. Prior(k) <= Len(positions) /\ Prior(k) \in Nat \ {0}
    BY <1>1, <1>2, <1>3, SMTT(30) DEF BuildInv
  <2>2. SUFFICES ASSUME positions = << >> PROVE FALSE
    OBVIOUS
  <2>3. Len(positions) = 0
    BY <2>2
  <2>4. QED
    BY <2>1, <2>3
<1>7. QED
  BY <1>1, <1>2, <1>3, <1>4, <1>5, <1>6

\* The step of a spine item and the index it stands for.
LEMMA StepOfIndex ==
    ASSUME NEW s \in Nat
    PROVE  SpineStep(s) >= 2 /\ SpineStep(s) \div 2 - 1 = s /\ SpineStep(s) \in Nat
BY DEF SpineStep

\* What a point in the k-th chapter is taken for: the page its second local step
\* counts, or the chapter's last.
LEMMA LocationInChapter ==
    ASSUME IndexInv, phase = "ready", NEW k \in DOMAIN by_chapter,
           NEW cfi, cfi.package = <<6, SpineStep(SpineOf(k))>>,
           NEW p \in Nat, p = IF Len(cfi.local) < 2 THEN 0 ELSE cfi.local[2] \div 2
    PROVE  LocationFromCfi(cfi) =
             {Some(Prior(k - 1) + (IF p < Len(by_chapter[k]) - 1 THEN p
                                   ELSE Len(by_chapter[k]) - 1))}
<1> DEFINE step == cfi.package[2]
           order == spine_to_order[step \div 2 - 1]
           start == chapter_starts[order + 1]
           len == chapter_starts[order + 2] - start
           last == IF len = 0 THEN 0 ELSE len - 1
           at == IF Len(cfi.local) < 2 THEN 0 ELSE cfi.local[2] \div 2
<1>1. step = SpineStep(SpineOf(k)) /\ Len(cfi.package) = 2
  OBVIOUS
<1>2. SpineOf(k) \in Nat
  BY ChapterTables
<1>3. step >= 2 /\ step \div 2 - 1 = SpineOf(k) /\ step \in Nat
  BY <1>1, <1>2, StepOfIndex
<1>4. order = k - 1 /\ step \div 2 - 1 \in DOMAIN spine_to_order
  BY <1>3, ChapterTables
<1>5. start = Prior(k - 1) /\ len = Len(by_chapter[k]) /\ last = Len(by_chapter[k]) - 1
  <2>1. /\ chapter_starts[(k - 1) + 1] = Prior(k - 1)
        /\ chapter_starts[(k - 1) + 2] = Prior(k)
        /\ Prior(k) = Prior(k - 1) + Len(by_chapter[k])
        /\ Prior(k - 1) \in Nat /\ Len(by_chapter[k]) \in Nat \ {0}
    BY ChapterTables
  <2> HIDE DEF order
  <2>2. start = Prior(k - 1) /\ len = Prior(k) - Prior(k - 1)
    BY <1>4, <2>1
  <2>3. len = Len(by_chapter[k])
    BY <2>1, <2>2
  <2>4. QED
    BY <2>1, <2>2, <2>3
<1>6. positions # << >>
  BY ChapterTables
<1>7. ~ (Len(cfi.package) < 2) /\ ~ (step < 2)
  BY <1>1, <1>3
<1>8. LocationFromCfi(cfi) = {Some(start + (IF at < last THEN at ELSE last))}
  BY <1>4, <1>6, <1>7, Zenon DEF LocationFromCfi
<1>9. at = p
  BY Zenon
<1> HIDE DEF start, last, at
<1>10. QED
  BY <1>5, <1>8, <1>9

\* The page whose number a page's own CFI is looked up to is that page.
LEMMA RoundTrip ==
    ASSUME IndexInv, phase = "ready"
    PROVE  RoundTrips
<1> SUFFICES ASSUME NEW j \in 0..(Len(positions) - 1), NEW cfi \in CfiFromLocation(j)
             PROVE  LocationFromCfi(cfi) = {Some(j)}
  BY DEF RoundTrips
<1>1. positions \in Seq(Pages) /\ by_chapter \in Seq(Seq(Pages))
  BY DEF IndexInv, BasicType, ChaptersInv
<1>2. PICK x \in DOMAIN positions : x = j + 1
  BY <1>1
<1>3. PICK k \in DOMAIN by_chapter : \E i \in DOMAIN by_chapter[k] :
          /\ x = Prior(k - 1) + i
          /\ positions[x] = by_chapter[k][i]
          /\ PageInv(k, i)
  BY PageOrigin
<1>4. PICK i \in DOMAIN by_chapter[k] :
          /\ x = Prior(k - 1) + i
          /\ positions[x] = by_chapter[k][i]
          /\ PageInv(k, i)
  BY <1>3
<1>5. /\ Prior(k - 1) \in Nat /\ Len(by_chapter[k]) \in Nat \ {0}
      /\ DOMAIN by_chapter[k] = 1..Len(by_chapter[k])
  BY ChapterTables
<1>6. /\ cfi.package = <<6, SpineStep(SpineOf(k))>>
      /\ cfi.local = IF i = 1 THEN <<4>> ELSE <<4, (i - 1) * 2>>
  <2>1. cfi = [kind |-> "point", package |-> positions[j + 1].package,
               local |-> positions[j + 1].local, start |-> << >>]
    BY DEF CfiFromLocation
  <2>2. cfi.package = positions[x].package /\ cfi.local = positions[x].local
    BY <1>2, <2>1
  <2>3. QED
    BY <1>4, <2>2 DEF PageInv
<1>7. i - 1 \in Nat /\ i - 1 = IF Len(cfi.local) < 2 THEN 0 ELSE cfi.local[2] \div 2
  <2>1. CASE i = 1
    BY <1>6, <2>1
  <2>2. CASE i # 1
    <3>1. i - 1 \in Nat /\ cfi.local = <<4, (i - 1) * 2>>
      BY <1>5, <1>6, <2>2
    <3>2. Len(cfi.local) = 2 /\ cfi.local[2] = (i - 1) * 2
      BY <3>1
    <3>3. ((i - 1) * 2) \div 2 = i - 1
      BY <3>1
    <3>4. QED
      BY <3>1, <3>2, <3>3
  <2>3. QED
    BY <2>1, <2>2
<1>8. LocationFromCfi(cfi) =
        {Some(Prior(k - 1) + (IF i - 1 < Len(by_chapter[k]) - 1 THEN i - 1
                              ELSE Len(by_chapter[k]) - 1))}
  BY <1>6, <1>7, LocationInChapter
<1>9. Prior(k - 1) + (IF i - 1 < Len(by_chapter[k]) - 1 THEN i - 1
                      ELSE Len(by_chapter[k]) - 1) = j
  BY <1>2, <1>4, <1>5
<1>10. QED
  BY <1>8, <1>9

LEMMA Tuples ==
    ASSUME NEW x \in Nat, NEW q \in Nat, NEW m \in Nat
    PROVE  /\ <<6, x>> \o <<4>> = <<6, x, 4>>
           /\ <<6, x>> \o <<4, q>> = <<6, x, 4, q>>
           /\ <<6, x>> \o <<4, q, m>> = <<6, x, 4, q, m>>
<1>1. <<6, x>> \o <<4>> = <<6, x, 4>>
  <2> DEFINE r == <<6, x>> \o <<4>>
  <2>1. /\ r \in Seq(Nat) /\ Len(r) = 3 /\ r[1] = 6 /\ r[2] = x /\ r[3] = 4
    OBVIOUS
  <2> HIDE DEF r
  <2>2. r = <<6, x, 4>>
    BY <2>1
  <2>3. QED
    BY <2>2 DEF r
<1>2. <<6, x>> \o <<4, q>> = <<6, x, 4, q>>
  <2> DEFINE r == <<6, x>> \o <<4, q>>
  <2>1. /\ r \in Seq(Nat) /\ Len(r) = 4 /\ r[1] = 6 /\ r[2] = x /\ r[3] = 4 /\ r[4] = q
    OBVIOUS
  <2> HIDE DEF r
  <2>2. r = <<6, x, 4, q>>
    BY <2>1
  <2>3. QED
    BY <2>2 DEF r
<1>3. <<6, x>> \o <<4, q, m>> = <<6, x, 4, q, m>>
  <2> DEFINE r == <<6, x>> \o <<4, q, m>>
  <2>1. /\ r \in Seq(Nat) /\ Len(r) = 5 /\ r[1] = 6 /\ r[2] = x /\ r[3] = 4 /\ r[4] = q
        /\ r[5] = m
    OBVIOUS
  <2> HIDE DEF r
  <2>2. r = <<6, x, 4, q, m>>
    BY <2>1
  <2>3. QED
    BY <2>2 DEF r
<1>4. QED
  BY <1>1, <1>2, <1>3

\* Where page p of spine item a starts, and the page a body path points into.
PagePath(a, p) == <<6, SpineStep(a)>> \o (IF p = 0 THEN <<4>> ELSE <<4, p * 2>>)
PointedPage(local) == IF Len(local) < 2 THEN 0 ELSE local[2] \div 2
BodyShapes(q, m) == {<<4>>, <<4, q>>, <<4, q, m>>}

\* The order of CFIs, on the shapes pages and points of a body have.
LEMMA PageBeforePoint ==
    ASSUME NEW a \in Nat, NEW b \in Nat, NEW p \in Nat, NEW q \in Nat, NEW m \in Nat,
           NEW local \in BodyShapes(q, m)
    PROVE  NotAfter(PagePath(a, p), <<6, SpineStep(b)>> \o local)
             <=> a < b \/ (a = b /\ p <= PointedPage(local))
<1> DEFINE x == SpineStep(a)
           y == SpineStep(b)
<1>1. x \in Nat /\ y \in Nat /\ (x = y <=> a = b) /\ (x < y <=> a < b)
  BY DEF SpineStep
<1> HIDE DEF x, y
<1>2. /\ <<6, x>> \o <<4>> = <<6, x, 4>>
      /\ <<6, x>> \o <<4, p * 2>> = <<6, x, 4, p * 2>>
      /\ <<6, y>> \o <<4>> = <<6, y, 4>>
      /\ <<6, y>> \o <<4, q>> = <<6, y, 4, q>>
      /\ <<6, y>> \o <<4, q, m>> = <<6, y, 4, q, m>>
  <2>1. PICK r \in Nat : r = p * 2
    OBVIOUS
  <2>2. <<6, x>> \o <<4>> = <<6, x, 4>> /\ <<6, x>> \o <<4, r>> = <<6, x, 4, r>>
    BY <1>1, Tuples
  <2>3. /\ <<6, y>> \o <<4>> = <<6, y, 4>>
        /\ <<6, y>> \o <<4, q>> = <<6, y, 4, q>>
        /\ <<6, y>> \o <<4, q, m>> = <<6, y, 4, q, m>>
    BY <1>1, Tuples
  <2>4. QED
    BY <2>1, <2>2, <2>3, Zenon
<1>3. NotAfter(<<6, x, 4>>, <<6, y, 4>>) <=> x < y \/ x = y
  <2> DEFINE u == <<6, x, 4>>
             v == <<6, y, 4>>
  <2>1. /\ Len(u) = 3 /\ Len(v) = 3 /\ DOMAIN u = 1..3 /\ DOMAIN v = 1..3
        /\ u[1] = 6 /\ u[2] = x /\ u[3] = 4 /\ v[1] = 6 /\ v[2] = y /\ v[3] = 4
    OBVIOUS
  <2> HIDE DEF u, v
  <2>2. NotAfter(u, v) <=> x < y \/ x = y
    <3>1. CASE x = y
      BY <1>1, <2>1, <3>1 DEF NotAfter
    <3>2. CASE x < y
      BY <1>1, <2>1, <3>2 DEF NotAfter
    <3>3. CASE y < x
      BY <1>1, <2>1, <3>3 DEF NotAfter
    <3>4. QED
      BY <1>1, <3>1, <3>2, <3>3
  <2>3. QED
    BY <2>2 DEF u, v
<1>4. NotAfter(<<6, x, 4>>, <<6, y, 4, q>>) <=> x < y \/ x = y
  BY <1>1 DEF NotAfter
<1>5. NotAfter(<<6, x, 4>>, <<6, y, 4, q, m>>) <=> x < y \/ x = y
  BY <1>1 DEF NotAfter
<1>6. NotAfter(<<6, x, 4, p * 2>>, <<6, y, 4>>) <=> x < y
  BY <1>1 DEF NotAfter
<1>7. NotAfter(<<6, x, 4, p * 2>>, <<6, y, 4, q>>) <=> x < y \/ (x = y /\ p * 2 <= q)
  BY <1>1 DEF NotAfter
<1>8. NotAfter(<<6, x, 4, p * 2>>, <<6, y, 4, q, m>>) <=> x < y \/ (x = y /\ p * 2 <= q)
  BY <1>1 DEF NotAfter
<1>9. p * 2 <= q <=> p <= q \div 2
  OBVIOUS
<1> DEFINE left == <<6, x>> \o (IF p = 0 THEN <<4>> ELSE <<4, p * 2>>)
           right == <<6, y>> \o local
           at == IF Len(local) < 2 THEN 0 ELSE local[2] \div 2
<1>10. (p = 0 => left = <<6, x, 4>>) /\ (p # 0 => left = <<6, x, 4, p * 2>>)
  BY <1>2, Zenon
<1>11. NotAfter(left, right) <=> x < y \/ (x = y /\ p <= at)
  <2>1. CASE local = <<4>>
    <3>1. at = 0 /\ right = <<6, y, 4>>
      BY <1>2, <2>1
    <3> HIDE DEF left, right, at
    <3>2. CASE p = 0
      BY <1>3, <1>10, <3>1, <3>2
    <3>3. CASE p # 0
      BY <1>6, <1>10, <3>1, <3>3
    <3>4. QED
      BY <3>2, <3>3
  <2>2. CASE local = <<4, q>>
    <3>1. at = q \div 2 /\ right = <<6, y, 4, q>>
      BY <1>2, <2>2
    <3> HIDE DEF left, right, at
    <3>2. CASE p = 0
      <4>1. NotAfter(left, right) <=> x < y \/ x = y
        BY <1>4, <1>10, <3>1, <3>2, Zenon
      <4>2. p <= at
        BY <3>1, <3>2
      <4>3. QED
        BY <4>1, <4>2
    <3>3. CASE p # 0
      BY <1>7, <1>9, <1>10, <3>1, <3>3, Zenon
    <3>4. QED
      BY <3>2, <3>3
  <2>3. CASE local = <<4, q, m>>
    <3>1. at = q \div 2 /\ right = <<6, y, 4, q, m>>
      BY <1>2, <2>3
    <3> HIDE DEF left, right, at
    <3>2. CASE p = 0
      <4>1. NotAfter(left, right) <=> x < y \/ x = y
        BY <1>5, <1>10, <3>1, <3>2, Zenon
      <4>2. p <= at
        BY <3>1, <3>2
      <4>3. QED
        BY <4>1, <4>2
    <3>3. CASE p # 0
      BY <1>8, <1>9, <1>10, <3>1, <3>3, Zenon
    <3>4. QED
      BY <3>2, <3>3
  <2>4. QED
    BY <2>1, <2>2, <2>3 DEF BodyShapes
<1>12. NotAfter(left, right) <=> a < b \/ (a = b /\ p <= at)
  <2> HIDE DEF left, right, at
  <2>1. QED
    BY <1>1, <1>11
<1>13. QED
  BY <1>12, Zenon DEF x, y, PagePath, PointedPage

\* A point in the body of a chapter is found on the last page not after it.
LEMMA LargestInChapter ==
    ASSUME IndexInv, phase = "ready", NEW cfi \in PointCfis,
           NEW k \in DOMAIN by_chapter, cfi.package = <<6, SpineStep(SpineOf(k))>>
    PROVE  LET before == Pages0NotAfter(cfi.package, cfi.local)
           IN LocationFromCfi(cfi) = {Some(CHOOSE i \in before : \A j \in before : j <= i)}
<1> DEFINE at == IF Len(cfi.local) < 2 THEN 0 ELSE cfi.local[2] \div 2
           before == Pages0NotAfter(cfi.package, cfi.local)
           len == Len(by_chapter[k])
           top == Prior(k - 1) + (IF at < len - 1 THEN at ELSE len - 1)
<1>1. positions \in Seq(Pages) /\ by_chapter \in Seq(Seq(Pages)) /\ ChaptersInv /\ BuildInv
      /\ next = Len(by_chapter) /\ next \in Nat
  BY DEF IndexInv, BasicType, ChaptersInv, PhaseInv
<1>2. PICK q \in Nat, m \in Nat : cfi.local \in {<<4>>, <<4, q>>, <<4, q, m>>}
  <2>1. cfi.local \in BodyPaths
    BY DEF PointCfis
  <2>2. \A x \in 1..MaxStep : x \in Nat
    BY <1>1 DEF MaxStep
  <2>3. CASE cfi.local = <<4>>
    <3>1. 0 \in Nat /\ cfi.local \in {<<4>>, <<4, 0>>, <<4, 0, 0>>}
      BY <2>3
    <3>2. QED
      BY <3>1
  <2>4. ASSUME NEW x \in 1..MaxStep, cfi.local = <<4, x>>
        PROVE  \E y \in Nat, z \in Nat : cfi.local \in {<<4>>, <<4, y>>, <<4, y, z>>}
    BY <2>2, <2>4
  <2>5. ASSUME NEW x \in 1..MaxStep, NEW z \in {1, 2}, cfi.local = <<4, x, z>>
        PROVE  \E y \in Nat, w \in Nat : cfi.local \in {<<4>>, <<4, y>>, <<4, y, w>>}
    BY <2>2, <2>5
  <2>6. QED
    BY <2>1, <2>3, <2>4, <2>5 DEF BodyPaths
<1>3. at \in Nat
  <2>1. CASE cfi.local = <<4>>
    BY <2>1
  <2>2. CASE cfi.local = <<4, q>> \/ cfi.local = <<4, q, m>>
    <3>1. cfi.local[2] = q
      BY <2>2
    <3>2. q \div 2 \in Nat
      OBVIOUS
    <3>3. QED
      BY <3>1, <3>2
  <2>3. QED
    BY <1>2, <2>1, <2>2
<1>4. /\ Prior(k - 1) \in Nat /\ len \in Nat \ {0} /\ SpineOf(k) \in Nat
      /\ Prior(k) = Prior(k - 1) + len /\ DOMAIN by_chapter[k] = 1..len
  BY ChapterTables
<1>5. LocationFromCfi(cfi) = {Some(top)}
  BY <1>3, LocationInChapter
\* Which pages are not after the point, by chapter and page.
<1>6. ASSUME NEW x \in DOMAIN positions
      PROVE  \E l \in DOMAIN by_chapter : \E i \in DOMAIN by_chapter[l] :
               /\ x = Prior(l - 1) + i
               /\ PageNotAfter(x, cfi.package, cfi.local) <=> l < k \/ (l = k /\ i - 1 <= at)
  <2>1. PICK l \in DOMAIN by_chapter : \E i \in DOMAIN by_chapter[l] :
          x = Prior(l - 1) + i /\ positions[x] = by_chapter[l][i] /\ PageInv(l, i)
    BY PageOrigin
  <2>2. PICK i \in DOMAIN by_chapter[l] :
          x = Prior(l - 1) + i /\ positions[x] = by_chapter[l][i] /\ PageInv(l, i)
    BY <2>1
  <2>3. SpineOf(l) \in Nat /\ i \in Nat \ {0} /\ i - 1 \in Nat /\ (i - 1 = 0 <=> i = 1)
    <3>1. SpineOf(l) \in Nat /\ DOMAIN by_chapter[l] = 1..Len(by_chapter[l])
          /\ Len(by_chapter[l]) \in Nat
      BY ChapterTables
    <3>2. QED
      BY <3>1
  <2>4. /\ positions[x].package = <<6, SpineStep(SpineOf(l))>>
        /\ positions[x].local = IF i - 1 = 0 THEN <<4>> ELSE <<4, (i - 1) * 2>>
    BY <2>2, <2>3 DEF PageInv
  <2>5. PageNotAfter(x, cfi.package, cfi.local)
          <=> NotAfter(<<6, SpineStep(SpineOf(l))>>
                         \o (IF i - 1 = 0 THEN <<4>> ELSE <<4, (i - 1) * 2>>),
                       <<6, SpineStep(SpineOf(k))>> \o cfi.local)
    BY <2>4, Zenon DEF PageNotAfter
  <2>6. PageNotAfter(x, cfi.package, cfi.local)
          <=> SpineOf(l) < SpineOf(k) \/ (SpineOf(l) = SpineOf(k) /\ i - 1 <= at)
    <3> DEFINE a == SpineOf(l)
               b == SpineOf(k)
               p == i - 1
    <3>1. a \in Nat /\ b \in Nat /\ p \in Nat
      BY <1>4, <2>3
    <3>2. PageNotAfter(x, cfi.package, cfi.local)
            <=> NotAfter(<<6, SpineStep(a)>> \o (IF p = 0 THEN <<4>> ELSE <<4, p * 2>>),
                         <<6, SpineStep(b)>> \o cfi.local)
      BY <2>5
    <3> HIDE DEF a, b, p
    <3>3. PageNotAfter(x, cfi.package, cfi.local) <=> a < b \/ (a = b /\ p <= at)
      <4> DEFINE local == cfi.local
      <4>1. /\ local \in {<<4>>, <<4, q>>, <<4, q, m>>}
            /\ at = IF Len(local) < 2 THEN 0 ELSE local[2] \div 2
        BY <1>2
      <4>2. PageNotAfter(x, cfi.package, cfi.local)
              <=> NotAfter(<<6, SpineStep(a)>> \o (IF p = 0 THEN <<4>> ELSE <<4, p * 2>>),
                           <<6, SpineStep(b)>> \o local)
        BY <3>2, Zenon
      <4> HIDE DEF local, at
      <4>3. NotAfter(PagePath(a, p), <<6, SpineStep(b)>> \o local)
              <=> a < b \/ (a = b /\ p <= PointedPage(local))
        <5>1. local \in BodyShapes(q, m)
          BY <4>1 DEF BodyShapes
        <5>2. QED
          BY <3>1, <5>1, PageBeforePoint, Zenon
      <4>4. QED
        BY <4>1, <4>2, <4>3, Zenon DEF PagePath, PointedPage
    <3>4. QED
      BY <3>3 DEF a, b, p
  <2>7. /\ l < k => SpineOf(l) < SpineOf(k)
        /\ k < l => SpineOf(k) < SpineOf(l)
    BY <1>1 DEF ChaptersInv
  <2>8. l \in Nat /\ k \in Nat
    BY <1>1
  <2>9. PageNotAfter(x, cfi.package, cfi.local) <=> l < k \/ (l = k /\ i - 1 <= at)
    BY <1>4, <2>3, <2>6, <2>7, <2>8
  <2>10. QED
    BY <2>2, <2>9
<1>7. before = {i \in 0..(Len(positions) - 1) : PageNotAfter(i + 1, cfi.package, cfi.local)}
  BY DEF Pages0NotAfter
<1>8. Prior(k) <= Len(positions) /\ k \in 1..next
  BY <1>1 DEF BuildInv
<1> HIDE DEF at, before, len
<1>9. /\ top \in Nat /\ Prior(k - 1) <= top /\ top < Prior(k)
       /\ top - Prior(k - 1) <= at
       /\ \A i \in 1..len : i - 1 <= at => Prior(k - 1) + i - 1 <= top
  <2>1. PICK pk \in Nat, ln \in Nat \ {0}, pp \in Nat, y \in Nat :
          pk = Prior(k - 1) /\ ln = len /\ pp = Prior(k) /\ y = at
    <3>1. Prior(k) \in Nat
      BY <1>4
    <3>2. QED
      BY <1>3, <1>4, <3>1, Zenon
  <2>2. pp = pk + ln
    BY <1>4, <2>1, Zenon
  <2>3. top = pk + (IF y < ln - 1 THEN y ELSE ln - 1)
    BY <2>1
  <2> HIDE DEF top
  <2>4. PICK tp \in Nat : tp = top /\ tp = pk + (IF y < ln - 1 THEN y ELSE ln - 1)
    BY <2>3
  <2>5. /\ pk <= tp /\ tp < pp /\ tp - pk <= y
        /\ \A i \in 1..ln : i - 1 <= y => pk + i - 1 <= tp
    BY <2>2, <2>4
  <2>6. QED
    BY <2>1, <2>4, <2>5, Zenon
<1> HIDE DEF top
<1>10. top \in before
  <2>1. PICK x \in DOMAIN positions : x = top + 1
    <3>1. top + 1 \in 1..Len(positions)
      BY <1>1, <1>4, <1>8, <1>9
    <3>2. QED
      BY <1>1, <3>1
  <2>2. PICK l \in DOMAIN by_chapter : \E i \in DOMAIN by_chapter[l] :
               /\ x = Prior(l - 1) + i
               /\ PageNotAfter(x, cfi.package, cfi.local) <=> l < k \/ (l = k /\ i - 1 <= at)
    BY <1>6
  <2>3. PICK i \in DOMAIN by_chapter[l] :
               /\ x = Prior(l - 1) + i
               /\ PageNotAfter(x, cfi.package, cfi.local) <=> l < k \/ (l = k /\ i - 1 <= at)
    BY <2>2
  <2>4. /\ Prior(l - 1) \in Nat /\ Len(by_chapter[l]) \in Nat \ {0}
        /\ Prior(l) = Prior(l - 1) + Len(by_chapter[l]) /\ i \in 1..Len(by_chapter[l])
        /\ l \in Nat /\ k \in Nat
    BY <1>1, ChapterTables
  <2>5. /\ l < k => Prior(l) <= Prior(k - 1)
        /\ k < l => Prior(k) <= Prior(l - 1)
    BY <1>1 DEF ChaptersInv
  <2>6. x = Prior(l - 1) + i
    BY <2>3
  <2>12. PICK pl \in Nat, nl \in Nat, pk \in Nat, tp \in Nat :
           pl = Prior(l - 1) /\ nl = Len(by_chapter[l]) /\ pk = Prior(k - 1) /\ tp = top
    BY <1>4, <1>9, <2>4
  <2>13. /\ i \in 1..nl /\ tp + 1 = pl + i
         /\ pk <= tp /\ tp - pk <= at
    BY <1>9, <2>1, <2>4, <2>6, <2>12, Zenon
  <2>14. i \in Nat /\ at \in Nat
    BY <1>3, <2>13
  <2>11. l = k
    <3>1. ASSUME l < k PROVE FALSE
      <4>1. pl + nl <= pk
        BY <2>4, <2>5, <2>12, <3>1, Zenon
      <4>2. QED
        BY <2>13, <2>14, <4>1
    <3>2. ASSUME k < l PROVE FALSE
      <4>1. top < Prior(l - 1)
        <5>1. PICK pp \in Nat : pp = Prior(k)
          BY <1>4
        <5>2. tp < pp /\ pp <= pl
          BY <1>9, <2>5, <2>12, <3>2, <5>1, Zenon
        <5>3. tp < pl
          BY <5>2
        <5>4. QED
          BY <2>12, <5>3, Zenon
      <4>2. tp < pl
        BY <2>12, <4>1, Zenon
      <4>3. QED
        BY <2>13, <2>14, <4>2
    <3>3. QED
      BY <2>4, <3>1, <3>2
  <2>7. i - 1 <= at
    <3>1. pl = pk
      BY <2>11, <2>12, Zenon
    <3>2. QED
      BY <2>13, <2>14, <3>1
  <2>8. PageNotAfter(top + 1, cfi.package, cfi.local)
    BY <2>1, <2>3, <2>7, <2>11
  <2>9. top \in 0..(Len(positions) - 1)
    BY <1>1, <1>4, <1>8, <1>9
  <2>10. QED
    BY <1>7, <2>8, <2>9
<1>11. ASSUME NEW j \in before PROVE j <= top
  <2>1. j \in 0..(Len(positions) - 1) /\ PageNotAfter(j + 1, cfi.package, cfi.local)
    BY <1>7
  <2>2. PICK x \in DOMAIN positions : x = j + 1
    BY <1>1, <2>1
  <2>3. PICK l \in DOMAIN by_chapter : \E i \in DOMAIN by_chapter[l] :
               /\ x = Prior(l - 1) + i
               /\ PageNotAfter(x, cfi.package, cfi.local) <=> l < k \/ (l = k /\ i - 1 <= at)
    BY <1>6
  <2>4. PICK i \in DOMAIN by_chapter[l] :
               x = Prior(l - 1) + i /\ (l < k \/ (l = k /\ i - 1 <= at))
    BY <2>1, <2>2, <2>3
  <2>5. /\ Prior(l - 1) \in Nat /\ Len(by_chapter[l]) \in Nat \ {0}
        /\ Prior(l) = Prior(l - 1) + Len(by_chapter[l]) /\ i \in 1..Len(by_chapter[l])
        /\ l \in Nat /\ k \in Nat
    BY <1>1, ChapterTables
  <2>6. l < k => Prior(l) <= Prior(k - 1)
    BY <1>1 DEF ChaptersInv
  <2>7. QED
    <3>1. j + 1 = Prior(l - 1) + i /\ j \in Int
      BY <2>1, <2>2, <2>4
    <3>2. CASE l < k
      <4>1. PICK pl \in Nat, nl \in Nat, pk \in Nat, tp \in Nat :
              pl = Prior(l - 1) /\ nl = Len(by_chapter[l]) /\ pk = Prior(k - 1) /\ tp = top
        BY <1>4, <1>9, <2>5
      <4>2. i \in 1..nl /\ j + 1 = pl + i /\ pk <= tp /\ pl + nl <= pk
        BY <1>9, <2>5, <2>6, <3>1, <3>2, <4>1, Zenon
      <4>3. j <= tp
        BY <3>1, <4>2
      <4>4. QED
        BY <4>1, <4>3, Zenon
    <3>3. CASE l = k /\ i - 1 <= at
      <4>1. Prior(l - 1) = Prior(k - 1) /\ i \in 1..len
        BY <2>5, <3>3 DEF len
      <4>2. Prior(k - 1) + i - 1 <= top
        BY <1>9, <3>3, <4>1
      <4>3. PICK pl \in Nat, tp \in Nat : pl = Prior(k - 1) /\ tp = top
        BY <1>4, <1>9
      <4>4. j + 1 = pl + i /\ pl + i - 1 <= tp
        BY <3>1, <4>1, <4>2, <4>3, Zenon
      <4>5. i \in Nat
        BY <2>5
      <4>6. j <= tp
        BY <3>1, <4>4, <4>5
      <4>7. QED
        BY <4>3, <4>6, Zenon
    <3>4. QED
      BY <2>4, <3>2, <3>3
<1>12. (CHOOSE i \in before : \A j \in before : j <= i) = top
  <2>1. \A i \in before : i \in Int
    BY <1>7
  <2>2. top \in Int
    BY <1>10, <2>1
  <2> DEFINE c == CHOOSE i \in before : \A j \in before : j <= i
  <2>3. c \in before /\ \A j \in before : j <= c
    BY <1>10, <1>11
  <2>4. c <= top /\ top <= c /\ c \in Int
    BY <1>10, <1>11, <2>1, <2>3
  <2> HIDE DEF c
  <2>5. c = top
    BY <2>2, <2>4
  <2>6. QED
    BY <2>5 DEF c
<1>13. QED
  BY <1>5, <1>12 DEF before, top

\* Every chapter has a page in the list.
LEMMA FirstPage ==
    ASSUME IndexInv, phase = "ready", NEW k \in DOMAIN by_chapter
    PROVE  \E x \in DOMAIN positions : positions[x].package = <<6, SpineStep(SpineOf(k))>>
<1>1. positions \in Seq(Pages) /\ by_chapter \in Seq(Seq(Pages)) /\ ChaptersInv /\ BuildInv
      /\ next = Len(by_chapter)
  BY DEF IndexInv, BasicType, ChaptersInv, PhaseInv
<1>2. /\ Prior(k - 1) \in Nat /\ Len(by_chapter[k]) \in Nat \ {0}
      /\ Prior(k) = Prior(k - 1) + Len(by_chapter[k])
      /\ DOMAIN by_chapter[k] = 1..Len(by_chapter[k])
  BY ChapterTables
<1>3. 1 \in DOMAIN by_chapter[k] /\ k \in 1..next
  BY <1>1, <1>2
<1>4. positions[Prior(k - 1) + 1] = by_chapter[k][1] /\ Prior(k) <= Len(positions)
  BY <1>1, <1>3 DEF BuildInv
<1>5. PageInv(k, 1)
  BY <1>1, <1>3 DEF ChaptersInv, ChapterInv
<1>6. Prior(k - 1) + 1 \in DOMAIN positions
  BY <1>1, <1>2, <1>4
<1>7. by_chapter[k][1].package = <<6, SpineStep(SpineOf(k))>>
  BY <1>5 DEF PageInv
<1>8. QED
  BY <1>4, <1>6, <1>7

\* A point of no chapter is on no page.
LEMMA NowhereElse ==
    ASSUME IndexInv, phase = "ready", NEW cfi \in PointCfis,
           \A k \in DOMAIN by_chapter : cfi.package # <<6, SpineStep(SpineOf(k))>>
    PROVE  LocationFromCfi(cfi) = {None}
<1>1. BuildInv /\ next = Len(by_chapter) /\ by_chapter \in Seq(Seq(Pages))
      /\ spine \in Seq(SpineItem)
  BY SpineType DEF IndexInv, PhaseInv, ChaptersInv
<1>2. PICK s \in Nat : cfi.package = <<6, SpineStep(s)>>
  <2>1. cfi.package \in SpinePaths
    BY DEF PointCfis
  <2>2. PICK t \in 1..(Len(spine) + 1) : cfi.package = <<6, SpineStep(t - 1)>>
    BY <2>1 DEF SpinePaths
  <2>3. t - 1 \in Nat
    BY <1>1, <2>2
  <2>4. QED
    BY <2>2, <2>3
<1> DEFINE step == cfi.package[2]
<1>3. Len(cfi.package) = 2 /\ step = SpineStep(s)
  BY <1>2
<1>4. step >= 2 /\ step \div 2 - 1 = s /\ step \in Nat
  BY <1>3, StepOfIndex
<1>5. s \notin DOMAIN spine_to_order
  <2>1. \A k \in 1..next : s # SpineOf(k)
    <3>1. ASSUME NEW k \in 1..next PROVE s # SpineOf(k)
      <4>1. k \in DOMAIN by_chapter
        BY <1>1
      <4>2. cfi.package # <<6, SpineStep(SpineOf(k))>>
        BY <4>1
      <4>3. QED
        BY <1>2, <4>2
    <3>2. QED
      BY <3>1
  <2>2. DOMAIN spine_to_order = {SpineOf(k) : k \in 1..next}
    BY <1>1 DEF BuildInv
  <2>3. QED
    BY <2>1, <2>2
<1>6. ~ (Len(cfi.package) < 2) /\ ~ (step < 2) /\ step \div 2 - 1 \notin DOMAIN spine_to_order
  BY <1>3, <1>4, <1>5
<1>7. QED
  BY <1>6, Zenon DEF LocationFromCfi

\* Looking a CFI up by dividing its steps agrees with the order of CFIs, for any
\* book, and undoes the way back.
THEOREM LookupsFollowOrder == Spec => []LookupsAgree
<1>1. ASSUME IndexInv PROVE LookupsAgree
  <2>1. RoundTrips
    <3>1. phase = "ready" => RoundTrips
      BY <1>1, RoundTrip
    <3>2. phase # "ready" => RoundTrips
      BY DEF RoundTrips
    <3>3. QED
      BY <3>1, <3>2
  <2>2. ASSUME phase = "ready", NEW cfi \in PointCfis
        PROVE  LocationFromCfi(cfi) =
                 IF \E i \in DOMAIN positions : positions[i].package = cfi.package
                 THEN LET before == Pages0NotAfter(cfi.package, cfi.local)
                      IN {Some(CHOOSE i \in before : \A j \in before : j <= i)}
                 ELSE {None}
    <3>1. CASE \E k \in DOMAIN by_chapter : cfi.package = <<6, SpineStep(SpineOf(k))>>
      <4>1. PICK k \in DOMAIN by_chapter : cfi.package = <<6, SpineStep(SpineOf(k))>>
        BY <3>1
      <4>2. \E i \in DOMAIN positions : positions[i].package = cfi.package
        BY <1>1, <2>2, <4>1, FirstPage
      <4>3. QED
        BY <1>1, <2>2, <4>1, <4>2, LargestInChapter
    <3>2. CASE ~ \E k \in DOMAIN by_chapter : cfi.package = <<6, SpineStep(SpineOf(k))>>
      <4>1. LocationFromCfi(cfi) = {None}
        BY <1>1, <2>2, <3>2, NowhereElse
      <4>2. ~ \E i \in DOMAIN positions : positions[i].package = cfi.package
        <5>1. ASSUME NEW x \in DOMAIN positions
              PROVE  positions[x].package # cfi.package
          <6>1. PICK k \in DOMAIN by_chapter : \E i \in DOMAIN by_chapter[k] :
                    positions[x] = by_chapter[k][i] /\ PageInv(k, i)
            BY <1>1, <2>2, PageOrigin
          <6>2. positions[x].package = <<6, SpineStep(SpineOf(k))>>
            BY <6>1 DEF PageInv
          <6>3. QED
            BY <3>2, <6>2
        <5>2. QED
          BY <5>1
      <4>3. QED
        BY <4>1, <4>2
    <3>3. QED
      BY <3>1, <3>2
  <2>3. LargestNotAfter
    BY <2>2 DEF LargestNotAfter
  <2>4. QED
    BY <2>1, <2>3 DEF LookupsAgree
<1>2. QED
  BY IndexInvariant, <1>1, PTL

-----------------------------------------------------------------------------
\* A chapter is as long as its item asks for, and every linear item dealt with
\* has a chapter.
CoverInv ==
    /\ \A k \in DOMAIN by_chapter :
          /\ spine[SpineOf(k) + 1].linear
          /\ Len(by_chapter[k]) = PagesOf(spine[SpineOf(k) + 1], page_length)
    /\ \A s \in DOMAIN spine :
          spine[s].linear /\ (phase \in {"count", "failed"} => s <= next) =>
              \E k \in DOMAIN by_chapter : SpineOf(k) = s - 1

\* A division that rounds up gives enough pages and none to spare.
LEMMA RoundedUp ==
    ASSUME NEW len \in Nat, NEW page \in Nat
    PROVE  LET count == PositionCount(len, page)
               page_len == IF page < 1 THEN 1 ELSE page
           IN count * page_len >= len /\ (count > 1 => (count - 1) * page_len < len)
<1> DEFINE page_len == IF page < 1 THEN 1 ELSE page
           q == (len + page_len - 1) \div page_len
           count == IF q < 1 THEN 1 ELSE q
<1>1. page_len \in Nat /\ page_len >= 1
  OBVIOUS
<1> HIDE DEF page_len
<1>2. \A n, d \in Nat : d >= 1 => /\ n \div d \in Nat /\ n = d * (n \div d) + (n % d)
                                 /\ n % d \in 0..(d - 1)
  OBVIOUS
<1>3. len + page_len - 1 \in Nat
  BY <1>1
<1>4. PICK r \in 0..(page_len - 1) : q \in Nat /\ len + page_len - 1 = page_len * q + r
  BY <1>1, <1>2, <1>3
<1> HIDE DEF q
<1>5. \A a, b \in Nat : a * b \in Nat /\ (a - 1) * b = b * a - b /\ a * b = b * a
  OBVIOUS
<1>6. page_len * q \in Nat /\ (q - 1) * page_len = page_len * q - page_len
      /\ q * page_len = page_len * q
  BY <1>1, <1>4, <1>5
<1>7. CASE q < 1
  <2>1. q = 0 /\ page_len * q = 0 /\ count = 1 /\ count * page_len = page_len
    BY <1>1, <1>4, <1>7
  <2> HIDE DEF count
  <2>2. count * page_len >= len /\ (count > 1 => (count - 1) * page_len < len)
    BY <1>1, <1>4, <2>1
  <2>3. QED
    BY <2>2, Zenon DEF count, q, PositionCount, page_len
<1>8. CASE ~(q < 1)
  <2> DEFINE m == page_len * q
  <2>1. count = q /\ count * page_len = m /\ (count - 1) * page_len = m - page_len /\ m \in Nat
    BY <1>6, <1>8
  <2>2. len + page_len - 1 = m + r
    BY <1>4
  <2> HIDE DEF count, m
  <2>3. count * page_len >= len /\ (count > 1 => (count - 1) * page_len < len)
    BY <1>1, <1>4, <2>1, <2>2
  <2>4. QED
    BY <2>3, Zenon DEF count, q, PositionCount, page_len
<1>9. QED
  BY <1>7, <1>8

\* What building leaves alone.
LEMMA SameCover ==
    ASSUME CoverInv, UNCHANGED <<by_chapter, spine, page_length>>,
           phase' \in {"count", "failed"} => phase \in {"count", "failed"} /\ next' = next,
           phase \in {"count", "failed"} => phase' \in {"count", "failed"}
    PROVE  CoverInv'
<1>1. by_chapter' = by_chapter /\ spine' = spine /\ page_length' = page_length
  OBVIOUS
<1>2. \A k : SpineOf(k)' = SpineOf(k)
  BY <1>1 DEF SpineOf
<1>3. QED
  BY <1>1, <1>2 DEF CoverInv

\* A non-linear item, or a chapter that cannot be read, needs no chapter of its own.
LEMMA SkipCovers ==
    ASSUME IndexInv, CoverInv, SkipNonLinear
    PROVE  CoverInv'
<1>1. /\ phase = "count" /\ phase' = "count" /\ next' = next + 1
      /\ by_chapter' = by_chapter /\ spine' = spine /\ page_length' = page_length
      /\ ~spine[next + 1].linear
  BY DEF SkipNonLinear, Counting
<1>2. spine \in Seq(SpineItem) /\ next \in Nat
  BY SpineType DEF IndexInv, BasicType
<1>3. \A k : SpineOf(k)' = SpineOf(k)
  BY <1>1 DEF SpineOf
<1>4. \A s \in DOMAIN spine : spine[s].linear /\ s <= next' => s <= next
  BY <1>1, <1>2
<1>5. QED
  BY <1>1, <1>3, <1>4 DEF CoverInv

\* The chapter appended for an item is as long as the item asks for.
LEMMA CountCovers ==
    ASSUME IndexInv, CoverInv, CountChapter
    PROVE  CoverInv'
<1>1. /\ spine \in Seq(SpineItem) /\ page_length \in Nat
      /\ next \in Nat /\ next < Len(spine) /\ Len(spine) \in Nat
      /\ last_position \in Nat
  BY SpineType DEF IndexInv, BasicType, CountChapter, Counting
<1>2. PICK count \in Nat \ {0} : count = PagesOf(spine[next + 1], page_length)
  <2>1. spine[next + 1] \in SpineItem
    BY <1>1
  <2>2. QED
    BY <1>1, <2>1, PagesOfType
<1>3. PICK new : new = Chapter(next, count, last_position)
  OBVIOUS
<1>4. /\ by_chapter' = Append(by_chapter, new) /\ next' = next + 1
      /\ spine' = spine /\ page_length' = page_length /\ phase = "count" /\ phase' = "count"
      /\ spine[next + 1].linear
  BY <1>2, <1>3 DEF CountChapter, Counting
<1>5. new \in Seq(Pages) /\ Len(new) = count /\ new[1].spine_index = next
  <2> DEFINE made == Chapter(next, count, last_position)
  <2>1. /\ made \in Seq(Pages) /\ Len(made) = count
        /\ \A i \in 1..count : made[i] = Page(next, i - 1, count, last_position)
    <3>1. next \in Nat /\ last_position \in Nat
      BY <1>1
    <3>2. QED
      BY <3>1, ChapterPages
  <2>2. new = made
    BY <1>3
  <2> HIDE DEF made
  <2>3. new[1] = Page(next, 1 - 1, count, last_position)
    BY <1>2, <2>1, <2>2
  <2>4. QED
    BY <2>1, <2>2, <2>3 DEF Page
<1>6. PICK n \in Nat : n = Len(by_chapter) /\ by_chapter \in Seq(Seq(Pages))
                        /\ DOMAIN by_chapter = 1..n
  BY DEF IndexInv, ChaptersInv
<1>7. /\ DOMAIN by_chapter' = 1..(n + 1)
      /\ \A k \in 1..n : by_chapter'[k] = by_chapter[k]
      /\ by_chapter'[n + 1] = new
  BY <1>4, <1>5, <1>6
<1>8. SpineOf(n + 1)' = next /\ \A k \in 1..n : SpineOf(k)' = SpineOf(k)
  BY <1>5, <1>7 DEF SpineOf
<1>9. ASSUME NEW k \in 1..(n + 1)
      PROVE  /\ spine[SpineOf(k)' + 1].linear
             /\ Len(by_chapter'[k]) = PagesOf(spine[SpineOf(k)' + 1], page_length)
  <2>1. CASE k = n + 1
    <3>1. SpineOf(k)' = next
      BY <1>8, <2>1
    <3>2. by_chapter'[k] = new
      BY <1>7, <2>1
    <3>3. QED
      BY <1>2, <1>4, <1>5, <3>1, <3>2
  <2>2. CASE k # n + 1
    <3>1. k \in 1..n /\ k \in DOMAIN by_chapter
      BY <1>6, <2>2
    <3>2. SpineOf(k)' = SpineOf(k) /\ by_chapter'[k] = by_chapter[k]
      BY <1>7, <1>8, <3>1
    <3>3. QED
      BY <3>1, <3>2 DEF CoverInv
  <2>3. QED
    BY <2>1, <2>2
<1>10. ASSUME NEW s \in DOMAIN spine, spine[s].linear, s <= next + 1
       PROVE  \E k \in 1..(n + 1) : SpineOf(k)' = s - 1
  <2>1. CASE s = next + 1
    <3>1. SpineOf(n + 1)' = s - 1 /\ n + 1 \in 1..(n + 1)
      BY <1>1, <1>6, <1>8, <2>1
    <3>2. QED
      BY <3>1
  <2>2. CASE s # next + 1
    <3>1. s <= next
      BY <1>1, <1>10, <2>2
    <3>2. PICK k \in DOMAIN by_chapter : SpineOf(k) = s - 1
      BY <1>10, <3>1 DEF CoverInv
    <3>3. k \in 1..n /\ k \in 1..(n + 1)
      BY <1>6
    <3>4. QED
      BY <1>8, <3>2, <3>3
  <2>3. QED
    BY <2>1, <2>2
<1>11. QED
  BY <1>4, <1>7, <1>9, <1>10 DEF CoverInv

\* The totals written at the end leave every chapter its length.
LEMMA TotalsCover ==
    ASSUME IndexInv, CoverInv, ComputeTotals
    PROVE  CoverInv'
<1> DEFINE total(k, i) == <<by_chapter[k][i].global_position - 1, last_position>>
<1>1. /\ by_chapter' = [k \in DOMAIN by_chapter |-> [i \in DOMAIN by_chapter[k] |->
            [by_chapter[k][i] EXCEPT !.total_progression = total(k, i)]]]
      /\ phase = "count" /\ phase' = "build" /\ next = Len(spine)
      /\ spine' = spine /\ page_length' = page_length
  BY DEF ComputeTotals
<1>2. /\ by_chapter \in Seq(Seq(Pages)) /\ spine \in Seq(SpineItem)
      /\ DOMAIN by_chapter' = DOMAIN by_chapter
  BY <1>1, SpineType DEF IndexInv, ChaptersInv
<1>3. ASSUME NEW k \in DOMAIN by_chapter
      PROVE  SpineOf(k)' = SpineOf(k) /\ Len(by_chapter'[k]) = Len(by_chapter[k])
  <2>1. PICK len \in Nat \ {0} : len = Len(by_chapter[k])
    BY PriorStep DEF IndexInv
  <2>2. by_chapter[k] \in Seq(Pages) /\ DOMAIN by_chapter[k] = 1..len /\ 1 \in 1..len
    BY <1>2, <2>1
  <2> DEFINE page == by_chapter[k][1]
             t == total(k, 1)
             f == [i \in 1..len |-> [by_chapter[k][i] EXCEPT !.total_progression = total(k, i)]]
  <2>3. by_chapter'[k] = f
    BY <1>1, <2>2
  <2>4. f[1] = [page EXCEPT !.total_progression = t] /\ Len(f) = len
    BY <2>1, <2>2
  <2>5. page \in Pages
    BY <2>2
  <2> HIDE DEF page, t, f
  <2>6. [page EXCEPT !.total_progression = t].spine_index = page.spine_index
    BY <2>5 DEF Pages
  <2>7. QED
    BY <2>1, <2>3, <2>4, <2>6 DEF SpineOf, page
<1>4. \A s \in DOMAIN spine : s <= next
  BY <1>1, <1>2
<1>5. QED
  BY <1>1, <1>2, <1>3, <1>4 DEF CoverInv

\* The whole of it is inductive on top of the invariant of the index.
LEMMA CoverHolds ==
    ASSUME IndexInv, CoverInv, [Next]_vars
    PROVE  CoverInv'
<1>1. CASE MissingManifestItem
  BY <1>1, SameCover DEF MissingManifestItem, Counting
<1>2. CASE BuildChapter
  BY <1>2, SameCover DEF BuildChapter
<1>3. CASE Built
  BY <1>3, SameCover DEF Built
<1>4. CASE UNCHANGED vars
  BY <1>4, SameCover DEF vars
<1>5. QED
  BY <1>1, <1>2, <1>3, <1>4, SkipCovers, CountCovers, TotalsCover DEF Next

\* The pages of an item in the finished index.
LEMMA ItemPages ==
    ASSUME IndexInv, phase = "ready", NEW k \in DOMAIN by_chapter
    PROVE  Cardinality({x \in DOMAIN positions : positions[x].spine_index = SpineOf(k)})
             = Len(by_chapter[k])
<1> DEFINE mine == {x \in DOMAIN positions : positions[x].spine_index = SpineOf(k)}
<1>1. BuildInv /\ ChaptersInv /\ next = Len(by_chapter) /\ by_chapter \in Seq(Seq(Pages))
      /\ positions \in Seq(Pages)
  BY DEF IndexInv, PhaseInv, ChaptersInv, BasicType
<1>2. PICK pk \in Nat, len \in Nat \ {0} :
         /\ pk = Prior(k - 1) /\ len = Len(by_chapter[k]) /\ Prior(k) = pk + len
         /\ DOMAIN by_chapter[k] = 1..len
  BY ChapterTables
<1>3. k \in 1..next /\ Prior(k) <= Len(positions) /\ DOMAIN positions = 1..Len(positions)
      /\ Len(positions) \in Nat
  BY <1>1 DEF BuildInv
<1>4. ASSUME NEW x \in (pk + 1)..(pk + len) PROVE x \in mine
  <2>1. PICK i \in 1..len : x = pk + i
    <3>1. x - pk \in 1..len /\ x = pk + (x - pk)
      BY <1>2
    <3>2. QED
      BY <3>1
  <2>2. positions[Prior(k - 1) + i] = by_chapter[k][i]
    BY <1>1, <1>2, <1>3 DEF BuildInv
  <2>3. PageInv(k, i)
    BY <1>1, <1>2 DEF ChaptersInv, ChapterInv
  <2>4. positions[x].spine_index = SpineOf(k)
    BY <1>2, <2>1, <2>2, <2>3 DEF PageInv
  <2>5. x \in DOMAIN positions
    BY <1>2, <1>3
  <2>6. QED
    BY <2>4, <2>5
<1>5. ASSUME NEW x \in mine PROVE x \in (pk + 1)..(pk + len)
  <2>1. PICK l \in DOMAIN by_chapter : \E i \in DOMAIN by_chapter[l] :
           x = Prior(l - 1) + i /\ positions[x] = by_chapter[l][i] /\ PageInv(l, i)
    BY PageOrigin
  <2>2. PICK i \in DOMAIN by_chapter[l] :
           x = Prior(l - 1) + i /\ positions[x] = by_chapter[l][i] /\ PageInv(l, i)
    BY <2>1
  <2>3. SpineOf(l) = SpineOf(k)
    BY <2>2 DEF PageInv
  <2>4. /\ SpineOf(l) \in Nat /\ SpineOf(k) \in Nat /\ l \in Nat /\ k \in Nat
    BY ChapterTables
  <2>5. ~(l < k) /\ ~(k < l)
    <3>1. /\ l < k => SpineOf(l) < SpineOf(k)
          /\ k < l => SpineOf(k) < SpineOf(l)
      BY <1>1 DEF ChaptersInv
    <3>2. QED
      BY <2>3, <2>4, <3>1
  <2>6. l = k
    BY <2>4, <2>5
  <2>7. i \in 1..len /\ x = pk + i
    BY <1>2, <2>2, <2>6
  <2>8. QED
    BY <1>2, <2>7
<1> HIDE DEF mine
<1>6. mine = (pk + 1)..(pk + len)
  BY <1>4, <1>5
<1>7. Cardinality((pk + 1)..(pk + len)) = len
  <2>1. pk + 1 \in Int /\ pk + len \in Int /\ ~(pk + 1 > pk + len)
        /\ (pk + len) - (pk + 1) + 1 = len
    BY <1>2
  <2>2. QED
    BY <2>1, FS_Interval
<1>8. QED
  BY <1>2, <1>6, <1>7 DEF mine

\* However long its text, encrypted or not, an item is given the pages it needs:
\* none too few, none to spare (positions_by_reading_order).
THEOREM EachItemCovered == Spec => []PagesCoverEachItem
<1>1. Init => CoverInv
  <2> SUFFICES ASSUME Init PROVE CoverInv
    OBVIOUS
  <2>1. BasicType
    BY DEF Init, BasicType
  <2>2. by_chapter = << >> /\ next = 0 /\ phase = "count" /\ \A s \in DOMAIN spine : ~(s <= 0)
    BY <2>1, SpineType DEF Init
  <2>3. QED
    BY <2>2 DEF CoverInv
<1>2. ASSUME IndexInv, CoverInv PROVE PagesCoverEachItem
  <2> SUFFICES ASSUME phase = "ready", NEW s \in DOMAIN spine
               PROVE
        LET mine == {i \in DOMAIN positions : positions[i].spine_index = s - 1}
            pages == Cardinality(mine)
            page_len == IF page_length < 1 THEN 1 ELSE page_length
            bytes == IF spine[s].original_length = NoLength
                     THEN spine[s].archive_len ELSE spine[s].original_length
        IN IF ~spine[s].linear THEN pages = 0
           ELSE /\ pages >= 1
                /\ spine[s].fixed => pages = 1
                /\ ~spine[s].fixed =>
                      pages * page_len >= bytes /\ (pages > 1 => (pages - 1) * page_len < bytes)
    BY DEF PagesCoverEachItem
  <2> DEFINE mine == {i \in DOMAIN positions : positions[i].spine_index = s - 1}
             pages == Cardinality(mine)
             page_len == IF page_length < 1 THEN 1 ELSE page_length
             bytes == IF spine[s].original_length = NoLength
                      THEN spine[s].archive_len ELSE spine[s].original_length
  <2>1. spine \in Seq(SpineItem) /\ spine[s] \in SpineItem /\ page_length \in Nat /\ s \in Nat
    BY <1>2, SpineType DEF IndexInv
  <2>2. CASE ~spine[s].linear
    <3>1. mine = {}
      <4>1. ASSUME NEW x \in mine PROVE FALSE
        <5>1. PICK l \in DOMAIN by_chapter : \E i \in DOMAIN by_chapter[l] :
                 positions[x] = by_chapter[l][i] /\ PageInv(l, i)
          BY <1>2, PageOrigin
        <5>2. SpineOf(l) = s - 1
          BY <4>1, <5>1 DEF PageInv
        <5>3. SpineOf(l) + 1 = s
          BY <2>1, <5>2
        <5>4. spine[SpineOf(l) + 1].linear
          BY <1>2 DEF CoverInv
        <5>5. QED
          BY <2>2, <5>3, <5>4
      <4>2. QED
        BY <4>1
    <3>2. pages = 0
      BY <3>1, FS_EmptySet
    <3>3. QED
      BY <2>2, <3>2
  <2>3. CASE spine[s].linear
    <3>1. PICK k \in DOMAIN by_chapter : SpineOf(k) = s - 1
      BY <1>2, <2>3 DEF CoverInv
    <3>2. pages = Len(by_chapter[k])
      BY <1>2, <3>1, ItemPages
    <3>3. SpineOf(k) + 1 = s
      BY <2>1, <3>1
    <3>4. pages = PagesOf(spine[s], page_length)
      BY <1>2, <3>2, <3>3 DEF CoverInv
    <3>5. pages \in Nat \ {0}
      BY <2>1, <3>4, PagesOfType
    <3>6. bytes \in Nat
      BY <2>1 DEF SpineItem
    <3>7. ~spine[s].fixed =>
             pages * page_len >= bytes /\ (pages > 1 => (pages - 1) * page_len < bytes)
      <4>1. ~spine[s].fixed => pages = PositionCount(bytes, page_length)
        BY <3>4 DEF PagesOf
      <4>2. LET count == PositionCount(bytes, page_length)
            IN count * page_len >= bytes /\ (count > 1 => (count - 1) * page_len < bytes)
        BY <2>1, <3>6, RoundedUp
      <4> HIDE DEF pages, bytes, page_len
      <4>3. QED
        BY <4>1, <4>2
    <3>8. spine[s].fixed => pages = 1
      BY <3>4 DEF PagesOf
    <3> HIDE DEF pages, bytes, page_len
    <3>9. pages >= 1
      BY <3>5
    <3>10. QED
      BY <2>3, <3>7, <3>8, <3>9, Zenon DEF pages, bytes, page_len
  <2>4. QED
    BY <2>2, <2>3
<1>3. QED
  BY IndexInvariant, <1>1, <1>2, CoverHolds, PTL DEF Spec
=============================================================================
