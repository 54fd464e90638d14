-------------------------- MODULE ChapterCfiProofs --------------------------
(***************************************************************************)
(* What is proved of a chapter's CFIs.                                      *)
(*                                                                          *)
(* What a reading system holds is text of the characters there are, and     *)
(* what the parser made of it is totally ordered (OrderIsTotal).            *)
(*                                                                          *)
(* CfiInv is the inductive invariant of traverse_and_inject and             *)
(* search_node.  The stack of calls is where a walk in document order would *)
(* be (Frontier), each frame holds the text of the way to its node          *)
(* (Placed), and every mark and match is the text of a way.  With reading   *)
(* back it gives WrittenIsRead, MarksAreOrdered, MarksLeadBack,             *)
(* MatchesLeadBack and RangesKeepBoth.                                      *)
(***************************************************************************)
EXTENDS ChapterCfi, CfiProofs

\* Every text there is consists of these characters.
WrittenWith(chars) ==
    /\ Digital \subseteq chars /\ Punctuation \subseteq chars
    /\ Bookmarks \subseteq Seq(chars)
    /\ \A c \in Chapters : /\ c.item_id \in Seq(chars)
                           /\ \A n \in DOMAIN c.id : c.id[n] \in Seq(chars) \cup {Absent}

-----------------------------------------------------------------------------
FrameOf(chars) ==
    [node : Nodes \cup {0}, rest : Seq(Nodes), child_index : Nat, path : Seq(chars)]
MatchOf(chars) == [node : Nodes, match : Nat \X Nat, cfi : Seq(chars)]
HeldOf(chars) == [text : Seq(chars), cfi : CfiOf(chars) \cup {Malformed}]

\* Everything written is a text, and everything held is a CFI or malformed.
TextInv(chars) ==
    /\ chapter \in Chapters
    /\ walk \in Seq(FrameOf(chars))
    /\ \A n \in DOMAIN marks : marks[n] \in Seq(chars)
    /\ found \in Seq(MatchOf(chars))
    /\ held \in Seq(HeldOf(chars))

\* At the start nothing is written.
LEMMA TextInit ==
    ASSUME NEW chars, WrittenWith(chars), Init
    PROVE  TextInv(chars)
<1>1. chapter \in Chapters /\ marks = << >> /\ found = << >> /\ held = << >>
  BY DEF Init
<1>2. chapter.children[0] \in Seq(Nodes)
  <2>1. chapter.children \in [Nodes \cup {0} -> Seq(Nodes)]
    BY <1>1, ChaptersAssumption DEF Nodes, IsChapter
  <2>2. QED
    BY <2>1
<1>3. Frame(0, << >>) \in FrameOf(chars)
  BY <1>2 DEF Frame, FrameOf
<1> DEFINE top == Frame(0, << >>)
<1> HIDE DEF top
<1>4. <<top>> \in Seq(FrameOf(chars))
  BY <1>3 DEF top
<1>5. walk \in Seq(FrameOf(chars))
  BY <1>4 DEF Init, top
<1>6. QED
  BY <1>1, <1>5 DEF TextInv

\* The base of a chapter is a text.
LEMMA BaseWritten ==
    ASSUME NEW chars, WrittenWith(chars), chapter \in Chapters
    PROVE  Base \in Seq(chars)
<1> DEFINE second == PrintStep(Step((chapter.spine_index + 1) * 2, chapter.item_id))
           first == PrintStep(Step(6, Absent))
           bang == <<"!">>
<1>1. Base = (first \o second) \o bang
  BY DEF Base, SpineBase
<1>2. first \in Seq(chars)
  BY StepWritten DEF WrittenWith, Punctuation
<1>3. second \in Seq(chars)
  <2>1. chapter.spine_index \in Nat
    BY ChaptersAssumption DEF IsChapter
  <2>2. (chapter.spine_index + 1) * 2 \in Nat
    BY <2>1
  <2>3. chapter.item_id \in Seq(chars)
    BY DEF WrittenWith
  <2>4. QED
    BY <2>2, <2>3, StepWritten DEF WrittenWith, Punctuation
<1>4. bang \in Seq(chars)
  BY TextsJoined DEF WrittenWith, Punctuation
<1> HIDE DEF first, second, bang
<1>5. first \o second \in Seq(chars)
  BY <1>2, <1>3, TextsJoined
<1>6. QED
  BY <1>1, <1>4, <1>5, TextsJoined

\* The range of a match is a text.
LEMMA MatchWritten ==
    ASSUME NEW chars, WrittenWith(chars), chapter \in Chapters,
           Top \in FrameOf(chars), NEW match \in Nat \X Nat
    PROVE  MatchCfi(match) \in Seq(chars)
<1>1. Top.child_index \in Nat /\ Top.path \in Seq(chars)
  BY DEF FrameOf
<1> DEFINE text_step == PrintStep(Step(Top.child_index + 1, Absent))
           comma == <<",">>
           from == PrintOffset(match[1])
           to == PrintOffset(match[2])
           base == Base
           path == Top.path
<1>2. text_step \in Seq(chars)
  <2>1. Top.child_index + 1 \in Nat
    BY <1>1
  <2>2. QED
    BY <2>1, StepWritten DEF WrittenWith, Punctuation
<1>3. from \in Seq(chars) /\ to \in Seq(chars)
  <2>1. match[1] \in Offset /\ match[2] \in Offset
    BY DEF Offset
  <2>2. QED
    BY <2>1, OffsetWritten DEF WrittenWith, Punctuation
<1>4. comma \in Seq(chars)
  BY TextsJoined DEF WrittenWith, Punctuation
<1>5. base \in Seq(chars) /\ path \in Seq(chars)
  BY <1>1, BaseWritten
<1> DEFINE text == ((((((base \o path) \o comma) \o text_step) \o from) \o comma)
                      \o text_step) \o to
<1>6. MatchCfi(match) = Wrap(text)
  BY DEF MatchCfi
<1> HIDE DEF text_step, comma, from, to, base, path
<1>7. \A s, t \in Seq(chars) : s \o t \in Seq(chars)
  BY TextsJoined
<1>8. text \in Seq(chars)
  BY <1>2, <1>3, <1>4, <1>5, <1>7
<1> HIDE DEF text
<1>9. QED
  BY <1>6, <1>8, Wrapped DEF WrittenWith

\* A step of the walk keeps the frames below, and the one on top may be
\* replaced or gone.
LEMMA WalkOf ==
    ASSUME NEW chars, walk \in Seq(FrameOf(chars)), Walking
    PROVE  /\ Top \in FrameOf(chars) /\ Tail(walk) \in Seq(FrameOf(chars))
           /\ \A f \in FrameOf(chars) : <<f>> \o Tail(walk) \in Seq(FrameOf(chars))
           /\ \A f, g \in FrameOf(chars) : <<f, g>> \o Tail(walk) \in Seq(FrameOf(chars))
           /\ Top.rest # << >> =>
                /\ Head(Top.rest) \in Nodes /\ Skip \in FrameOf(chars)
                /\ \A i \in Nat : [Skip EXCEPT !.child_index = i] \in FrameOf(chars)
<1>1. Top \in FrameOf(chars) /\ Tail(walk) \in Seq(FrameOf(chars))
  BY DEF Walking, Top
<1>2. \A f \in FrameOf(chars) : <<f>> \o Tail(walk) \in Seq(FrameOf(chars))
  <2>1. TAKE f \in FrameOf(chars)
  <2>2. <<f>> \in Seq(FrameOf(chars))
    OBVIOUS
  <2>3. QED
    BY <1>1, <2>2, ConcatProperties
<1>3. \A f, g \in FrameOf(chars) : <<f, g>> \o Tail(walk) \in Seq(FrameOf(chars))
  <2>1. TAKE f, g \in FrameOf(chars)
  <2>2. <<f, g>> \in Seq(FrameOf(chars))
    OBVIOUS
  <2>3. QED
    BY <1>1, <2>2, ConcatProperties
<1>4. ASSUME Top.rest # << >>
      PROVE  /\ Head(Top.rest) \in Nodes /\ Skip \in FrameOf(chars)
             /\ \A i \in Nat : [Skip EXCEPT !.child_index = i] \in FrameOf(chars)
  <2>1. Top.rest \in Seq(Nodes)
    BY <1>1 DEF FrameOf
  <2>2. Head(Top.rest) \in Nodes /\ Tail(Top.rest) \in Seq(Nodes)
    BY <1>4, <2>1
  <2>3. Skip \in FrameOf(chars)
    BY <1>1, <2>2 DEF Skip, FrameOf
  <2>4. \A f \in FrameOf(chars) : \A i \in Nat : [f EXCEPT !.child_index = i] \in FrameOf(chars)
    BY DEF FrameOf
  <2>5. QED
    BY <2>2, <2>3, <2>4
<1>5. QED
  BY <1>1, <1>2, <1>3, <1>4

\* Every step writes texts and holds what the parser made of them.
LEMMA TextStep ==
    ASSUME NEW chars, WrittenWith(chars), "NaN" \notin chars, TextInv(chars), [Next]_vars
    PROVE  TextInv(chars)'
<1>1. /\ chapter \in Chapters /\ walk \in Seq(FrameOf(chars))
      /\ \A n \in DOMAIN marks : marks[n] \in Seq(chars)
      /\ found \in Seq(MatchOf(chars)) /\ held \in Seq(HeldOf(chars))
  BY DEF TextInv
<1>2. UNCHANGED chapter => /\ FrameOf(chars)' = FrameOf(chars) /\ MatchOf(chars)' = MatchOf(chars)
                           /\ HeldOf(chars)' = HeldOf(chars)
  BY DEF FrameOf, MatchOf, HeldOf, Nodes
<1>3. CASE UNCHANGED vars
  BY <1>1, <1>3 DEF vars, TextInv, FrameOf, MatchOf, HeldOf, Nodes
<1>4. CASE EnterElement
  <2>1. Walking /\ Top.rest # << >> /\ UNCHANGED <<chapter, found, held>>
    BY <1>4 DEF EnterElement, AtChild
  <2> DEFINE child == Head(Top.rest)
             index == Top.child_index + 2
             path == ChildPath(Top.path, index, child)
             text == Base \o path
  <2>2. /\ walk' = <<Frame(child, path), [Skip EXCEPT !.child_index = index]>> \o Tail(walk)
        /\ marks' = IF mode # "inject" THEN marks
                    ELSE [n \in DOMAIN marks \cup {child} |->
                              IF n = child THEN Wrap(text) ELSE marks[n]]
    BY <1>4 DEF EnterElement
  <2>3. Top \in FrameOf(chars) /\ child \in Nodes
    BY <1>1, <2>1, WalkOf
  <2>4. Top.path \in Seq(chars) /\ index \in Nat
    BY <2>3 DEF FrameOf
  <2>5. /\ chapter.children[child] \in Seq(Nodes)
        /\ chapter.id[child] \in Seq(chars) \cup {Absent}
    <3>1. chapter.children \in [Nodes \cup {0} -> Seq(Nodes)] /\ DOMAIN chapter.id = Nodes
      BY <1>1, ChaptersAssumption DEF Nodes, IsChapter
    <3>2. QED
      BY <1>1, <2>3, <3>1 DEF WrittenWith
  <2> HIDE DEF child, index
  <2>6. path \in Seq(chars)
    <3>1. PrintStep(Step(index, chapter.id[child])) \in Seq(chars)
      BY <2>4, <2>5, StepWritten DEF WrittenWith, Punctuation
    <3>2. QED
      BY <2>4, <3>1, TextsJoined DEF ChildPath
  <2>7. text \in Seq(chars)
    <3>1. Base \in Seq(chars)
      BY <1>1, BaseWritten
    <3> HIDE DEF path
    <3>2. QED
      BY <2>6, <3>1, TextsJoined
  <2> HIDE DEF path, text
  <2>8. Frame(child, path) \in FrameOf(chars)
    BY <2>3, <2>5, <2>6 DEF Frame, FrameOf
  <2>9. walk' \in Seq(FrameOf(chars))
    <3>1. [Skip EXCEPT !.child_index = index] \in FrameOf(chars)
      BY <1>1, <2>1, <2>4, WalkOf
    <3>2. \A f, g \in FrameOf(chars) : <<f, g>> \o Tail(walk) \in Seq(FrameOf(chars))
      BY <1>1, <2>1, WalkOf
    <3>3. QED
      BY <2>2, <2>8, <3>1, <3>2
  <2>10. \A n \in DOMAIN marks' : marks'[n] \in Seq(chars)
    <3>1. Wrap(text) \in Seq(chars)
      BY <2>7, Wrapped DEF WrittenWith
    <3>2. QED
      BY <1>1, <2>2, <3>1
  <2>11. QED
    BY <1>1, <1>2, <2>1, <2>9, <2>10 DEF TextInv
<1>5. CASE VisitText
  <2> DEFINE node == Head(Top.rest)
             matches == chapter.matches[node]
             hits == [i \in DOMAIN matches |-> [node |-> node, match |-> matches[i],
                                                cfi |-> MatchCfi(matches[i])]]
  <2>1. /\ Walking /\ Top.rest # << >> /\ UNCHANGED <<chapter, marks, held>>
        /\ walk' = <<Skip>> \o Tail(walk)
        /\ found' = IF mode # "search" THEN found ELSE found \o hits
    BY <1>5 DEF VisitText, AtChild
  <2>2. Top \in FrameOf(chars) /\ node \in Nodes
    BY <1>1, <2>1, WalkOf
  <2>3. matches \in Seq(Nat \X Nat)
    <3>1. chapter.matches \in [Nodes -> Seq(Nat \X Nat)]
      BY <1>1, ChaptersAssumption DEF Nodes, IsChapter
    <3>2. QED
      BY <2>2, <3>1
  <2>4. hits \in Seq(MatchOf(chars))
    <3> HIDE DEF node, matches
    <3>1. Len(matches) \in Nat /\ DOMAIN matches = 1..Len(matches)
      BY <2>3
    <3>2. \A i \in 1..Len(matches) : matches[i] \in Nat \X Nat
      BY <2>3
    <3>3. \A i \in 1..Len(matches) : MatchCfi(matches[i]) \in Seq(chars)
      BY <1>1, <2>2, <3>2, MatchWritten
    <3>4. hits \in [1..Len(matches) -> MatchOf(chars)]
      BY <2>2, <3>1, <3>2, <3>3 DEF MatchOf
    <3> HIDE DEF hits
    <3>5. QED
      BY <3>1, <3>4
  <2> HIDE DEF hits
  <2>5. found' \in Seq(MatchOf(chars))
    <3>1. found \o hits \in Seq(MatchOf(chars))
      BY <1>1, <2>4, ConcatProperties
    <3>2. QED
      BY <1>1, <2>1, <3>1
  <2>6. walk' \in Seq(FrameOf(chars))
    BY <1>1, <2>1, WalkOf
  <2>7. QED
    BY <1>1, <1>2, <2>1, <2>5, <2>6 DEF TextInv
<1>6. CASE PassComment
  <2>1. /\ Walking /\ Top.rest # << >> /\ UNCHANGED <<chapter, marks, found, held>>
        /\ walk' = <<Skip>> \o Tail(walk)
    BY <1>6 DEF PassComment, AtChild
  <2>2. walk' \in Seq(FrameOf(chars))
    BY <1>1, <2>1, WalkOf
  <2>3. QED
    BY <1>1, <1>2, <2>1, <2>2 DEF TextInv
<1>7. CASE Leave
  <2>1. /\ Walking /\ UNCHANGED <<chapter, marks, found, held>> /\ walk' = Tail(walk)
    BY <1>7 DEF Leave
  <2>2. walk' \in Seq(FrameOf(chars))
    BY <1>1, <2>1, WalkOf
  <2>3. QED
    BY <1>1, <1>2, <2>1, <2>2 DEF TextInv
<1>8. \A text \in Seq(chars) : Append(held, Read(text)) \in Seq(HeldOf(chars))
  <2>1. TAKE text \in Seq(chars)
  <2>2. ParseCfi(text) \in CfiOf(chars) \cup {Malformed}
    BY CfiRead DEF CanonicalCfi
  <2>3. Read(text) \in HeldOf(chars)
    BY <2>2 DEF Read, HeldOf
  <2>4. QED
    BY <1>1, <2>3
<1>9. CASE Hold
  <2>1. PICK text \in Texts : held' = Append(held, Read(text))
    BY <1>9 DEF Hold
  <2>2. UNCHANGED <<chapter, walk, marks, found>>
    BY <1>9 DEF Hold
  <2>3. text \in Seq(chars)
    <3>1. \A i \in DOMAIN found : found[i].cfi \in Seq(chars)
      <4>1. \A i \in DOMAIN found : found[i] \in MatchOf(chars)
        BY <1>1
      <4>2. QED
        BY <4>1 DEF MatchOf
    <3>2. QED
      BY <1>1, <2>1, <3>1 DEF Texts, WrittenWith
  <2>4. QED
    BY <1>1, <1>2, <1>8, <2>1, <2>2, <2>3 DEF TextInv
<1>10. CASE CombineHeld
  <2> DEFINE start == held[1].cfi
             end == held[2].cfi
             range == IF start = Malformed \/ end = Malformed THEN Absent
                      ELSE GenerateRange(start, end)
  <2>1. /\ Len(held) = 2 /\ range # Absent /\ held' = Append(held, Read(range))
        /\ UNCHANGED <<chapter, walk, marks, found>>
    BY <1>10 DEF CombineHeld
  <2>2. start \in CfiOf(chars) \cup {Malformed} /\ end \in CfiOf(chars) \cup {Malformed}
    <3>1. held[1] \in HeldOf(chars) /\ held[2] \in HeldOf(chars)
      BY <1>1, <2>1
    <3>2. QED
      BY <3>1 DEF HeldOf
  <2> HIDE DEF start, end
  <2>3. range \in Seq(chars)
    <3>1. start \in CfiOf(chars) /\ end \in CfiOf(chars)
      BY <2>1, <2>2
    <3>2. GenerateRange(start, end) \in Seq(chars) \cup {Absent}
      BY <3>1, RangeWritten DEF WrittenWith
    <3>3. QED
      BY <2>1, <3>2
  <2> HIDE DEF range
  <2>4. QED
    BY <1>1, <1>2, <1>8, <2>1, <2>3 DEF TextInv
<1>11. QED
  BY <1>3, <1>4, <1>5, <1>6, <1>7, <1>9, <1>10 DEF Next

\* CFIs are totally ordered by compare_cfi, when no text holds NaN.
THEOREM OrderIsTotal ==
    ASSUME NEW CONSTANT chars, WrittenWith(chars), "NaN" \notin chars
    PROVE  Spec => []HeldAreOrdered
<1>1. Init => TextInv(chars)
  BY TextInit
<1>2. TextInv(chars) /\ [Next]_vars => TextInv(chars)'
  BY TextStep
<1>3. TextInv(chars) => HeldAreOrdered
  <2> SUFFICES ASSUME TextInv(chars) PROVE HeldAreOrdered
    OBVIOUS
  <2> DEFINE cs == {held[i].cfi : i \in DOMAIN held} \ {Malformed}
  <2>1. \A c \in cs : c \in CfiOf(chars)
    <3>1. \A i \in DOMAIN held : held[i] \in HeldOf(chars)
      BY DEF TextInv
    <3>2. QED
      BY <3>1 DEF HeldOf
  <2>2. \A a, b, c \in cs :
           /\ CompareCfi(a, b) = -CompareCfi(b, a)
           /\ Chained(CompareCfi(a, b), CompareCfi(b, c), CompareCfi(a, c))
           /\ EqCfi(a, b) => CompareCfi(a, b) = 0
    <3> HIDE DEF cs
    <3>1. QED
      BY <2>1, CfisCompare
  <2>3. \A a, b \in cs :
           /\ CompareCfi(a, b) = -CompareCfi(b, a)
           /\ EqCfi(a, b) => CompareCfi(a, b) = 0
           /\ \A c \in cs :
                CompareCfi(a, b) <= 0 /\ CompareCfi(b, c) <= 0 => CompareCfi(a, c) <= 0
    <3> HIDE DEF cs
    <3>1. QED
      BY <2>2 DEF Chained
  <2>4. QED
    BY <2>3 DEF HeldAreOrdered
<1>4. QED
  BY <1>1, <1>2, <1>3, PTL DEF Spec

-----------------------------------------------------------------------------
\* How a chapter's CFIs are spelled.

\* Steps after other steps are written after them.
LEMMA StepsJoined ==
    ASSUME NEW ids, Unescaped(ids), NEW s \in Seq(StepOf(ids)), NEW t \in Seq(StepOf(ids))
    PROVE  PrintSteps(s \o t) = PrintSteps(s) \o PrintSteps(t)
<1> DEFINE w == s \o t
           C == Writing(ids)
<1>1. /\ w \in Seq(StepOf(ids)) /\ Len(w) = Len(s) + Len(t)
      /\ \A i \in 1..Len(s) : w[i] = s[i]
      /\ \A i \in 1..Len(t) : w[Len(s) + i] = t[i]
  BY Concatenated
<1> HIDE DEF w, C
<1>2. /\ PrintSteps(s) = FlattenSeq(Printed(s)) /\ PrintSteps(t) = FlattenSeq(Printed(t))
      /\ PrintSteps(w) = FlattenSeq(Printed(w))
      /\ Printed(s) \in Seq(Seq(C)) /\ Printed(t) \in Seq(Seq(C)) /\ Printed(w) \in Seq(Seq(C))
      /\ Len(Printed(s)) = Len(s) /\ Len(Printed(t)) = Len(t) /\ Len(Printed(w)) = Len(w)
      /\ Len(s) \in Nat /\ Len(t) \in Nat
  BY <1>1, StepsSpelled DEF C
<1>3. /\ \A i \in 1..Len(s) : Printed(s)[i] = PrintStep(s[i])
      /\ \A i \in 1..Len(t) : Printed(t)[i] = PrintStep(t[i])
      /\ \A i \in 1..Len(w) : Printed(w)[i] = PrintStep(w[i])
  BY <1>1, StepsSpelled
<1> DEFINE p == Printed(s)
           q == Printed(t)
           r == Printed(w)
           pq == p \o q
<1>4. p \in Seq(Seq(C)) /\ q \in Seq(Seq(C)) /\ Len(p) = Len(s) /\ Len(q) = Len(t)
  BY <1>2
<1> HIDE DEF p, q, r
<1>5. /\ pq \in Seq(Seq(C)) /\ Len(pq) = Len(s) + Len(t)
      /\ \A i \in 1..Len(s) : pq[i] = p[i]
      /\ \A i \in 1..Len(t) : pq[Len(s) + i] = q[i]
  <2>1. /\ p \o q \in Seq(Seq(C)) /\ Len(p \o q) = Len(p) + Len(q)
        /\ \A i \in 1..Len(p) : (p \o q)[i] = p[i]
        /\ \A i \in 1..Len(q) : (p \o q)[Len(p) + i] = q[i]
    <3> DEFINE T == Seq(C)
    <3>1. p \in Seq(T) /\ q \in Seq(T)
      BY <1>4
    <3> HIDE DEF T
    <3>2. p \o q \in Seq(T) /\ Len(p \o q) = Len(p) + Len(q)
      BY <3>1, Concatenated
    <3>3. \A i \in 1..Len(p) : (p \o q)[i] = p[i]
      BY <3>1, Concatenated
    <3>4. \A i \in 1..Len(q) : (p \o q)[Len(p) + i] = q[i]
      BY <3>1, Concatenated
    <3>5. QED
      BY <3>2, <3>3, <3>4 DEF T
  <2>2. QED
    BY <1>4, <2>1
<1> HIDE DEF pq
<1>6. \A i \in 1..(Len(s) + Len(t)) : r[i] = pq[i]
  <2>1. TAKE i \in 1..(Len(s) + Len(t))
  <2>2. CASE i <= Len(s)
    <3>1. i \in 1..Len(s) /\ i \in 1..Len(w)
      BY <1>1, <1>2, <2>2
    <3>2. r[i] = PrintStep(s[i]) /\ pq[i] = PrintStep(s[i])
      BY <1>1, <1>3, <1>5, <3>1, Zenon DEF r, p
    <3>3. QED
      BY <3>2
  <2>3. CASE ~(i <= Len(s))
    <3> DEFINE j == i - Len(s)
    <3>1. j \in 1..Len(t) /\ i \in 1..Len(w) /\ i = Len(s) + j
      BY <1>1, <1>2, <2>3
    <3> HIDE DEF j
    <3>2. r[i] = PrintStep(t[j]) /\ pq[i] = PrintStep(t[j])
      BY <1>1, <1>3, <1>5, <3>1, Zenon DEF r, q
    <3>3. QED
      BY <3>2
  <2>4. QED
    BY <2>2, <2>3
<1>7. r = pq
  <2>1. r \in Seq(Seq(C)) /\ Len(r) = Len(s) + Len(t)
    BY <1>1, <1>2 DEF r
  <2>2. QED
    BY <1>5, <1>6, <2>1, SeqEqual
<1>8. FlattenSeq(pq) = FlattenSeq(p) \o FlattenSeq(q)
  <2>1. p \in Seq(Seq(C)) /\ q \in Seq(Seq(C))
    BY <1>2 DEF p, q
  <2>2. QED
    BY <2>1, FlattenJoined DEF pq
<1>9. QED
  BY <1>2, <1>7, <1>8, Zenon DEF w, p, q, r

\* No steps are an empty text, and one step is the text of that step.
LEMMA StepAlone ==
    ASSUME NEW ids, Unescaped(ids), NEW step \in StepOf(ids)
    PROVE  PrintSteps(<< >>) = << >> /\ PrintSteps(<<step>>) = PrintStep(step)
<1> DEFINE C == Writing(ids)
           none == << >>
           one == <<step>>
<1>1. none \in Seq(StepOf(ids)) /\ Len(none) = 0 /\ one \in Seq(StepOf(ids)) /\ Len(one) = 1
      /\ one[1] = step
  OBVIOUS
<1> HIDE DEF none, one
<1>2. /\ PrintSteps(none) = FlattenSeq(Printed(none)) /\ Printed(none) \in Seq(Seq(C))
      /\ Len(Printed(none)) = 0
      /\ PrintSteps(one) = FlattenSeq(Printed(one)) /\ Printed(one) \in Seq(Seq(C))
      /\ Len(Printed(one)) = 1 /\ Printed(one)[1] = PrintStep(step)
  <2>1. 1 \in 1..Len(one)
    BY <1>1
  <2>2. QED
    BY <1>1, <2>1, StepsSpelled
<1> HIDE DEF C
<1>3. PICK f : IsRunning(f, C, Printed(none)) /\ FlattenSeq(Printed(none)) = f[0]
  BY <1>2, Flattened
<1>4. PrintSteps(none) = << >>
  BY <1>2, <1>3 DEF IsRunning
<1>5. PICK g : IsRunning(g, C, Printed(one)) /\ FlattenSeq(Printed(one)) = g[1]
  BY <1>2, Flattened
<1>6. g[1] = g[0] \o Printed(one)[1] /\ g[0] = << >> /\ Printed(one)[1] \in Seq(C)
  <2>1. 1 \in 1..Len(Printed(one)) /\ 1 - 1 = 0
    BY <1>2
  <2>2. g[1] = g[1 - 1] \o Printed(one)[1] /\ g[0] = << >>
    BY <1>5, <2>1 DEF IsRunning
  <2>3. Printed(one)[1] \in Seq(C)
    BY <1>2, <2>1
  <2>4. QED
    BY <2>1, <2>2, <2>3
<1>7. PrintSteps(one) = PrintStep(step)
  BY <1>2, <1>5, <1>6
<1>8. QED
  BY <1>4, <1>7 DEF none, one

\* A step more is written after the others.
LEMMA StepAppended ==
    ASSUME NEW ids, Unescaped(ids), NEW s \in Seq(StepOf(ids)), NEW step \in StepOf(ids)
    PROVE  PrintSteps(Append(s, step)) = PrintSteps(s) \o PrintStep(step)
<1> DEFINE one == <<step>>
<1>1. one \in Seq(StepOf(ids)) /\ Append(s, step) = s \o one
  OBVIOUS
<1>2. PrintSteps(one) = PrintStep(step)
  BY StepAlone
<1> HIDE DEF one
<1>3. QED
  BY <1>1, <1>2, StepsJoined

\* Ids and bookmarks that a reader can read again: the ids need no escape, and
\* a bookmark's assertions are ids.
Readable(ids) ==
    /\ Unescaped(ids) /\ Apart(ids)
    /\ \A c \in Chapters : /\ c.item_id \in Seq(ids)
                           /\ \A n \in DOMAIN c.id : c.id[n] \in Seq(ids) \cup {Absent}
    /\ \A text \in Bookmarks : /\ text \in Seq(Writing(ids) \cup {"^"})
                               /\ ParseCfi(text) \in CfiOf(ids) \cup {Malformed}

\* A path without side and time is written as its steps and its offset.
LEMMA PlainPath ==
    ASSUME NEW ids, Unescaped(ids), NEW steps \in Seq(StepOf(ids)),
           NEW local \in Seq(StepOf(ids)) \cup {Absent}, NEW offset \in Offset
    PROVE  /\ Path(steps, local, offset) \in PathOf(ids) /\ Canonical(Path(steps, local, offset))
           /\ PrintPath(Path(steps, local, offset)) =
                (PrintSteps(steps) \o (IF local = Absent THEN << >> ELSE <<"!">> \o PrintSteps(local)))
                  \o PrintOffset(offset)
           /\ PrintPath(Path(steps, local, offset)) \in Seq(Writing(ids))
<1> DEFINE C == Writing(ids)
           p == Path(steps, local, offset)
           none == << >>
           bang == <<"!">>
           a == PrintSteps(steps)
           b == IF local = Absent THEN none ELSE bang \o PrintSteps(local)
           o == PrintOffset(offset)
<1>1. /\ p.steps = steps /\ p.local = local /\ p.offset = offset /\ p.side = Absent
      /\ p.temporal = Absent /\ p.spatial = Absent
  BY DEF Path
<1>2. p \in PathOf(ids) /\ Canonical(p)
  <2>1. p \in PathOf(ids)
    BY DEF Path, PathOf, Offset
  <2>2. QED
    BY <1>1, <2>1 DEF Canonical
<1>3. a \in Seq(C) /\ o \in Seq(C) /\ none \in Seq(C) /\ bang \in Seq(C)
  <2>1. Digital \subseteq C /\ {"/", "[", "]"} \subseteq C /\ ":" \in C /\ "!" \in C
    BY SignsWritten
  <2>2. o \in Seq(C)
    BY <2>1, OffsetWritten
  <2>3. a \in Seq(C)
    BY StepsKept DEF Kept
  <2>4. QED
    BY <2>1, <2>2, <2>3
<1>4. b \in Seq(C)
  <2>1. CASE local = Absent
    BY <1>3, <2>1
  <2>2. CASE local # Absent
    <3> DEFINE t == PrintSteps(local)
    <3>1. t \in Seq(C)
      BY <2>2, StepsKept DEF Kept
    <3> HIDE DEF C, t, bang
    <3>2. bang \o t \in Seq(C)
      BY <1>3, <3>1, TextsJoined
    <3>3. QED
      BY <2>2, <3>2 DEF t
  <2>3. QED
    BY <2>1, <2>2
<1>5. PrintPath(p) = ((((a \o b) \o o) \o none) \o none) \o none
  BY <1>1 DEF PrintPath
<1> HIDE DEF C, p, none, a, b, o
<1>6. (a \o b) \o o \in Seq(C)
  BY <1>3, <1>4, TextsJoined
<1>7. \A s \in Seq(C) : s \o none = s
  BY DEF none
<1>8. PrintPath(p) = (a \o b) \o o
  BY <1>5, <1>6, <1>7, Zenon
<1>9. QED
  BY <1>2, <1>6, <1>8 DEF p, a, b, o, none, C

\* The steps of the package document that lead to the chapter.
BaseSteps == <<Step(6, Absent), Step((chapter.spine_index + 1) * 2, chapter.item_id)>>

\* The text every CFI of a chapter begins with is that of two steps.
LEMMA BaseSpelled ==
    ASSUME NEW ids, Readable(ids), chapter \in Chapters
    PROVE  /\ BaseSteps \in Seq(StepOf(ids)) /\ Len(BaseSteps) = 2
           /\ BaseSteps[2] = Step((chapter.spine_index + 1) * 2, chapter.item_id)
           /\ chapter.spine_index \in Nat /\ chapter.item_id \in Seq(ids)
           /\ Base = PrintSteps(BaseSteps) \o <<"!">>
<1> DEFINE S == StepOf(ids)
           six == Step(6, Absent)
           n == (chapter.spine_index + 1) * 2
           id == chapter.item_id
           spine == Step(n, id)
           bang == <<"!">>
<1>1. chapter.spine_index \in Nat /\ n \in Nat /\ id \in Seq(ids)
  <2>1. chapter.spine_index \in Nat
    BY ChaptersAssumption DEF IsChapter
  <2>2. QED
    BY <2>1 DEF Readable
<1> HIDE DEF n, id
<1>2. six \in S /\ spine \in S
  BY <1>1 DEF Step, StepOf
<1>3. Base = (PrintStep(six) \o PrintStep(spine)) \o bang
  BY DEF Base, SpineBase, n, id
<1> HIDE DEF six, spine, bang
<1>4. Unescaped(ids)
  BY DEF Readable
<1>5. <<six, spine>> = Append(<<six>>, spine) /\ <<six>> \in Seq(S) /\ <<six, spine>> \in Seq(S)
  BY <1>2, InARow
<1>6. PrintSteps(<<six>>) = PrintStep(six)
  BY <1>2, <1>4, StepAlone
<1> DEFINE one == <<six>>
           two == <<six, spine>>
<1>7. two = Append(one, spine) /\ one \in Seq(S) /\ two \in Seq(S) /\ PrintSteps(one) = PrintStep(six)
  BY <1>5, <1>6
<1>8. Len(two) = 2 /\ two[2] = spine
  OBVIOUS
<1> HIDE DEF one
<1>9. two = BaseSteps
  BY DEF BaseSteps, six, spine, n, id
<1> HIDE DEF two
<1>10. PrintSteps(two) = PrintStep(six) \o PrintStep(spine)
  BY <1>2, <1>4, <1>7, StepAppended
<1>11. QED
  BY <1>1, <1>3, <1>7, <1>8, <1>9, <1>10 DEF bang, spine, n, id

\* A mark is the text of a path: the base, and the element's steps after the "!".
LEMMA MarkSpelled ==
    ASSUME NEW ids, Readable(ids), chapter \in Chapters, NEW steps \in Seq(StepOf(ids))
    PROVE  Base \o PrintSteps(steps) = PrintPath(Path(BaseSteps, steps, Absent))
<1> DEFINE C == Writing(ids)
           a == PrintSteps(BaseSteps)
           b == PrintSteps(steps)
           bang == <<"!">>
           none == << >>
<1>1. Unescaped(ids) /\ steps # Absent /\ Absent \in Offset
  BY DEF Readable, Apart, Offset
<1>2. BaseSteps \in Seq(StepOf(ids)) /\ Base = a \o bang
  BY BaseSpelled
<1>3. a \in Seq(C) /\ b \in Seq(C) /\ bang \in Seq(C) /\ none \in Seq(C)
  <2>1. a \in Seq(C) /\ b \in Seq(C)
    BY <1>1, <1>2, StepsKept DEF Kept
  <2>2. "!" \in C
    BY SignsWritten
  <2>3. QED
    BY <2>1, <2>2
<1>4. PrintPath(Path(BaseSteps, steps, Absent)) = (a \o (bang \o b)) \o none
  <2>1. PrintPath(Path(BaseSteps, steps, Absent)) =
                (PrintSteps(BaseSteps) \o (IF steps = Absent THEN << >> ELSE <<"!">> \o PrintSteps(steps)))
                  \o PrintOffset(Absent)
    BY <1>1, <1>2, PlainPath, SMTT(30)
  <2>2. PrintOffset(Absent) = << >>
    BY DEF PrintOffset
  <2>3. QED
    BY <1>1, <2>1, <2>2, Zenon
<1> HIDE DEF C, a, b, bang, none
<1>5. a \o (bang \o b) = (a \o bang) \o b
  <2>1. \A s, t, u \in Seq(C) : s \o (t \o u) = (s \o t) \o u
    BY TextsAssociate
  <2>2. QED
    BY <1>3, <2>1, Zenon
<1>6. (a \o bang) \o b \in Seq(C)
  BY <1>3, TextsJoined
<1>7. \A s \in Seq(C) : s \o none = s
  BY DEF none
<1>8. QED
  BY <1>2, <1>4, <1>5, <1>6, <1>7, Zenon DEF b

\* A joint is written from left to right.
Line(a, w, from, to) == ((((((a \o <<Comma>>) \o w) \o from) \o <<Comma>>) \o w) \o to)

\* The two ways to write a range are the same.
LEMMA JointSpelled ==
    ASSUME NEW C, NEW a \in Seq(C), NEW w \in Seq(C), NEW from \in Seq(C), NEW to \in Seq(C),
           Comma \in C
    PROVE  Joint(a, w \o from, w \o to) = Line(a, w, from, to)
<1> DEFINE comma == <<Comma>>
           p == a \o comma
           q == p \o (w \o from)
           r == q \o comma
<1>1. comma \in Seq(C)
  OBVIOUS
<1> HIDE DEF comma
<1>2. \A t, u \in Seq(C) : t \o u \in Seq(C)
  BY TextsJoined
<1>3. p \in Seq(C) /\ q \in Seq(C) /\ r \in Seq(C)
      /\ w \in Seq(C) /\ from \in Seq(C) /\ to \in Seq(C)
  BY <1>1, <1>2
<1> HIDE DEF p, q, r
<1>5. p \o (w \o from) = (p \o w) \o from
  <2>1. p \in Seq(C) /\ w \in Seq(C) /\ from \in Seq(C)
    BY <1>3
  <2>2. QED
    BY <2>1, ThreeTexts, SMTT(30)
<1>6. r \o (w \o to) = (r \o w) \o to
  <2>1. r \in Seq(C) /\ w \in Seq(C) /\ to \in Seq(C)
    BY <1>3
  <2>2. QED
    BY <2>1, ThreeTexts, SMTT(30)
<1>7. QED
  BY <1>5, <1>6, Zenon DEF Joint, Line, comma, p, q, r

\* The range of a match: the steps of the element around it, and twice a step
\* to the text with an offset.
TextPath(index, offset) == Path(<<Step(index, Absent)>>, Absent, offset)

\* search_node writes the range of a match as PrintCfi writes a range.
LEMMA MatchSpelled ==
    ASSUME NEW ids, Readable(ids), chapter \in Chapters, NEW steps \in Seq(StepOf(ids)),
           NEW match, match[1] \in Nat, match[2] \in Nat, Top.path = PrintSteps(steps), Top.child_index \in Nat
    PROVE  MatchCfi(match) =
             Wrap(Joint(PrintPath(Path(BaseSteps, steps, Absent)),
                        PrintPath(TextPath(Top.child_index + 1, match[1])),
                        PrintPath(TextPath(Top.child_index + 1, match[2]))))
<1> DEFINE C == Writing(ids)
           step == Step(Top.child_index + 1, Absent)
           ts == PrintStep(step)
           from == PrintOffset(match[1])
           to == PrintOffset(match[2])
           a == PrintPath(Path(BaseSteps, steps, Absent))
           comma == <<Comma>>
           none == << >>
           p == Base
           q == Top.path
<1>1. Unescaped(ids) /\ BaseSteps \in Seq(StepOf(ids)) /\ Absent \in Offset
  BY BaseSpelled DEF Readable, Offset
<1>2. step \in StepOf(ids) /\ <<step>> \in Seq(StepOf(ids)) /\ match[1] \in Offset /\ match[2] \in Offset
  BY DEF Step, StepOf, Offset
<1>3. a = p \o q
  BY MarkSpelled
<1>4. \A n \in Offset : PrintPath(TextPath(Top.child_index + 1, n)) = ts \o PrintOffset(n)
  <2>1. TAKE n \in Offset
  <2> DEFINE one == <<step>>
  <2>2. one \in Seq(StepOf(ids)) /\ PrintSteps(one) = ts
    BY <1>1, <1>2, StepAlone
  <2>3. TextPath(Top.child_index + 1, n) = Path(one, Absent, n)
    BY DEF TextPath
  <2> HIDE DEF one, step
  <2>4. PrintPath(Path(one, Absent, n)) = (ts \o << >>) \o PrintOffset(n)
    <3>1. PrintPath(Path(one, Absent, n)) =
            (PrintSteps(one) \o (IF Absent = Absent THEN << >> ELSE <<"!">> \o PrintSteps(Absent)))
              \o PrintOffset(n)
      BY <1>1, <2>2, PlainPath
    <3>2. QED
      BY <2>2, <3>1, Zenon
  <2>5. ts \in Seq(C)
    BY <1>1, <1>2, StepKept DEF Kept, step
  <2>6. ts \o << >> = ts
    BY <2>5
  <2>7. QED
    BY <2>3, <2>4, <2>6, Zenon
<1>5. MatchCfi(match) = Wrap(Line(p \o q, ts, from, to))
  BY Zenon DEF MatchCfi, Line, Comma
<1>6. a \in Seq(C) /\ ts \in Seq(C) /\ from \in Seq(C) /\ to \in Seq(C) /\ comma \in Seq(C)
  <2>1. a \in Seq(C)
    BY <1>1, PlainPath
  <2>2. ts \in Seq(C)
    BY <1>1, <1>2, StepKept DEF Kept
  <2>3. Digital \subseteq C /\ ":" \in C /\ Comma \in C
    BY SignsWritten
  <2>4. from \in Seq(C) /\ to \in Seq(C)
    BY <1>2, <2>3, OffsetWritten
  <2>5. comma \in Seq(C)
    BY <2>3
  <2>6. QED
    BY <2>1, <2>2, <2>4, <2>5
<1> HIDE DEF C, step, ts, from, to, a, comma, none, p, q
<1>10. Joint(a, ts \o from, ts \o to) = Line(a, ts, from, to)
  <2>1. Comma \in C
    BY SignsWritten DEF C
  <2>2. a \in Seq(C) /\ ts \in Seq(C) /\ from \in Seq(C) /\ to \in Seq(C)
    BY <1>6
  <2>3. QED
    BY <2>1, <2>2, JointSpelled
<1>11. MatchCfi(match) = Wrap(Joint(a, ts \o from, ts \o to))
  BY <1>3, <1>5, <1>10, Zenon
<1>12. PrintPath(TextPath(Top.child_index + 1, match[1])) = ts \o from
       /\ PrintPath(TextPath(Top.child_index + 1, match[2])) = ts \o to
  BY <1>2, <1>4 DEF from, to
<1>13. QED
  BY <1>11, <1>12, Zenon DEF a

-----------------------------------------------------------------------------
\* The tree of a chapter: its frontiers, and the ways from the root.

\* The children of a node, and what is known of a chapter's tree.
Kids(p) == ToSet(chapter.children[p])
Tree ==
    /\ Nodes \subseteq Nat \ {0} /\ IsFiniteSet(Nodes)
    /\ \A n \in Nodes : Parent(n) \in Elements \cup {0} /\ n \in Kids(Parent(n)) /\ Parent(n) < n
    /\ \A p \in Nodes \cup {0} : \A n \in Kids(p) : n \in Nodes /\ Parent(n) = p
    /\ \A n, m \in Nodes : Parent(m) < n /\ n < m => Parent(m) <= Parent(n)
    /\ \A n \in Nodes : n \notin Elements => Kids(n) = {}
    /\ \A p \in Nodes \cup {0} :
         /\ chapter.children[p] \in Seq(Nodes)
         /\ \A i, j \in DOMAIN chapter.children[p] :
              i < j => chapter.children[p][i] < chapter.children[p][j]

\* What ChaptersAssumption says of a chapter, about its nodes' parents.
LEMMA TreeFacts ==
    ASSUME chapter \in Chapters
    PROVE  Tree
<1> DEFINE c == chapter
<1>1. IsChapter(c) /\ IsNumbered(c)
  BY ChaptersAssumption
<1>2. Nodes = DOMAIN c.content /\ c.content \in Seq({"element", "text", "comment"})
      /\ c.children \in [Nodes \cup {0} -> Seq(Nodes)]
  BY <1>1 DEF IsChapter, Nodes
<1>3. Nodes = 1..Len(c.content) /\ Len(c.content) \in Nat
  BY <1>2
<1>4. Nodes \subseteq Nat \ {0} /\ IsFiniteSet(Nodes)
  <2> DEFINE m == Len(c.content)
  <2>1. m \in Int /\ 1 \in Int /\ Nodes = 1..m
    BY <1>3
  <2> HIDE DEF m
  <2>2. IsFiniteSet(1..m)
    BY <2>1, FS_Interval
  <2>3. QED
    BY <2>1, <2>2
<1>5. \A p \in Nodes \cup {0} :
         /\ c.children[p] \in Seq(Nodes)
         /\ \A i \in DOMAIN c.children[p] : c.children[p][i] \in Nodes
  BY <1>2
<1>6. \A p, q \in Nodes \cup {0} :
         \A i \in DOMAIN c.children[p] : \A j \in DOMAIN c.children[q] :
           /\ p < c.children[p][i] /\ (p # 0 => c.content[p] = "element")
           /\ c.children[p][i] = c.children[q][j] => p = q
           /\ p = q /\ i < j => c.children[p][i] < c.children[q][j]
           /\ p < c.children[q][j] /\ c.children[q][j] < c.children[p][i] => p <= q
  BY <1>1, <1>2 DEF IsNumbered
<1>7. \A n \in Nodes : \E p \in Nodes \cup {0} : n \in ToSet(c.children[p])
  BY <1>1, <1>2 DEF IsNumbered
<1>8. \A p \in Nodes \cup {0} : \A n \in Kids(p) : \E i \in DOMAIN c.children[p] : n = c.children[p][i]
  BY DEF Kids, ToSet
<1>9. \A p \in Nodes \cup {0} : \A i \in DOMAIN c.children[p] : c.children[p][i] \in Kids(p)
  BY DEF Kids, ToSet
<1> HIDE DEF c
<1>10. \A p \in Nodes \cup {0} : \A n \in Kids(p) :
         /\ n \in Nodes /\ p < n /\ p \in Elements \cup {0}
         /\ \A q \in Nodes \cup {0} : n \in Kids(q) => p = q
  <2>1. TAKE p \in Nodes \cup {0}
  <2>2. TAKE n \in Kids(p)
  <2>3. PICK i \in DOMAIN c.children[p] : n = c.children[p][i]
    BY <1>8
  <2>4. n \in Nodes /\ p < n /\ (p # 0 => c.content[p] = "element")
    BY <1>5, <1>6, <2>3
  <2>5. p \in Elements \cup {0}
    BY <2>4 DEF Elements, c
  <2>6. ASSUME NEW q \in Nodes \cup {0}, n \in Kids(q)
        PROVE  p = q
    <3>1. PICK j \in DOMAIN c.children[q] : n = c.children[q][j]
      BY <1>8, <2>6
    <3>2. c.children[p][i] = c.children[q][j] => p = q
      BY <1>6
    <3>3. QED
      BY <2>3, <3>1, <3>2
  <2>7. QED
    BY <2>4, <2>5, <2>6
<1>11. \A n \in Nodes : Parent(n) \in Elements \cup {0} /\ n \in Kids(Parent(n))
  <2>1. TAKE n \in Nodes
  <2>2. PICK p \in Nodes \cup {0} : n \in Kids(p)
    BY <1>7 DEF Kids, c
  <2>3. p \in Elements \cup {0}
    BY <1>10, <2>2
  <2>4. Parent(n) = CHOOSE q \in Elements \cup {0} : n \in Kids(q)
    BY DEF Parent, Kids
  <2>5. QED
    BY <2>2, <2>3, <2>4
<1>12. Elements \subseteq Nodes
  BY DEF Elements
<1>13. \A n \in Nodes : Parent(n) < n
  BY <1>10, <1>11, <1>12
<1>14. \A p \in Nodes \cup {0} : \A n \in Kids(p) : n \in Nodes /\ Parent(n) = p
  BY <1>10, <1>11, <1>12
<1>15. ASSUME NEW n \in Nodes, NEW m \in Nodes, Parent(m) < n, n < m
       PROVE  Parent(m) <= Parent(n)
  <2> DEFINE p == Parent(m)
             q == Parent(n)
  <2>1. p \in Nodes \cup {0} /\ q \in Nodes \cup {0} /\ m \in Kids(p) /\ n \in Kids(q)
    BY <1>11, <1>12
  <2>2. p < n /\ n < m
    BY <1>15
  <2> HIDE DEF p, q
  <2>3. PICK i \in DOMAIN c.children[p] : m = c.children[p][i]
    BY <1>8, <2>1
  <2>4. PICK j \in DOMAIN c.children[q] : n = c.children[q][j]
    BY <1>8, <2>1
  <2>5. p <= q
    BY <1>6, <2>1, <2>2, <2>3, <2>4
  <2>6. QED
    BY <2>5 DEF p, q
<1>16. ASSUME NEW n \in Nodes, n \notin Elements
       PROVE  Kids(n) = {}
  <2>1. ASSUME NEW k \in Kids(n) PROVE FALSE
    BY <1>4, <1>10, <1>16, <2>1
  <2>2. QED
    BY <2>1
<1>17. QED
  BY <1>4, <1>5, <1>6, <1>11, <1>13, <1>14, <1>15, <1>16 DEF Tree, c

\* What lies before what is to be done, and that all else is below it.
Visited(pending) == {n \in Nodes : \A c \in pending : n < c}
Frontier(pending) ==
    /\ pending \subseteq Nodes
    /\ \A n \in Nodes : n \in pending \cup Visited(pending) <=> Parent(n) \in {0} \cup Visited(pending)

\* At first the children of the root are to be done.
LEMMA FirstFrontier ==
    ASSUME chapter \in Chapters
    PROVE  Frontier(Kids(0)) /\ Visited(Kids(0)) = {}
<1>1. Tree
  BY TreeFacts
<1> DEFINE V == Visited(Kids(0))
<1>2. V = {}
  <2> SUFFICES ASSUME V # {} PROVE FALSE
    OBVIOUS
  <2>1. V \in SUBSET Nat /\ \A n \in V : n \in Nodes /\ \A c \in Kids(0) : n < c
    BY <1>1 DEF Tree, Visited
  <2> HIDE DEF V
  <2>2. PICK n \in V : \A m \in V : n <= m
    BY <2>1, LeastNumber
  <2> DEFINE p == Parent(n)
  <2>3. p \in Nodes \cup {0} /\ n \in Kids(p) /\ p < n /\ n \in Nodes
    BY <1>1, <2>1 DEF Tree, Elements
  <2> HIDE DEF p
  <2>4. Nodes \subseteq Nat \ {0} /\ \A c \in Kids(0) : c \in Nodes
    BY <1>1 DEF Tree
  <2>5. p \in Nat /\ n \in Nat
    BY <2>3, <2>4
  <2>6. p # 0
    BY <2>1, <2>3, <2>5
  <2>7. \A c \in Kids(0) : p < c
    BY <2>1, <2>3, <2>4, <2>5
  <2>8. p \in V
    BY <2>3, <2>6, <2>7 DEF V, Visited
  <2>9. QED
    BY <2>2, <2>3, <2>5, <2>8
<1>3. \A n \in Nodes : n \in Kids(0) <=> Parent(n) = 0
  BY <1>1 DEF Tree
<1>4. Kids(0) \subseteq Nodes
  BY <1>1 DEF Tree
<1>5. QED
  BY <1>2, <1>3, <1>4 DEF Frontier

\* The next node to be done is left behind, and its children come before the
\* others.
LEMMA FrontierMoves ==
    ASSUME chapter \in Chapters, NEW pending, Frontier(pending), NEW next \in pending,
           \A c \in pending : next <= c
    PROVE  /\ Frontier((pending \ {next}) \cup Kids(next))
           /\ Visited((pending \ {next}) \cup Kids(next)) = Visited(pending) \cup {next}
           /\ next \notin Visited(pending)
           /\ \A c \in Kids(next) : \A d \in pending \ {next} : c < d
<1> DEFINE after == (pending \ {next}) \cup Kids(next)
           V == Visited(pending)
           W == Visited(after)
<1>1. Tree
  BY TreeFacts
<1>2. /\ pending \subseteq Nodes /\ Nodes \subseteq Nat \ {0} /\ next \in Nodes
      /\ \A n \in Nodes : n \in pending \cup V <=> Parent(n) \in {0} \cup V
  BY <1>1 DEF Frontier, Tree
<1>3. \A n \in Nodes : Parent(n) \in Nodes \cup {0} /\ n \in Kids(Parent(n)) /\ Parent(n) < n
      /\ Parent(n) \in Nat
  <2>1. \A n \in Nodes : Parent(n) \in Nodes \cup {0} /\ n \in Kids(Parent(n)) /\ Parent(n) < n
    BY <1>1 DEF Tree, Elements
  <2>2. TAKE n \in Nodes
  <2> DEFINE p == Parent(n)
  <2>3. p \in Nodes \cup {0} /\ n \in Kids(p) /\ p < n
    BY <2>1
  <2> HIDE DEF p
  <2>4. p \in Nat
    BY <1>2, <2>3
  <2>5. QED
    BY <2>3, <2>4 DEF p
<1>4. \A n \in Kids(next) : n \in Nodes /\ Parent(n) = next /\ next < n
  <2>1. \A n \in Kids(next) : n \in Nodes /\ Parent(n) = next
    BY <1>1, <1>2 DEF Tree
  <2>2. QED
    BY <1>3, <2>1
<1>5. \A n \in V : n \in Nodes /\ \A c \in pending : n < c
  BY DEF Visited
<1>6. \A n \in Nodes : (\A c \in pending : n < c) => n \in V
  BY DEF Visited
<1>7. \A n \in W : n \in Nodes /\ \A c \in after : n < c
  BY DEF Visited
<1>8. \A n \in Nodes : (\A c \in after : n < c) => n \in W
  BY DEF Visited
<1>9. \A c \in pending \ {next} : c \in Nodes /\ next < c /\ Parent(c) < next
  <2>1. TAKE c \in pending \ {next}
  <2>2. c \in Nodes /\ next <= c /\ c # next
    BY <1>2
  <2>3. Parent(c) \in {0} \cup V
    BY <1>2, <2>2
  <2>4. Parent(c) < next
    BY <1>2, <1>5, <2>3
  <2>5. QED
    BY <1>2, <2>2, <2>4
<1>10. \A c \in Kids(next) : \A d \in pending \ {next} : c < d
  <2>1. TAKE c \in Kids(next)
  <2>2. TAKE d \in pending \ {next}
  <2>3. c \in Nodes /\ Parent(c) = next /\ next < c
    BY <1>4
  <2>4. d \in Nodes /\ next < d /\ Parent(d) < next
    BY <1>9
  <2>5. c # d
    BY <1>2, <2>3, <2>4
  <2>6. ~(d < c)
    <3>1. d < c => next <= Parent(d)
      BY <1>1, <2>3, <2>4 DEF Tree
    <3>2. QED
      BY <1>2, <1>3, <2>4, <3>1
  <2>7. QED
    BY <1>2, <2>3, <2>4, <2>5, <2>6
<1>11. next \notin V
  BY <1>2, <1>5
<1>12. V \cup {next} \subseteq W
  <2>1. \A c \in after : c \in Nodes /\ next < c
    BY <1>4, <1>9
  <2>2. next \in W
    BY <1>2, <1>8, <2>1
  <2>3. ASSUME NEW n \in V PROVE n \in W
    <3>1. n \in Nodes /\ n < next
      BY <1>5
    <3>2. \A c \in after : n < c
      BY <1>2, <2>1, <3>1
    <3>3. QED
      BY <1>8, <3>1, <3>2
  <2>4. QED
    BY <2>2, <2>3
<1>13. W \subseteq V \cup {next}
  <2> DEFINE X == W \ (V \cup {next})
  <2> SUFFICES ASSUME X # {} PROVE FALSE
    OBVIOUS
  <2>1. X \in SUBSET Nat /\ \A n \in X : n \in W /\ n \notin V /\ n # next
    BY <1>2, <1>7
  <2>2. \A n \in W : n \notin V /\ n # next => n \in X
    OBVIOUS
  <2> HIDE DEF X
  <2>3. PICK n \in X : \A m \in X : n <= m
    BY <2>1, LeastNumber
  <2>4. n \in Nodes /\ n \in W /\ n \notin V /\ n # next /\ \A c \in after : n < c
    BY <1>7, <2>1
  <2>5. n > next
    <3>1. PICK c \in pending : ~(n < c)
      BY <1>6, <2>4
    <3>2. c = next
      BY <1>2, <2>4, <3>1
    <3>3. QED
      BY <1>2, <2>4, <3>1, <3>2
  <2> DEFINE p == Parent(n)
  <2>6. p \in Nodes \cup {0} /\ n \in Kids(p) /\ p < n /\ p \in Nat
    BY <1>3, <2>4
  <2>7. p # next
    <3>1. p = next => n \in after
      BY <2>6
    <3>2. QED
      BY <1>2, <2>4, <3>1
  <2>8. ~(p > next)
    <3> SUFFICES ASSUME p > next PROVE FALSE
      OBVIOUS
    <3> HIDE DEF p
    <3>1. p \in Nodes /\ p # 0
      BY <1>2, <2>6
    <3>2. \A c \in after : c \in Nat
      BY <1>2, <1>4
    <3>3. \A c \in after : p < c
      BY <1>2, <2>4, <2>6, <3>2
    <3>4. p \in W
      BY <1>8, <3>1, <3>3
    <3>5. p \notin V /\ p # next
      BY <1>2, <1>5, <2>6
    <3>6. p \in X
      BY <2>2, <3>4, <3>5
    <3>7. QED
      BY <1>2, <2>3, <2>4, <2>6, <3>6
  <2>9. p < next
    BY <1>2, <2>6, <2>7, <2>8
  <2>10. p \in {0} \cup V
    <3>1. CASE p = 0
      BY <3>1
    <3>2. CASE p # 0
      <4>1. p \in Nodes
        BY <2>6, <3>2
      <4> HIDE DEF p
      <4>2. \A c \in pending : p < c
        BY <1>2, <2>6, <2>9
      <4>3. QED
        BY <1>6, <4>1, <4>2
    <3>3. QED
      BY <3>1, <3>2
  <2>11. n \in pending
    BY <1>2, <2>4, <2>10
  <2>12. n \in after
    BY <2>4, <2>11
  <2>13. QED
    BY <1>2, <2>4, <2>12
<1>14. W = V \cup {next}
  BY <1>12, <1>13
<1>15. Frontier(after)
  <2>1. after \subseteq Nodes
    BY <1>2, <1>4
  <2>2. ASSUME NEW n \in Nodes
        PROVE  n \in after \cup W <=> Parent(n) \in {0} \cup W
    <3>1. n \in Kids(next) <=> Parent(n) = next
      BY <1>3, <1>4
    <3>2. n \in pending \cup V <=> Parent(n) \in {0} \cup V
      BY <1>2
    <3>3. next \in pending
      OBVIOUS
    <3>4. n \in after \cup W <=> n \in pending \cup V \/ n \in Kids(next)
      BY <1>14, <3>3
    <3> HIDE DEF W, V, after
    <3>5. QED
      BY <1>14, <3>1, <3>2, <3>4
  <2>3. QED
    BY <2>1, <2>2 DEF Frontier
<1>16. QED
  BY <1>10, <1>11, <1>14, <1>15

\* The step that leads to a node from its parent.
IndexOf(n) == IF n \in Elements THEN 2 * (ElementsBefore(n) + 1) ELSE 2 * ElementsBefore(n) + 1
StepTo(n) == Step(IndexOf(n), IF n \in Elements THEN chapter.id[n] ELSE Absent)

\* Of two siblings the later has no fewer elements before it, and one more at
\* least if the earlier is an element.
LEMMA SiblingsCounted ==
    ASSUME chapter \in Chapters, NEW a \in Nodes, NEW b \in Nodes, Parent(a) = Parent(b), a < b
    PROVE  /\ ElementsBefore(a) \in Nat /\ ElementsBefore(b) \in Nat
           /\ ElementsBefore(a) <= ElementsBefore(b)
           /\ a \in Elements => ElementsBefore(a) + 1 <= ElementsBefore(b)
<1> DEFINE kids == ChildElements(Parent(a))
           A == {m \in kids : m < a}
           B == {m \in kids : m < b}
<1>1. Tree
  BY TreeFacts
<1>2. Nodes \subseteq Nat /\ IsFiniteSet(Nodes) /\ Elements \subseteq Nodes /\ a \in Kids(Parent(a))
  BY <1>1 DEF Tree, Elements
<1>3. kids \subseteq Elements /\ (a \in Elements => a \in kids)
  BY <1>2 DEF ChildElements, Kids
<1>4. ElementsBefore(a) = Cardinality(A) /\ ElementsBefore(b) = Cardinality(B)
  BY DEF ElementsBefore
<1> HIDE DEF kids
<1>5. B \subseteq Nodes /\ A \subseteq B /\ a \notin A /\ (a \in Elements => A \cup {a} \subseteq B)
  <2>1. \A m \in kids : m \in Nat /\ (m < a => m < b)
    BY <1>2, <1>3
  <2>2. a \in Nat /\ a < b /\ ~(a < a)
    BY <1>2
  <2>3. B \subseteq Nodes /\ A \subseteq B
    BY <1>2, <1>3, <2>1
  <2>4. a \notin A
    BY <2>2
  <2>5. a \in Elements => a \in B
    BY <1>3, <2>2
  <2>6. QED
    BY <2>3, <2>4, <2>5
<1> HIDE DEF A, B
<1>6. IsFiniteSet(B)
  BY <1>2, <1>5, FS_Subset
<1>7. IsFiniteSet(A) /\ Cardinality(A) <= Cardinality(B)
  BY <1>5, <1>6, FS_Subset
<1>8. Cardinality(A) \in Nat /\ Cardinality(B) \in Nat
  BY <1>6, <1>7, FS_CardinalityType
<1>9. ASSUME a \in Elements PROVE Cardinality(A) + 1 <= Cardinality(B)
  <2>1. Cardinality(A \cup {a}) = Cardinality(A) + 1
    BY <1>5, <1>7, FS_AddElement
  <2>2. Cardinality(A \cup {a}) <= Cardinality(B)
    <3> DEFINE more == A \cup {a}
    <3>1. more \in SUBSET B
      BY <1>5, <1>9
    <3> HIDE DEF more
    <3>2. Cardinality(more) <= Cardinality(B)
      BY <1>6, <3>1, FS_Subset
    <3>3. QED
      BY <3>2 DEF more
  <2>3. QED
    BY <2>1, <2>2
<1>10. QED
  BY <1>4, <1>7, <1>8, <1>9

\* How many elements are before a node is a number.
LEMMA CountTyped ==
    ASSUME chapter \in Chapters, NEW a \in Nodes
    PROVE  ElementsBefore(a) \in Nat /\ IndexOf(a) \in Nat \ {0}
<1> DEFINE A == {m \in ChildElements(Parent(a)) : m < a}
<1>1. Tree
  BY TreeFacts
<1>2. IsFiniteSet(Nodes) /\ A \in SUBSET Nodes
  BY <1>1 DEF Tree, ChildElements, Elements
<1>3. ElementsBefore(a) = Cardinality(A)
  BY DEF ElementsBefore
<1> HIDE DEF A
<1>4. ElementsBefore(a) \in Nat
  BY <1>2, <1>3, FS_Subset, FS_CardinalityType
<1>5. IndexOf(a) \in Nat \ {0}
  BY <1>4 DEF IndexOf
<1>6. QED
  BY <1>4, <1>5

\* Indices rise from sibling to sibling, unless only texts and comments lie
\* between two of those.
LEMMA IndexRises ==
    ASSUME chapter \in Chapters, NEW a \in Nodes, NEW b \in Nodes, Parent(a) = Parent(b), a < b
    PROVE  \/ IndexOf(a) < IndexOf(b)
           \/ IndexOf(a) = IndexOf(b) /\ a \notin Elements /\ b \notin Elements
<1> DEFINE x == ElementsBefore(a)
           y == ElementsBefore(b)
<1>1. x \in Nat /\ y \in Nat /\ x <= y /\ (a \in Elements => x + 1 <= y)
  BY SiblingsCounted
<1>2. IndexOf(a) = (IF a \in Elements THEN 2 * (x + 1) ELSE 2 * x + 1)
      /\ IndexOf(b) = (IF b \in Elements THEN 2 * (y + 1) ELSE 2 * y + 1)
  BY DEF IndexOf
<1> HIDE DEF x, y
<1>3. QED
  BY <1>1, <1>2

\* The way from the root to a node: the nodes below the root that it leads
\* through, each the parent of the next.
Up(w, i) == IF i = 0 THEN 0 ELSE w[i]
IsWay(w, n) ==
    /\ w \in Seq(Nodes) /\ n = Up(w, Len(w))
    /\ \A i \in 1..Len(w) : Parent(w[i]) = Up(w, i - 1)
StepsOf(w) == [i \in 1..Len(w) |-> StepTo(w[i])]

\* What lies on it.
LEMMA OnWay ==
    ASSUME chapter \in Chapters, NEW n, NEW w, IsWay(w, n)
    PROVE  /\ Len(w) \in Nat /\ \A i \in 1..Len(w) : w[i] \in Nodes
           /\ n \in Nodes \cup {0} /\ (n = 0 <=> Len(w) = 0)
           /\ n # 0 => Len(w) > 0 /\ w[Len(w)] = n
           /\ \A i \in 0..Len(w) : Up(w, i) \in Nodes \cup {0} /\ Up(w, i) \in Nat
           /\ \A i \in 1..Len(w) : i < Len(w) => w[i] \in Elements
           /\ n \in Elements \cup {0} => \A i \in 1..Len(w) : w[i] \in Elements
<1>1. Tree
  BY TreeFacts
<1>2. Len(w) \in Nat /\ w \in Seq(Nodes) /\ n = Up(w, Len(w))
      /\ \A i \in 1..Len(w) : Parent(w[i]) = Up(w, i - 1)
  BY DEF IsWay
<1>3. \A i \in 1..Len(w) : w[i] \in Nodes
  BY <1>2
<1>4. 0 \notin Nodes /\ Nodes \subseteq Nat
  BY <1>1 DEF Tree
<1>5. \A i \in 0..Len(w) : /\ Up(w, i) \in Nodes \cup {0} /\ Up(w, i) \in Nat
                           /\ Up(w, i) = 0 <=> i = 0
  <2>1. TAKE i \in 0..Len(w)
  <2>2. CASE i = 0
    BY <2>2 DEF Up
  <2>3. CASE i # 0
    <3>1. i \in 1..Len(w)
      BY <1>2, <2>3
    <3>2. QED
      BY <1>3, <1>4, <2>3, <3>1 DEF Up
  <2>4. QED
    BY <2>2, <2>3
<1>6. n \in Nodes \cup {0} /\ (n = 0 <=> Len(w) = 0)
  BY <1>2, <1>5
<1>7. n # 0 => Len(w) > 0 /\ w[Len(w)] = n
  BY <1>2, <1>6 DEF Up
<1>8. ASSUME NEW i \in 1..Len(w), i < Len(w) PROVE w[i] \in Elements
  <2>1. i + 1 \in 1..Len(w) /\ (i + 1) - 1 = i
    BY <1>2, <1>8
  <2>2. Parent(w[i + 1]) = Up(w, i) /\ Up(w, i) = w[i] /\ w[i + 1] \in Nodes
    <3>1. Parent(w[i + 1]) = Up(w, (i + 1) - 1)
      BY <1>2, <2>1
    <3>2. QED
      BY <1>3, <2>1, <3>1 DEF Up
  <2>3. Parent(w[i + 1]) \in Elements \cup {0}
    BY <1>1, <2>2 DEF Tree
  <2>4. QED
    BY <1>3, <1>4, <2>2, <2>3
<1>9. n \in Elements \cup {0} => \A i \in 1..Len(w) : w[i] \in Elements
  <2> SUFFICES ASSUME n \in Elements \cup {0}, NEW i \in 1..Len(w) PROVE w[i] \in Elements
    OBVIOUS
  <2>1. CASE i < Len(w)
    BY <1>8, <2>1
  <2>2. CASE i = Len(w)
    BY <1>2, <1>6, <1>7, <2>2
  <2>3. QED
    BY <1>2, <2>1, <2>2
<1>10. QED
  BY <1>2, <1>3, <1>5, <1>6, <1>7, <1>8, <1>9

\* A child is one step more.
LEMMA WayExtends ==
    ASSUME chapter \in Chapters, NEW n, NEW w, IsWay(w, n), NEW child \in Nodes, Parent(child) = n
    PROVE  IsWay(Append(w, child), child) /\ StepsOf(Append(w, child)) = Append(StepsOf(w), StepTo(child))
<1> DEFINE v == Append(w, child)
           m == Len(w)
<1>1. w \in Seq(Nodes) /\ m \in Nat /\ n = Up(w, m) /\ \A i \in 1..m : Parent(w[i]) = Up(w, i - 1)
  BY DEF IsWay
<1>2. /\ v \in Seq(Nodes) /\ Len(v) = m + 1 /\ v[m + 1] = child
      /\ \A i \in 1..m : v[i] = w[i]
  BY <1>1, Appended
<1> HIDE DEF v, m
<1>3. \A i \in 0..m : Up(v, i) = Up(w, i)
  BY <1>1, <1>2 DEF Up
<1>4. ASSUME NEW i \in 1..(m + 1) PROVE Parent(v[i]) = Up(v, i - 1)
  <2>1. CASE i <= m
    <3>1. i \in 1..m /\ i - 1 \in 0..m
      BY <1>1, <2>1
    <3>2. QED
      BY <1>1, <1>2, <1>3, <3>1
  <2>2. CASE i = m + 1
    <3>1. i - 1 = m /\ m \in 0..m
      BY <1>1, <2>2
    <3>2. QED
      BY <1>1, <1>2, <1>3, <2>2, <3>1
  <2>3. QED
    BY <1>1, <2>1, <2>2
<1>5. child = Up(v, m + 1)
  BY <1>1, <1>2 DEF Up
<1>6. IsWay(v, child)
  BY <1>2, <1>4, <1>5 DEF IsWay
<1>7. StepsOf(v) = Append(StepsOf(w), StepTo(child))
  <2> DEFINE S == {StepTo(v[i]) : i \in 1..(m + 1)}
             a == StepsOf(w)
             b == StepTo(child)
             c == StepsOf(v)
  <2>1. a \in Seq(S) /\ Len(a) = m /\ \A i \in 1..m : a[i] = StepTo(w[i])
    <3>1. \A i \in 1..m : StepTo(w[i]) \in S
      <4>1. TAKE i \in 1..m
      <4>2. i \in 1..(m + 1) /\ v[i] = w[i]
        BY <1>1, <1>2
      <4>3. QED
        BY <4>2
    <3> HIDE DEF S
    <3>2. a \in [1..m -> S] /\ \A i \in 1..m : a[i] = StepTo(w[i])
      BY <3>1 DEF StepsOf, m
    <3>3. QED
      BY <1>1, <3>2
  <2>2. b \in S
    <3>1. m + 1 \in 1..(m + 1)
      BY <1>1
    <3>2. QED
      BY <1>2, <3>1
  <2>3. c \in Seq(S) /\ Len(c) = m + 1 /\ \A i \in 1..(m + 1) : c[i] = StepTo(v[i])
    <3>1. \A i \in 1..(m + 1) : StepTo(v[i]) \in S
      OBVIOUS
    <3> HIDE DEF S
    <3>2. c \in [1..(m + 1) -> S] /\ \A i \in 1..(m + 1) : c[i] = StepTo(v[i])
      BY <1>2, <3>1 DEF StepsOf
    <3>3. QED
      BY <1>1, <3>2
  <2> HIDE DEF S, a, b, c
  <2> DEFINE d == Append(a, b)
  <2>4. d \in Seq(S) /\ Len(d) = m + 1 /\ d[m + 1] = b /\ \A i \in 1..m : d[i] = a[i]
    <3>1. a \in Seq(S) /\ b \in S
      BY <2>1, <2>2
    <3>2. /\ Append(a, b) \in Seq(S) /\ Len(Append(a, b)) = Len(a) + 1
          /\ Append(a, b)[Len(a) + 1] = b
          /\ \A i \in 1..Len(a) : Append(a, b)[i] = a[i]
      BY <3>1, Appended
    <3>3. QED
      BY <2>1, <3>2
  <2> HIDE DEF d
  <2>5. \A i \in 1..(m + 1) : c[i] = d[i]
    <3>1. TAKE i \in 1..(m + 1)
    <3>2. CASE i <= m
      <4>1. i \in 1..m
        BY <1>1, <3>2
      <4>2. QED
        BY <1>2, <2>1, <2>3, <2>4, <4>1
    <3>3. CASE i = m + 1
      BY <1>2, <2>3, <2>4, <3>3 DEF b
    <3>4. QED
      BY <1>1, <3>2, <3>3
  <2>6. c = d
    BY <2>3, <2>4, <2>5, SeqEqual
  <2>7. QED
    BY <2>6 DEF c, d, a, b
<1>8. QED
  BY <1>6, <1>7 DEF v

\* The way to the root is empty.
LEMMA NoWay ==
    IsWay(<< >>, 0) /\ StepsOf(<< >>) = << >>
<1> DEFINE w == << >>
<1>1. w \in Seq(Nodes) /\ Len(w) = 0 /\ 1..0 = {}
  OBVIOUS
<1>2. StepsOf(w) = << >>
  BY <1>1 DEF StepsOf
<1> HIDE DEF w
<1>3. IsWay(w, 0)
  BY <1>1 DEF IsWay, Up
<1>4. QED
  BY <1>2, <1>3 DEF w

\* Its steps are steps.
LEMMA WaySteps ==
    ASSUME NEW ids, Readable(ids), chapter \in Chapters, NEW n, NEW w, IsWay(w, n)
    PROVE  /\ StepsOf(w) \in Seq(StepOf(ids)) /\ Len(StepsOf(w)) = Len(w) /\ Len(w) \in Nat
           /\ \A i \in 1..Len(w) : StepsOf(w)[i] = StepTo(w[i]) /\ StepsOf(w)[i].index = IndexOf(w[i])
<1>1. Len(w) \in Nat /\ \A i \in 1..Len(w) : w[i] \in Nodes
  BY OnWay
<1>2. \A m \in Nodes : StepTo(m) \in StepOf(ids) /\ StepTo(m).index = IndexOf(m)
  <2>1. TAKE m \in Nodes
  <2>2. IndexOf(m) \in Nat
    BY CountTyped
  <2>3. (IF m \in Elements THEN chapter.id[m] ELSE Absent) \in Seq(ids) \cup {Absent}
    <3>1. DOMAIN chapter.id = Nodes
      BY ChaptersAssumption DEF IsChapter, Nodes
    <3>2. chapter.id[m] \in Seq(ids) \cup {Absent}
      BY <3>1 DEF Readable
    <3>3. QED
      BY <3>2
  <2> DEFINE x == IndexOf(m)
             y == IF m \in Elements THEN chapter.id[m] ELSE Absent
  <2> HIDE DEF x, y
  <2>4. StepTo(m) = Step(x, y)
    BY DEF StepTo, x, y
  <2>5. x \in Nat /\ y \in Seq(ids) \cup {Absent}
    BY <2>2, <2>3 DEF x, y
  <2>6. QED
    BY <2>4, <2>5 DEF Step, StepOf, x
<1>3. StepsOf(w) \in [1..Len(w) -> StepOf(ids)]
  BY <1>1, <1>2 DEF StepsOf
<1>4. StepsOf(w) \in Seq(StepOf(ids)) /\ Len(StepsOf(w)) = Len(w)
  BY <1>1, <1>3
<1>5. \A i \in 1..Len(w) : StepsOf(w)[i] = StepTo(w[i])
  BY DEF StepsOf
<1>6. QED
  BY <1>1, <1>2, <1>4, <1>5

\* Of two lists of steps the one that ends first, or has the lower index where
\* they part, comes first.
LEMMA StepsBefore ==
    ASSUME NEW chars, NEW s \in Seq(StepOf(chars)), NEW t \in Seq(StepOf(chars)),
           NEW k \in Nat, k <= Len(s), k < Len(t), \A i \in 1..k : s[i].index = t[i].index,
           k < Len(s) => s[k + 1].index < t[k + 1].index
    PROVE  CompareSteps(s, t) = -1
<1> DEFINE n == Len(s) + Len(t)
           u == [i \in 1..n |-> Cmp(Padded(s, i), Padded(t, i))]
           j == k + 1
<1>1. Len(s) \in Nat /\ Len(t) \in Nat /\ n \in Nat /\ Len(s) <= n /\ Len(t) <= n /\ j \in 1..n
      /\ j <= Len(t) /\ j \in 1..Len(t)
  OBVIOUS
<1>2. u \in [1..n -> Sign] /\ CompareSteps(s, t) = FirstDifference(u)
  <2> HIDE DEF n, j
  <2>1. QED
    BY <1>1, StepsPadded
<1>3. \A i \in 1..n : u[i] = Cmp(Padded(s, i), Padded(t, i))
  OBVIOUS
<1> HIDE DEF n, u
<1>4. \A i \in 1..n : i < j => u[i] = 0
  <2>1. TAKE i \in 1..n
  <2>2. HAVE i < j
  <2>3. i \in 1..k /\ i <= Len(s) /\ i <= Len(t) /\ i \in 1..Len(s)
    BY <1>1, <2>2
  <2>4. Padded(s, i) = s[i].index /\ Padded(t, i) = s[i].index
    BY <2>3 DEF Padded
  <2>5. s[i] \in StepOf(chars)
    BY <2>3
  <2>6. s[i].index \in Int
    BY <2>5 DEF StepOf
  <2>7. Cmp(Padded(s, i), Padded(t, i)) = 0
    BY <2>4, <2>6 DEF Cmp
  <2>8. QED
    BY <1>3, <2>7
<1>5. u[j] = -1
  <2>1. t[j] \in StepOf(chars)
    BY <1>1
  <2>2. t[j].index \in Nat /\ Padded(t, j) = t[j].index
    BY <1>1, <2>1 DEF StepOf, Padded
  <2>3. Padded(s, j) \in Int /\ Padded(s, j) < Padded(t, j)
    <3>1. CASE k < Len(s)
      <4>1. j \in 1..Len(s) /\ j <= Len(s)
        BY <1>1, <3>1
      <4>2. s[j] \in StepOf(chars)
        BY <4>1
      <4>3. s[j].index \in Nat /\ s[j].index < t[j].index
        BY <3>1, <4>2 DEF StepOf
      <4>4. QED
        BY <2>2, <4>1, <4>3 DEF Padded
    <3>2. CASE ~(k < Len(s))
      <4>1. ~(j <= Len(s))
        BY <1>1, <3>2
      <4>2. Padded(s, j) = -1
        BY <4>1 DEF Padded
      <4>3. QED
        BY <2>2, <4>2
    <3>3. QED
      BY <3>1, <3>2
  <2>4. Cmp(Padded(s, j), Padded(t, j)) = -1
    BY <2>2, <2>3 DEF Cmp
  <2>5. QED
    BY <1>1, <1>3, <2>4
<1> HIDE DEF j
<1>6. FirstDifference(u) = u[j]
  BY <1>1, <1>2, <1>4, <1>5, FirstSign
<1>7. QED
  BY <1>2, <1>5, <1>6

\* A way leads to later and later nodes.
LEMMA WayRises ==
    ASSUME chapter \in Chapters, NEW n, NEW w, IsWay(w, n)
    PROVE  \A j \in 0..Len(w) : \A i \in 0..(j - 1) : Up(w, i) < Up(w, j)
<1> DEFINE m == Len(w)
           N == {j \in 0..m : \A i \in 0..(j - 1) : Up(w, i) < Up(w, j)}
<1>1. Tree
  BY TreeFacts
<1>2. m \in Nat /\ \A i \in 1..m : w[i] \in Nodes /\ Parent(w[i]) = Up(w, i - 1)
  BY OnWay DEF IsWay
<1>3. \A i \in 0..m : Up(w, i) \in Nat
  BY OnWay
<1>4. 0 \in N
  BY <1>2
<1>5. ASSUME NEW j \in 0..(m - 1), j \in N
      PROVE  j + 1 \in N
  <2>1. j + 1 \in 1..m /\ j \in 0..m /\ j + 1 \in 0..m /\ (j + 1) - 1 = j /\ j + 1 # 0
    BY <1>2
  <2>2. w[j + 1] \in Nodes /\ Parent(w[j + 1]) = Up(w, j)
    BY <1>2, <2>1
  <2>3. Up(w, j + 1) = w[j + 1]
    BY <2>1 DEF Up
  <2>4. Up(w, j) < Up(w, j + 1)
    <3>1. \A c \in Nodes : Parent(c) < c
      BY <1>1 DEF Tree
    <3>2. QED
      BY <2>2, <2>3, <3>1
  <2>5. \A i \in 0..j : Up(w, i) < Up(w, j + 1)
    <3>1. TAKE i \in 0..j
    <3>2. CASE i = j
      BY <2>4, <3>2
    <3>3. CASE i # j
      <4>1. i \in 0..(j - 1) /\ i \in 0..m
        BY <1>2, <3>3
      <4>2. Up(w, i) < Up(w, j)
        BY <1>5, <4>1
      <4>3. QED
        BY <1>3, <2>1, <2>4, <4>1, <4>2
    <3>4. QED
      BY <3>2, <3>3
  <2>6. QED
    BY <2>1, <2>5
<1>6. 0..m \subseteq N
  <2> HIDE DEF N, m
  <2>1. QED
    BY <1>2, <1>4, <1>5, BoundedInduction
<1>7. QED
  BY <1>6

\* What is below a node lies before the node's later siblings.
LEMMA BelowSibling ==
    ASSUME chapter \in Chapters, NEW n \in Nodes, NEW w, IsWay(w, n), NEW k \in 0..(Len(w) - 1),
           NEW a \in Nodes, Parent(a) = Up(w, k), w[k + 1] < a
    PROVE  n < a
<1> DEFINE m == Len(w)
           N == {i \in 0..m : i >= k + 1 => w[i] < a}
<1>1. Tree
  BY TreeFacts
<1>2. m \in Nat /\ \A i \in 1..m : w[i] \in Nodes /\ Parent(w[i]) = Up(w, i - 1)
  BY OnWay DEF IsWay
<1>3. Nodes \subseteq Nat
  BY <1>1 DEF Tree
<1>4. 0 \in N
  BY <1>2
<1>5. ASSUME NEW i \in 0..(m - 1), i \in N
      PROVE  i + 1 \in N
  <2>1. i + 1 \in 1..m /\ i + 1 \in 0..m /\ (i + 1) - 1 = i
    BY <1>2
  <2>2. CASE i < k
    BY <2>1, <2>2
  <2>3. CASE i = k
    BY <2>1, <2>3
  <2>4. CASE i > k
    <3>1. i \in 1..m /\ i \in 0..m /\ k \in 0..(i - 1) /\ i # 0 /\ w[i] < a
      BY <1>2, <1>5, <2>4
    <3> DEFINE b == w[i]
               c == w[i + 1]
    <3>2. b \in Nodes /\ c \in Nodes /\ Parent(c) = b /\ Up(w, i) = b
      <4>1. Parent(w[i + 1]) = Up(w, i)
        BY <1>2, <2>1
      <4>2. QED
        BY <1>2, <2>1, <3>1, <4>1 DEF Up
    <3>3. Parent(a) < b
      BY <3>1, <3>2, WayRises
    <3>4. b < a
      BY <3>1
    <3>5. Parent(a) \in Nat
      <4>1. k \in 0..m /\ \A j \in 0..m : Up(w, j) \in Nat
        BY <1>2, OnWay
      <4>2. QED
        BY <4>1
    <3> HIDE DEF b, c
    <3>6. c # a
      BY <1>3, <3>2, <3>3, <3>5
    <3>7. ~(a < c)
      <4>1. a < c => b <= Parent(a)
        BY <1>1, <3>2, <3>4 DEF Tree
      <4>2. QED
        BY <1>3, <3>2, <3>3, <3>5, <4>1
    <3>8. c < a
      BY <1>3, <3>2, <3>6, <3>7
    <3>9. QED
      BY <2>1, <3>8 DEF c
  <2>5. QED
    BY <2>2, <2>3, <2>4
<1>6. 0..m \subseteq N
  <2> HIDE DEF N, m
  <2>1. QED
    BY <1>2, <1>4, <1>5, BoundedInduction
<1>7. m \in 0..m /\ m >= k + 1 /\ w[m] = n
  <2>1. n # 0
    BY <1>1 DEF Tree
  <2>2. QED
    BY <1>2, <2>1, OnWay
<1>8. QED
  BY <1>6, <1>7

\* The steps to two nodes are in the order of the nodes, or the same but for
\* what they assert, to texts that no element parts.
LEMMA WaysOrdered ==
    ASSUME NEW ids, Readable(ids), chapter \in Chapters, NEW n \in Nodes, NEW m \in Nodes, n < m,
           NEW v, IsWay(v, n), NEW w, IsWay(w, m)
    PROVE  \/ CompareSteps(StepsOf(v), StepsOf(w)) = -1
           \/ /\ n \notin Elements /\ m \notin Elements
              /\ SameSteps(StepsOf(v), StepsOf(w))
<1> DEFINE s == StepsOf(v)
           t == StepsOf(w)
           commons == {k \in 0..Len(v) : k <= Len(w) /\ \A i \in 1..k : v[i] = w[i]}
<1>1. Tree
  BY TreeFacts
<1>2. /\ s \in Seq(StepOf(ids)) /\ Len(s) = Len(v) /\ Len(v) \in Nat
      /\ \A i \in 1..Len(v) : s[i].index = IndexOf(v[i])
      /\ t \in Seq(StepOf(ids)) /\ Len(t) = Len(w) /\ Len(w) \in Nat
      /\ \A i \in 1..Len(w) : t[i].index = IndexOf(w[i])
  BY WaySteps
<1> HIDE DEF s, t
<1>3. /\ Nodes \subseteq Nat \ {0}
      /\ \A i \in 1..Len(v) : v[i] \in Nodes /\ Parent(v[i]) = Up(v, i - 1)
      /\ \A i \in 1..Len(w) : w[i] \in Nodes /\ Parent(w[i]) = Up(w, i - 1)
      /\ Len(v) > 0 /\ v[Len(v)] = n /\ Len(w) > 0 /\ w[Len(w)] = m
  BY <1>1, OnWay DEF IsWay, Tree
<1>4. PICK k \in commons : \A j \in commons : k >= j
  <2>1. commons \in SUBSET (0..Len(v)) /\ commons # {}
    <3>1. 0 \in commons
      BY <1>2
    <3>2. QED
      BY <3>1
  <2> HIDE DEF commons
  <2>2. QED
    BY <1>2, <2>1, GreatestNumber
<1>5. k \in 0..Len(v) /\ k <= Len(w) /\ \A i \in 1..k : v[i] = w[i]
  BY <1>4
<1>6. k < Len(v) /\ k < Len(w) => v[k + 1] # w[k + 1]
  <2> SUFFICES ASSUME k < Len(v), k < Len(w), v[k + 1] = w[k + 1] PROVE FALSE
    OBVIOUS
  <2>1. k + 1 \in commons
    BY <1>2, <1>5
  <2>2. QED
    BY <1>2, <1>4, <1>5, <2>1
<1> HIDE DEF commons
<1>7. \A i \in 1..k : s[i].index = t[i].index
  BY <1>2, <1>5
<1>8. CASE k = Len(w)
  <2>1. k \in 1..k /\ m = v[k]
    BY <1>2, <1>3, <1>5, <1>8
  <2>2. m <= n
    <3>1. CASE k = Len(v)
      BY <1>3, <2>1, <3>1
    <3>2. CASE k # Len(v)
      <4>1. Len(v) \in 0..Len(v) /\ k \in 0..(Len(v) - 1) /\ k # 0 /\ Len(v) # 0
        BY <1>2, <1>5, <2>1, <3>2
      <4>2. Up(v, k) < Up(v, Len(v))
        BY <4>1, WayRises
      <4>3. QED
        BY <1>3, <2>1, <4>1, <4>2 DEF Up
    <3>3. QED
      BY <3>1, <3>2
  <2>3. QED
    BY <1>3, <2>2
<1>9. CASE k < Len(w) /\ k = Len(v)
  <2>1. CompareSteps(s, t) = -1
    BY <1>2, <1>5, <1>7, <1>9, StepsBefore
  <2>2. QED
    BY <2>1 DEF s, t
<1>10. CASE k < Len(w) /\ k < Len(v)
  <2> DEFINE a == v[k + 1]
             b == w[k + 1]
  <2>1. k + 1 \in 1..Len(v) /\ k + 1 \in 1..Len(w) /\ (k + 1) - 1 = k
        /\ k \in 0..(Len(v) - 1) /\ k \in 0..(Len(w) - 1)
    BY <1>2, <1>5, <1>10
  <2>2. a \in Nodes /\ b \in Nodes /\ Parent(a) = Up(v, k) /\ Parent(b) = Up(w, k) /\ a # b
    <3>1. Parent(v[k + 1]) = Up(v, k) /\ Parent(w[k + 1]) = Up(w, k)
      BY <1>3, <2>1
    <3>2. QED
      BY <1>3, <1>6, <1>10, <2>1, <3>1
  <2>3. Up(v, k) = Up(w, k)
    BY <1>5 DEF Up
  <2>4. a <= n
    <3>1. CASE k + 1 = Len(v)
      BY <1>3, <2>2, <3>1
    <3>2. CASE k + 1 # Len(v)
      <4>1. Len(v) \in 0..Len(v) /\ k + 1 \in 0..(Len(v) - 1) /\ k + 1 # 0 /\ Len(v) # 0
        BY <1>2, <2>1, <3>2
      <4>2. Up(v, k + 1) < Up(v, Len(v))
        BY <4>1, WayRises
      <4>3. Up(v, k + 1) = a /\ Up(v, Len(v)) = n
        BY <1>3, <4>1 DEF Up
      <4> HIDE DEF a
      <4>4. QED
        BY <1>3, <2>2, <4>2, <4>3
    <3>3. QED
      BY <3>1, <3>2
  <2>5. ~(b < a)
    <3> SUFFICES ASSUME b < a PROVE FALSE
      OBVIOUS
    <3>1. m < a
      BY <2>1, <2>2, <2>3, BelowSibling
    <3> HIDE DEF a, b
    <3>2. QED
      BY <1>3, <2>2, <2>4, <3>1
  <2>6. a < b
    <3> HIDE DEF a, b
    <3>1. QED
      BY <1>3, <2>2, <2>5
  <2>7. \/ IndexOf(a) < IndexOf(b)
        \/ IndexOf(a) = IndexOf(b) /\ a \notin Elements /\ b \notin Elements
    <3>1. Parent(a) = Parent(b)
      BY <2>2, <2>3
    <3> HIDE DEF a, b
    <3>2. QED
      BY <2>2, <2>6, <3>1, IndexRises
  <2>8. s[k + 1].index = IndexOf(a) /\ t[k + 1].index = IndexOf(b)
    BY <1>2, <2>1
  <2>9. CASE IndexOf(a) < IndexOf(b)
    <3>1. CompareSteps(s, t) = -1
      BY <1>2, <1>5, <1>7, <1>10, <2>8, <2>9, StepsBefore
    <3>2. QED
      BY <3>1 DEF s, t
  <2>10. CASE IndexOf(a) = IndexOf(b) /\ a \notin Elements /\ b \notin Elements
    <3>1. k + 1 = Len(v) /\ k + 1 = Len(w)
      <4>1. \A i \in 1..Len(v) : i < Len(v) => v[i] \in Elements
        BY OnWay
      <4>2. \A i \in 1..Len(w) : i < Len(w) => w[i] \in Elements
        BY OnWay
      <4>3. QED
        BY <1>2, <2>1, <2>10, <4>1, <4>2
    <3>2. n = a /\ m = b
      BY <1>3, <3>1
    <3>3. \A i \in 1..Len(v) : s[i].index = t[i].index
      <4>1. TAKE i \in 1..Len(v)
      <4>2. i \in 1..k \/ i = k + 1
        BY <1>2, <1>5, <3>1
      <4>3. QED
        BY <1>7, <2>8, <2>10, <4>2
    <3>4. DOMAIN s = 1..Len(v) /\ Len(s) = Len(t)
      BY <1>2, <3>1
    <3>5. SameSteps(s, t)
      BY <3>3, <3>4 DEF SameSteps
    <3>6. QED
      BY <2>10, <3>2, <3>5 DEF s, t
  <2>11. QED
    BY <2>7, <2>9, <2>10
<1>11. QED
  BY <1>2, <1>5, <1>8, <1>9, <1>10

-----------------------------------------------------------------------------
\* The walk over the tree.

\* What is left of a list after its first k elements.
LEMMA AfterFacts ==
    ASSUME NEW S, NEW s \in Seq(S), NEW k \in 0..Len(s)
    PROVE  /\ After(s, k) \in Seq(S) /\ Len(After(s, k)) = Len(s) - k
           /\ \A i \in 1..(Len(s) - k) : After(s, k)[i] = s[k + i]
           /\ After(s, 0) = s
           /\ After(s, k) = << >> <=> k = Len(s)
           /\ k < Len(s) => /\ Head(After(s, k)) = s[k + 1] /\ k + 1 \in 0..Len(s)
                            /\ Tail(After(s, k)) = After(s, k + 1)
           /\ ToSet(After(s, k)) = {s[i] : i \in (k + 1)..Len(s)}
<1> DEFINE r == After(s, k)
<1>1. Len(s) \in Nat /\ k \in Nat /\ k <= Len(s) /\ \A i \in 1..Len(s) : s[i] \in S
  OBVIOUS
<1>8. \A m \in 0..Len(s) : After(s, m) = [i \in 1..(Len(s) - m) |-> s[m + i]]
  <2>1. TAKE m \in 0..Len(s)
  <2>2. After(s, m) = [i \in 1..(1 + Len(s) - (m + 1)) |-> s[i + (m + 1) - 1]]
    BY <1>1 DEF After
  <2>3. 1 + Len(s) - (m + 1) = Len(s) - m /\ \A i \in 1..(Len(s) - m) : i + (m + 1) - 1 = m + i
    BY <1>1
  <2>4. QED
    BY <2>2, <2>3
<1>2. r \in Seq(S) /\ Len(r) = Len(s) - k /\ \A i \in 1..(Len(s) - k) : r[i] = s[k + i]
  <2>1. r = [i \in 1..(Len(s) - k) |-> s[k + i]]
    BY <1>8
  <2>2. Len(s) - k \in Nat /\ \A i \in 1..(Len(s) - k) : k + i \in 1..Len(s)
    BY <1>1
  <2> HIDE DEF r
  <2>3. r \in [1..(Len(s) - k) -> S]
    BY <1>1, <2>1, <2>2
  <2>4. QED
    BY <2>1, <2>2, <2>3
<1>3. After(s, 0) = s
  BY <1>1 DEF After
<1>4. r = << >> <=> k = Len(s)
  <2> HIDE DEF r
  <2>1. r = << >> <=> Len(r) = 0
    BY <1>2
  <2>2. QED
    BY <1>1, <1>2, <2>1
<1>5. ASSUME k < Len(s)
      PROVE  /\ Head(r) = s[k + 1] /\ k + 1 \in 0..Len(s)
             /\ Tail(r) = After(s, k + 1)
  <2>1. Head(r) = s[k + 1]
    <3>1. 1 \in 1..(Len(s) - k)
      BY <1>1, <1>5
    <3>2. r[1] = s[k + 1]
      BY <1>1, <1>2, <3>1
    <3> HIDE DEF r
    <3>3. QED
      BY <1>2, <3>2
  <2>2. k + 1 \in 0..Len(s)
    BY <1>1, <1>5
  <2>3. Tail(r) = After(s, k + 1)
    <3> DEFINE u == After(s, k + 1)
    <3>1. u = [i \in 1..(Len(s) - (k + 1)) |-> s[k + 1 + i]]
      BY <1>8, <2>2
    <3>2. Tail(r) = [i \in 1..(Len(r) - 1) |-> r[i + 1]]
      <4>1. r # << >>
        BY <1>4, <1>5
      <4> HIDE DEF r
      <4>2. QED
        <5>1. Tail(r) \in Seq(S) /\ Len(Tail(r)) = Len(r) - 1
              /\ \A i \in 1..Len(Tail(r)) : Tail(r)[i] = r[i + 1]
          BY <1>2, <4>1, HeadTailProperties
        <5> DEFINE v == Tail(r)
        <5> HIDE DEF v
        <5>4. v \in Seq(S) /\ Len(v) = Len(r) - 1 /\ \A i \in 1..Len(v) : v[i] = r[i + 1]
          BY <5>1 DEF v
        <5>2. v \in [1..(Len(r) - 1) -> S] /\ \A i \in 1..(Len(r) - 1) : v[i] = r[i + 1]
          BY <5>4
        <5>3. QED
          BY <5>2 DEF v
    <3>3. Len(r) - 1 = Len(s) - (k + 1) /\ \A i \in 1..(Len(r) - 1) : r[i + 1] = s[k + 1 + i]
      <4>1. Len(r) - 1 = Len(s) - (k + 1)
        BY <1>1, <1>2
      <4>2. \A i \in 1..(Len(r) - 1) : i + 1 \in 1..(Len(s) - k) /\ k + (i + 1) = k + 1 + i
        BY <1>1, <1>2
      <4> HIDE DEF r
      <4>3. \A i \in 1..(Len(r) - 1) : r[i + 1] = s[k + (i + 1)]
        BY <1>2, <4>2
      <4>4. QED
        BY <4>1, <4>2, <4>3
    <3> HIDE DEF u, r
    <3>4. QED
      BY <3>1, <3>2, <3>3 DEF u
  <2>4. QED
    BY <2>1, <2>2, <2>3
<1>6. ToSet(r) = {s[i] : i \in (k + 1)..Len(s)}
  <2> HIDE DEF r
  <2>1. ToSet(r) = {r[i] : i \in 1..(Len(s) - k)}
    <3>1. DOMAIN r = 1..(Len(s) - k)
      BY <1>2
    <3>2. QED
      BY <3>1 DEF ToSet
  <2>2. \A i \in 1..(Len(s) - k) : k + i \in (k + 1)..Len(s) /\ r[i] = s[k + i]
    BY <1>1, <1>2
  <2>3. \A i \in (k + 1)..Len(s) : i - k \in 1..(Len(s) - k) /\ k + (i - k) = i
    BY <1>1
  <2>4. \A i \in (k + 1)..Len(s) : r[i - k] = s[i]
    BY <1>2, <2>3
  <2>5. QED
    BY <2>1, <2>2, <2>3, <2>4
<1> HIDE DEF r
<1>7. QED
  BY <1>2, <1>3, <1>4, <1>5, <1>6 DEF r

\* What a stack of frames has still to do, and that it is a path downwards
\* with the later nodes below.
Pended(stack) == UNION {ToSet(stack[i].rest) : i \in DOMAIN stack}
Stacked(stack) ==
    \A i, j \in DOMAIN stack : i < j =>
      /\ j = i + 1 => Parent(stack[i].node) = stack[j].node
      /\ \A c \in ToSet(stack[i].rest) : \A d \in ToSet(stack[j].rest) : c < d

\* With one frame more.
LEMMA StackPushed ==
    ASSUME NEW S, NEW f \in S, NEW s \in Seq(S)
    PROVE  /\ Pended(<<f>> \o s) = ToSet(f.rest) \cup Pended(s)
           /\ Stacked(<<f>> \o s) <=>
                /\ Stacked(s) /\ (s # << >> => Parent(f.node) = s[1].node)
                /\ \A c \in ToSet(f.rest) : \A d \in Pended(s) : c < d
<1> DEFINE u == <<f>> \o s
<1>1. /\ Len(s) \in Nat /\ DOMAIN u = 1..(Len(s) + 1) /\ DOMAIN s = 1..Len(s)
      /\ u[1] = f /\ \A i \in 1..Len(s) : u[i + 1] = s[i]
  BY Pushed
<1> HIDE DEF u
<1>2. \A i \in 1..(Len(s) + 1) : i = 1 \/ (i - 1 \in 1..Len(s) /\ u[i] = s[i - 1])
  <2>1. TAKE i \in 1..(Len(s) + 1)
  <2>2. i = 1 \/ (i - 1 \in 1..Len(s) /\ (i - 1) + 1 = i)
    BY <1>1
  <2> DEFINE k == i - 1
  <2>3. i = 1 \/ (k \in 1..Len(s) /\ k + 1 = i)
    BY <2>2
  <2> HIDE DEF k
  <2>4. i = 1 \/ (k \in 1..Len(s) /\ u[i] = s[k])
    BY <1>1, <2>3
  <2>5. QED
    BY <2>4 DEF k
<1>3. \A i \in 1..Len(s) : i + 1 \in 1..(Len(s) + 1)
  BY <1>1
<1>4. 1 \in 1..(Len(s) + 1)
  BY <1>1
<1>5. Pended(u) = ToSet(f.rest) \cup Pended(s)
  <2>1. ASSUME NEW c \in Pended(u)
        PROVE  c \in ToSet(f.rest) \cup Pended(s)
    <3>1. PICK i \in 1..(Len(s) + 1) : c \in ToSet(u[i].rest)
      BY <1>1, <2>1 DEF Pended
    <3>2. CASE i = 1
      BY <1>1, <3>1, <3>2
    <3>3. CASE i # 1
      BY <1>1, <1>2, <3>1, <3>3 DEF Pended
    <3>4. QED
      BY <3>2, <3>3
  <2>2. ASSUME NEW c \in ToSet(f.rest)
        PROVE  c \in Pended(u)
    BY <1>1, <1>4, <2>2 DEF Pended
  <2>3. ASSUME NEW c \in Pended(s)
        PROVE  c \in Pended(u)
    <3>1. PICK i \in 1..Len(s) : c \in ToSet(s[i].rest)
      BY <1>1, <2>3 DEF Pended
    <3>2. QED
      BY <1>1, <1>3, <3>1 DEF Pended
  <2>4. QED
    BY <2>1, <2>2, <2>3
<1>6. ASSUME Stacked(u)
      PROVE  /\ Stacked(s) /\ (s # << >> => Parent(f.node) = s[1].node)
             /\ \A c \in ToSet(f.rest) : \A d \in Pended(s) : c < d
  <2>1. \A i, j \in 1..(Len(s) + 1) : i < j =>
          /\ j = i + 1 => Parent(u[i].node) = u[j].node
          /\ \A c \in ToSet(u[i].rest) : \A d \in ToSet(u[j].rest) : c < d
    BY <1>1, <1>6 DEF Stacked
  <2>2. Stacked(s)
    <3> SUFFICES ASSUME NEW i \in 1..Len(s), NEW j \in 1..Len(s), i < j
                 PROVE  /\ j = i + 1 => Parent(s[i].node) = s[j].node
                        /\ \A c \in ToSet(s[i].rest) : \A d \in ToSet(s[j].rest) : c < d
      BY <1>1 DEF Stacked
    <3>1. i + 1 < j + 1 /\ (j = i + 1 => j + 1 = (i + 1) + 1)
      BY <1>1
    <3>2. i + 1 \in 1..(Len(s) + 1) /\ j + 1 \in 1..(Len(s) + 1) /\ u[i + 1] = s[i] /\ u[j + 1] = s[j]
      BY <1>1, <1>3
    <3>3. QED
      BY <2>1, <3>1, <3>2
  <2>3. \A j \in 1..Len(s) : /\ j = 1 => Parent(f.node) = s[j].node
                             /\ \A c \in ToSet(f.rest) : \A d \in ToSet(s[j].rest) : c < d
    <3>1. TAKE j \in 1..Len(s)
    <3>2. j + 1 \in 1..(Len(s) + 1) /\ 1 < j + 1 /\ (j = 1 => j + 1 = 1 + 1)
      BY <1>1
    <3>3. u[j + 1] = s[j]
      BY <1>1
    <3>4. QED
      BY <1>1, <1>4, <2>1, <3>2, <3>3
  <2>4. s # << >> => 1 \in 1..Len(s)
    BY <1>1
  <2>5. QED
    BY <1>1, <2>2, <2>3, <2>4 DEF Pended
<1>7. ASSUME /\ Stacked(s) /\ (s # << >> => Parent(f.node) = s[1].node)
             /\ \A c \in ToSet(f.rest) : \A d \in Pended(s) : c < d
      PROVE  Stacked(u)
  <2> SUFFICES ASSUME NEW i \in 1..(Len(s) + 1), NEW j \in 1..(Len(s) + 1), i < j
               PROVE  /\ j = i + 1 => Parent(u[i].node) = u[j].node
                      /\ \A c \in ToSet(u[i].rest) : \A d \in ToSet(u[j].rest) : c < d
    BY <1>1 DEF Stacked
  <2>1. j - 1 \in 1..Len(s) /\ u[j] = s[j - 1]
    <3>1. j # 1
      BY <1>1
    <3>2. QED
      BY <1>2, <3>1
  <2>2. CASE i = 1
    <3>1. j = i + 1 => j - 1 = 1 /\ s # << >>
      BY <1>1, <2>1, <2>2
    <3>2. ToSet(s[j - 1].rest) \subseteq Pended(s)
      BY <1>1, <2>1 DEF Pended
    <3>3. QED
      BY <1>1, <1>7, <2>1, <2>2, <3>1, <3>2
  <2>3. CASE i # 1
    <3>1. i - 1 \in 1..Len(s) /\ u[i] = s[i - 1]
      BY <1>2, <2>3
    <3>2. i - 1 < j - 1 /\ (j = i + 1 => j - 1 = (i - 1) + 1)
      BY <1>1
    <3>3. /\ j - 1 = (i - 1) + 1 => Parent(s[i - 1].node) = s[j - 1].node
          /\ \A c \in ToSet(s[i - 1].rest) : \A d \in ToSet(s[j - 1].rest) : c < d
      BY <1>1, <1>7, <2>1, <3>1, <3>2 DEF Stacked
    <3>4. QED
      BY <2>1, <3>1, <3>2, <3>3
  <2>4. QED
    BY <2>2, <2>3
<1>8. QED
  BY <1>5, <1>6, <1>7 DEF u

\* A frame in its place: what is left to do are the last children, the index
\* counts the elements before them, and the path is that of the node.
Placed(f) ==
    /\ f.node \in Elements \cup {0}
    /\ \E k \in 0..Len(chapter.children[f.node]) : f.rest = After(chapter.children[f.node], k)
    /\ f.child_index = 2 * Cardinality(ChildElements(f.node) \ ToSet(f.rest))
    /\ \E w : IsWay(w, f.node) /\ f.path = PrintSteps(StepsOf(w))
Frames(ids) == {f \in FrameOf(Writing(ids)) : Placed(f)}

\* What is below a node is finite.
LEMMA KidsFinite ==
    ASSUME chapter \in Chapters, NEW n \in Nodes \cup {0}
    PROVE  /\ IsFiniteSet(ChildElements(n)) /\ ChildElements(n) = Kids(n) \cap Elements
           /\ Kids(n) \subseteq Nodes /\ Kids(n) \subseteq Nat
           /\ \A c \in Kids(n) : Parent(c) = n
<1>1. Tree
  BY TreeFacts
<1>2. Nodes \subseteq Nat \ {0} /\ IsFiniteSet(Nodes)
      /\ \A p \in Nodes \cup {0} : \A c \in Kids(p) : c \in Nodes /\ Parent(c) = p
  BY <1>1 DEF Tree
<1>3. ChildElements(n) = Kids(n) \cap Elements
  BY DEF ChildElements, Kids
<1>4. Kids(n) \subseteq Nodes
  BY <1>2
<1>5. ChildElements(n) \subseteq Nodes
  BY <1>3, <1>4
<1>6. IsFiniteSet(ChildElements(n))
  BY <1>2, <1>5, FS_Subset
<1>7. QED
  BY <1>2, <1>3, <1>4, <1>6

\* A new frame is in its place.
LEMMA NewFrame ==
    ASSUME NEW ids, Readable(ids), chapter \in Chapters, NEW n \in Elements \cup {0}, NEW w, IsWay(w, n)
    PROVE  /\ Frame(n, PrintSteps(StepsOf(w))) \in Frames(ids)
           /\ Frame(n, PrintSteps(StepsOf(w))).node = n
           /\ Frame(n, PrintSteps(StepsOf(w))).rest = chapter.children[n]
           /\ ToSet(Frame(n, PrintSteps(StepsOf(w))).rest) = Kids(n)
<1> DEFINE path == PrintSteps(StepsOf(w))
           f == Frame(n, path)
           rest == chapter.children[n]
<1>1. f = [node |-> n, rest |-> rest, child_index |-> 0, path |-> path]
  BY DEF Frame
<1>2. n \in Nodes \cup {0}
  BY DEF Elements
<1>3. rest \in Seq(Nodes)
  <2>1. Tree
    BY TreeFacts
  <2>2. QED
    BY <1>2, <2>1 DEF Tree
<1>4. path \in Seq(Writing(ids))
  <2>1. StepsOf(w) \in Seq(StepOf(ids))
    BY WaySteps
  <2>2. Unescaped(ids)
    BY DEF Readable
  <2>3. QED
    BY <2>1, <2>2, StepsKept DEF Kept
<1> HIDE DEF path, f, rest
<1>5. /\ f.node = n /\ f.rest = rest /\ f.child_index = 0 /\ f.path = path
      /\ f \in FrameOf(Writing(ids))
  BY <1>1, <1>2, <1>3, <1>4 DEF FrameOf
<1>6. ToSet(rest) = Kids(n)
  BY DEF Kids, rest
<1>7. 0 \in 0..Len(rest) /\ rest = After(rest, 0)
  <2>1. Len(rest) \in Nat
    BY <1>3
  <2>2. 0 \in 0..Len(rest)
    BY <2>1
  <2>3. QED
    BY <1>3, <2>2, AfterFacts
<1>8. Cardinality(ChildElements(n) \ ToSet(rest)) = 0
  <2>1. ChildElements(n) \ ToSet(rest) = {}
    BY <1>6 DEF ChildElements, Kids
  <2>2. QED
    BY <2>1, FS_EmptySet
<1>9. Placed(f)
  <2>1. \E k \in 0..Len(chapter.children[f.node]) : f.rest = After(chapter.children[f.node], k)
    BY <1>5, <1>7 DEF rest
  <2>2. f.child_index = 2 * Cardinality(ChildElements(f.node) \ ToSet(f.rest))
    BY <1>5, <1>8
  <2>3. \E v : IsWay(v, f.node) /\ f.path = PrintSteps(StepsOf(v))
    BY <1>5 DEF path
  <2>4. QED
    BY <1>5, <2>1, <2>2, <2>3 DEF Placed
<1>10. QED
  BY <1>5, <1>6, <1>9 DEF Frames, f, path, rest

\* The next child of a frame, and the frame without it.
LEMMA NextChild ==
    ASSUME NEW ids, chapter \in Chapters, NEW f \in Frames(ids), f.rest # << >>
    PROVE  /\ Head(f.rest) \in Nodes /\ Parent(Head(f.rest)) = f.node
           /\ Head(f.rest) \in ToSet(f.rest) /\ \A c \in ToSet(f.rest) : Head(f.rest) <= c
           /\ ToSet(Tail(f.rest)) = ToSet(f.rest) \ {Head(f.rest)}
           /\ f.child_index = 2 * ElementsBefore(Head(f.rest))
           /\ [f EXCEPT !.rest = Tail(@)].rest = Tail(f.rest) /\ [f EXCEPT !.rest = Tail(@)].node = f.node
           /\ Head(f.rest) \notin Elements => [f EXCEPT !.rest = Tail(@)] \in Frames(ids)
           /\ Head(f.rest) \in Elements =>
                [[f EXCEPT !.rest = Tail(@)] EXCEPT !.child_index = f.child_index + 2] \in Frames(ids)
<1> DEFINE all == chapter.children[f.node]
           h == Head(f.rest)
           elements == ChildElements(f.node)
<1>1. f \in FrameOf(Writing(ids)) /\ Placed(f)
  BY DEF Frames
<1>2. f.node \in Nodes \cup {0} /\ f.rest \in Seq(Nodes) /\ f.child_index \in Nat
      /\ f = [node |-> f.node, rest |-> f.rest, child_index |-> f.child_index, path |-> f.path]
      /\ f.path \in Seq(Writing(ids))
  BY <1>1 DEF FrameOf
<1>24. /\ all \in Seq(Nodes) /\ Len(all) \in Nat /\ DOMAIN all = 1..Len(all)
       /\ \A i, j \in 1..Len(all) : i < j => all[i] < all[j]
       /\ \A i \in 1..Len(all) : all[i] \in Nodes
       /\ Nodes \subseteq Nat
  <2>1. Tree
    BY TreeFacts
  <2>2. /\ all \in Seq(Nodes) /\ Nodes \subseteq Nat
        /\ \A i, j \in DOMAIN all : i < j => all[i] < all[j]
    BY <1>2, <2>1 DEF Tree
  <2> HIDE DEF all
  <2>3. QED
    BY <2>2
<1>5. ToSet(all) = Kids(f.node) /\ \A i \in 1..Len(all) : all[i] \in Kids(f.node)
  BY <1>24 DEF Kids, ToSet
<1>6. /\ IsFiniteSet(elements) /\ elements = Kids(f.node) \cap Elements
      /\ \A c \in Kids(f.node) : Parent(c) = f.node
  BY <1>2, KidsFinite
<1> HIDE DEF all, h, elements
<1>3. PICK k : k \in 0..Len(all) /\ f.rest = After(all, k)
  BY <1>1 DEF Placed, all
<1>4. /\ all \in Seq(Nodes) /\ Len(all) \in Nat /\ DOMAIN all = 1..Len(all)
      /\ \A i, j \in 1..Len(all) : i < j => all[i] < all[j]
      /\ \A i \in 1..Len(all) : all[i] \in Nodes
      /\ Nodes \subseteq Nat
      /\ k \in Nat /\ k <= Len(all) /\ k \in 0..Len(all)
  BY <1>3, <1>24
<1>7. /\ k < Len(all) /\ h = all[k + 1] /\ k + 1 \in 1..Len(all) /\ k + 1 \in 0..Len(all)
      /\ Tail(f.rest) = After(all, k + 1)
      /\ ToSet(f.rest) = {all[i] : i \in (k + 1)..Len(all)}
      /\ ToSet(Tail(f.rest)) = {all[i] : i \in (k + 2)..Len(all)}
  <2> DEFINE n == Len(all)
  <2>7. After(all, k) = << >> <=> k = n
    BY <1>4, AfterFacts
  <2>8. n \in Nat /\ k \in Nat /\ k <= n
    BY <1>4
  <2> HIDE DEF n
  <2>1. k # n
    BY <1>3, <2>7
  <2>9. k < n /\ k + 1 \in 1..n /\ k + 1 \in 0..n
    BY <2>1, <2>8
  <2>2. k < Len(all) /\ k + 1 \in 1..Len(all) /\ k + 1 \in 0..Len(all)
    BY <2>9 DEF n
  <2>3. /\ Head(After(all, k)) = all[k + 1] /\ Tail(After(all, k)) = After(all, k + 1)
        /\ ToSet(After(all, k)) = {all[i] : i \in (k + 1)..Len(all)}
    <3>1. k < Len(all) => /\ Head(After(all, k)) = all[k + 1] /\ k + 1 \in 0..Len(all)
                            /\ Tail(After(all, k)) = After(all, k + 1)
      BY <1>4, AfterFacts
    <3>2. ToSet(After(all, k)) = {all[i] : i \in (k + 1)..Len(all)}
      <4>1. all \in Seq(Nodes) /\ k \in 0..Len(all)
        BY <1>4
      <4>2. QED
        BY <4>1, AfterFacts
    <3>3. QED
      BY <2>2, <3>1, <3>2
  <2>4. ToSet(After(all, k + 1)) = {all[i] : i \in ((k + 1) + 1)..Len(all)}
    BY <1>4, <2>2, AfterFacts
  <2>5. (k + 1) + 1 = k + 2
    BY <1>3
  <2>6. QED
    BY <1>3, <2>2, <2>3, <2>4, <2>5 DEF h
<1>8. h \in Nodes /\ h \in Kids(f.node) /\ Parent(h) = f.node /\ h \in ToSet(f.rest)
  <2>1. k + 1 \in (k + 1)..Len(all)
    BY <1>4, <1>7
  <2>2. QED
    BY <1>4, <1>5, <1>6, <1>7, <2>1
<1>9. \A c \in ToSet(f.rest) : c = h \/ (h < c /\ c \in ToSet(Tail(f.rest)))
  <2>1. TAKE c \in ToSet(f.rest)
  <2>2. PICK i \in (k + 1)..Len(all) : c = all[i]
    BY <1>7
  <2>3. i = k + 1 \/ (k + 1 < i /\ i \in 1..Len(all) /\ i \in (k + 2)..Len(all))
    BY <1>4
  <2>4. QED
    BY <1>4, <1>7, <2>2, <2>3
<1>10. \A c \in ToSet(Tail(f.rest)) : c \in ToSet(f.rest) /\ h < c /\ h # c
  <2>1. TAKE c \in ToSet(Tail(f.rest))
  <2>2. PICK i \in (k + 2)..Len(all) : c = all[i]
    BY <1>7
  <2>3. k + 1 < i /\ i \in 1..Len(all) /\ i \in (k + 1)..Len(all)
    BY <1>4
  <2>4. h < c
    BY <1>4, <1>7, <2>2, <2>3
  <2>5. c \in Nat /\ h \in Nat
    BY <1>4, <1>8, <2>2, <2>3
  <2>6. QED
    BY <1>7, <2>2, <2>3, <2>4, <2>5
<1>11. \A c \in ToSet(f.rest) : h <= c
  <2>1. h \in Nat
    BY <1>4, <1>8
  <2>2. \A c \in ToSet(f.rest) : c \in Nat
    <3>1. \A i \in (k + 1)..Len(all) : i \in 1..Len(all)
      BY <1>4
    <3>2. QED
      BY <1>4, <1>7, <3>1
  <2>3. QED
    BY <1>9, <2>1, <2>2
<1>12. ToSet(Tail(f.rest)) = ToSet(f.rest) \ {h}
  BY <1>9, <1>10
<1> DEFINE before == {m \in elements : m < h}
<1>13. elements \ ToSet(f.rest) = before
  <2>1. \A m \in elements : m \in ToSet(f.rest) <=> ~(m < h)
    <3>1. TAKE m \in elements
    <3>2. PICK i \in 1..Len(all) : m = all[i]
      BY <1>4, <1>5, <1>6 DEF ToSet
    <3>3. CASE i <= k
      <4>1. i < k + 1
        BY <1>4, <3>3
      <4>2. m < h
        BY <1>4, <1>7, <3>2, <4>1
      <4>3. m \in Nat /\ h \in Nat
        BY <1>4, <1>8, <3>2
      <4>4. QED
        BY <1>11, <4>2, <4>3
    <3>4. CASE ~(i <= k)
      <4>1. i \in (k + 1)..Len(all)
        BY <1>4, <3>4
      <4>2. m \in ToSet(f.rest)
        BY <1>7, <3>2, <4>1
      <4>3. m \in Nat /\ h \in Nat
        BY <1>4, <1>8, <3>2
      <4>4. QED
        BY <1>11, <4>2, <4>3
    <3>5. QED
      BY <3>3, <3>4
  <2>2. QED
    BY <2>1
<1>14. f.child_index = 2 * Cardinality(before) /\ ElementsBefore(h) = Cardinality(before)
  BY <1>1, <1>8, <1>13 DEF Placed, ElementsBefore, elements
<1>15. IsFiniteSet(before) /\ Cardinality(before) \in Nat /\ h \notin before
  <2>1. IsFiniteSet(before)
    BY <1>6, FS_Subset
  <2>2. ~(h < h)
    BY <1>4, <1>8
  <2>3. QED
    BY <2>1, <2>2, FS_CardinalityType
<1>16. elements \ ToSet(Tail(f.rest)) = IF h \in Elements THEN before \cup {h} ELSE before
  <2>1. h \in elements <=> h \in Elements
    BY <1>6, <1>8
  <2>2. elements \ ToSet(Tail(f.rest)) = (elements \ ToSet(f.rest)) \cup (elements \cap {h})
    BY <1>8, <1>12
  <2>3. QED
    BY <1>13, <2>1, <2>2
<1> DEFINE skip == [f EXCEPT !.rest = Tail(@)]
           index == f.child_index + 2
           go == [skip EXCEPT !.child_index = index]
<1>17. Tail(f.rest) \in Seq(Nodes) /\ index \in Nat
  BY <1>2
<1>18. skip \in FrameOf(Writing(ids)) /\ skip.node = f.node /\ skip.rest = Tail(f.rest)
       /\ skip.path = f.path /\ skip.child_index = f.child_index
  BY <1>1, <1>17 DEF FrameOf
<1> HIDE DEF before, skip, index
<1>19. /\ skip \in FrameOf(Writing(ids)) /\ go \in FrameOf(Writing(ids))
       /\ skip.node = f.node /\ go.node = f.node /\ skip.rest = Tail(f.rest) /\ go.rest = Tail(f.rest)
       /\ skip.path = f.path /\ go.path = f.path /\ skip.child_index = f.child_index /\ go.child_index = index
  BY <1>17, <1>18 DEF FrameOf
<1> HIDE DEF go
<1>20. \A g : g.node = f.node /\ g.rest = Tail(f.rest) /\ g.path = f.path
              /\ g.child_index = 2 * Cardinality(elements \ ToSet(Tail(f.rest))) => Placed(g)
  <2>1. TAKE g
  <2>2. HAVE g.node = f.node /\ g.rest = Tail(f.rest) /\ g.path = f.path
              /\ g.child_index = 2 * Cardinality(elements \ ToSet(Tail(f.rest)))
  <2>3. \E j \in 0..Len(chapter.children[g.node]) : g.rest = After(chapter.children[g.node], j)
    BY <1>7, <2>2 DEF all
  <2>4. g.child_index = 2 * Cardinality(ChildElements(g.node) \ ToSet(g.rest))
    BY <2>2 DEF elements
  <2>5. QED
    BY <1>1, <2>2, <2>3, <2>4 DEF Placed
<1>21. h \notin Elements => skip \in Frames(ids)
  <2>1. h \notin Elements => Placed(skip)
    BY <1>14, <1>16, <1>19, <1>20
  <2>2. QED
    BY <1>19, <2>1 DEF Frames
<1>22. h \in Elements => go \in Frames(ids)
  <2>1. ASSUME h \in Elements
        PROVE  Placed(go)
    <3>1. Cardinality(before \cup {h}) = Cardinality(before) + 1
      BY <1>15, FS_AddElement
    <3>2. index = 2 * Cardinality(before \cup {h})
      BY <1>14, <1>15, <3>1 DEF index
    <3>3. QED
      BY <1>16, <1>19, <1>20, <2>1, <3>2
  <2>2. QED
    BY <1>19, <2>1 DEF Frames
<1>23. QED
  BY <1>8, <1>11, <1>12, <1>14, <1>19, <1>21, <1>22 DEF h, skip, go, index

\* The invariant of the walk: its frames are in their places, one below the
\* other, and what they have still to do is the frontier of what is done.
WalkInv(ids) ==
    /\ chapter \in Chapters /\ mode \in {"inject", "search"}
    /\ walk \in Seq(Frames(ids)) /\ Stacked(walk) /\ Frontier(Pended(walk))

\* A stack takes the place of the walk when the next node is visited.
Visits(ids, next, stack) ==
    /\ stack \in Seq(Frames(ids)) /\ Stacked(stack) /\ Frontier(Pended(stack))
    /\ Visited(Pended(stack)) = Visited(Pended(walk)) \cup {next}

\* The frame on top, and the next node.
LEMMA TopOfWalk ==
    ASSUME NEW ids, WalkInv(ids), Walking
    PROVE  /\ Top \in Frames(ids) /\ Tail(walk) \in Seq(Frames(ids))
           /\ Pended(walk) = ToSet(Top.rest) \cup Pended(Tail(walk)) /\ Stacked(Tail(walk))
           /\ Tail(walk) # << >> => Parent(Top.node) = Tail(walk)[1].node
           /\ \A c \in ToSet(Top.rest) : \A d \in Pended(Tail(walk)) : c < d
           /\ Pended(walk) \subseteq Nodes
<1> DEFINE S == Frames(ids)
           top == Top
           tail == Tail(walk)
<1>1. walk \in Seq(S) /\ walk # << >> /\ Stacked(walk) /\ Pended(walk) \subseteq Nodes
  BY DEF WalkInv, Walking, Frontier
<1>2. walk = <<top>> \o tail /\ top \in S /\ tail \in Seq(S)
  BY <1>1, Pushed DEF Top
<1> HIDE DEF S, top, tail
<1>3. /\ Pended(<<top>> \o tail) = ToSet(top.rest) \cup Pended(tail)
      /\ Stacked(<<top>> \o tail) =>
           /\ Stacked(tail) /\ (tail # << >> => Parent(top.node) = tail[1].node)
           /\ \A c \in ToSet(top.rest) : \A d \in Pended(tail) : c < d
  BY <1>2, StackPushed
<1>4. QED
  BY <1>1, <1>2, <1>3 DEF S, top, tail

\* The node that is visited next.
LEMMA NextOfWalk ==
    ASSUME NEW ids, WalkInv(ids), Walking, Top.rest # << >>
    PROVE  LET next == Head(Top.rest) IN
           /\ next \in Nodes /\ next \in Pended(walk) /\ next \notin Visited(Pended(walk))
           /\ Parent(next) = Top.node /\ Top.node \in Elements \cup {0}
           /\ Top.child_index = 2 * ElementsBefore(next)
           /\ Frontier((Pended(walk) \ {next}) \cup Kids(next))
           /\ Visited((Pended(walk) \ {next}) \cup Kids(next)) = Visited(Pended(walk)) \cup {next}
           /\ \A c \in Kids(next) : \A d \in Pended(walk) \ {next} : c < d
           /\ Pended(walk) \ {next} = ToSet(Tail(Top.rest)) \cup Pended(Tail(walk))
           /\ \A n \in Visited(Pended(walk)) : n < next
<1> DEFINE next == Head(Top.rest)
           top == Top
           rest == ToSet(Top.rest)
           others == Pended(Tail(walk))
           all == Pended(walk)
<1>1. /\ top \in Frames(ids) /\ all = rest \cup others
      /\ \A c \in rest : \A d \in others : c < d
      /\ all \subseteq Nodes /\ chapter \in Chapters /\ Frontier(all)
  BY TopOfWalk DEF WalkInv
<1>2. /\ next \in Nodes /\ Parent(next) = top.node /\ next \in rest /\ \A c \in rest : next <= c
      /\ ToSet(Tail(Top.rest)) = rest \ {next} /\ top.child_index = 2 * ElementsBefore(next)
  BY <1>1, NextChild
<1>3. top.node \in Elements \cup {0}
  BY <1>1 DEF Frames, Placed
<1>4. Nodes \subseteq Nat
  <2>1. Tree
    BY <1>1, TreeFacts
  <2>2. QED
    BY <2>1 DEF Tree
<1>10. \A n \in Visited(all) : \A c \in all : n < c
  BY DEF Visited
<1> HIDE DEF next, top, rest, others, all
<1>5. next \in all /\ next \notin others
  <2>1. next \in others => next < next
    BY <1>1, <1>2
  <2>2. QED
    BY <1>1, <1>2, <1>4, <2>1
<1>6. \A c \in all : next <= c
  <2>1. TAKE c \in all
  <2>2. CASE c \in rest
    BY <1>2, <2>2
  <2>3. CASE c \in others
    <3>1. next < c /\ next \in Nat /\ c \in Nat
      BY <1>1, <1>2, <1>4, <2>3
    <3>2. QED
      BY <3>1
  <2>4. QED
    BY <1>1, <2>2, <2>3
<1>7. /\ Frontier((all \ {next}) \cup Kids(next))
      /\ Visited((all \ {next}) \cup Kids(next)) = Visited(all) \cup {next}
      /\ next \notin Visited(all)
      /\ \A c \in Kids(next) : \A d \in all \ {next} : c < d
  BY <1>1, <1>5, <1>6, FrontierMoves
<1>8. all \ {next} = (rest \ {next}) \cup others
  BY <1>1, <1>5
<1>9. QED
  BY <1>2, <1>3, <1>5, <1>7, <1>8, <1>10 DEF next, top, rest, others, all

\* A text or a comment is passed.
LEMMA Passing ==
    ASSUME NEW ids, WalkInv(ids), Walking, Top.rest # << >>, Head(Top.rest) \notin Elements
    PROVE  Visits(ids, Head(Top.rest), <<Skip>> \o Tail(walk))
<1> DEFINE S == Frames(ids)
           next == Head(Top.rest)
           tail == Tail(walk)
           rest == Tail(Top.rest)
           skip == Skip
           all == Pended(walk)
           some == all \ {next}
<1>1. /\ Top \in S /\ tail \in Seq(S) /\ Stacked(tail) /\ chapter \in Chapters
      /\ tail # << >> => Parent(Top.node) = tail[1].node
      /\ \A c \in ToSet(Top.rest) : \A d \in Pended(tail) : c < d
  BY TopOfWalk DEF WalkInv
<1>2. /\ Skip \in S /\ Skip.node = Top.node /\ Skip.rest = rest
      /\ ToSet(rest) = ToSet(Top.rest) \ {next}
  BY <1>1, NextChild DEF Skip
<1>3. /\ Frontier(some \cup Kids(next)) /\ Visited(some \cup Kids(next)) = Visited(all) \cup {next}
      /\ some = ToSet(rest) \cup Pended(tail) /\ next \in Nodes
  BY NextOfWalk
<1>4. Kids(next) = {}
  <2>1. Tree
    BY <1>1, TreeFacts
  <2>2. QED
    BY <1>3, <2>1 DEF Tree
<1> HIDE DEF next, tail, rest, all
<1> HIDE DEF S, skip, some
<1>5. some \cup Kids(next) = some
  BY <1>4
<1>6. /\ skip \in S /\ skip.node = Top.node /\ skip.rest = rest
  BY <1>2 DEF skip
<1>7. <<skip>> \o tail \in Seq(S)
  BY <1>1, <1>6, Pushed
<1>8. Pended(<<skip>> \o tail) = ToSet(skip.rest) \cup Pended(tail)
  BY <1>1, <1>6, StackPushed
<1>9. Stacked(<<skip>> \o tail)
  <2>1. Stacked(<<skip>> \o tail) <=>
                /\ Stacked(tail) /\ (tail # << >> => Parent(skip.node) = tail[1].node)
                /\ \A c \in ToSet(skip.rest) : \A d \in Pended(tail) : c < d
    BY <1>1, <1>6, StackPushed
  <2>2. QED
    BY <1>1, <1>2, <1>6, <2>1
<1>10. Pended(<<skip>> \o tail) = some
  BY <1>3, <1>6, <1>8
<1> DEFINE stack == <<skip>> \o tail
<1>11. Visits(ids, next, stack)
  <2> HIDE DEF stack
  <2>1. stack \in Seq(S) /\ Stacked(stack) /\ Pended(stack) = some
    BY <1>7, <1>9, <1>10 DEF stack
  <2>2. QED
    BY <1>3, <1>5, <2>1 DEF Visits, all, S
<1>12. QED
  BY <1>11 DEF next, tail, skip

\* An element is entered.
LEMMA Entering ==
    ASSUME NEW ids, Readable(ids), WalkInv(ids), Walking, Top.rest # << >>, Head(Top.rest) \in Elements,
           NEW w, IsWay(w, Head(Top.rest))
    PROVE  Visits(ids, Head(Top.rest),
                  <<Frame(Head(Top.rest), PrintSteps(StepsOf(w))),
                    [Skip EXCEPT !.child_index = Top.child_index + 2]>> \o Tail(walk))
<1> DEFINE S == Frames(ids)
           next == Head(Top.rest)
           tail == Tail(walk)
           rest == Tail(Top.rest)
           go == [Skip EXCEPT !.child_index = Top.child_index + 2]
           new == Frame(next, PrintSteps(StepsOf(w)))
           all == Pended(walk)
           some == all \ {next}
<1>1. /\ Top \in S /\ tail \in Seq(S) /\ Stacked(tail) /\ chapter \in Chapters
      /\ tail # << >> => Parent(Top.node) = tail[1].node
      /\ \A c \in ToSet(Top.rest) : \A d \in Pended(tail) : c < d
  BY TopOfWalk DEF WalkInv
<1>2. /\ Skip.node = Top.node /\ Skip.rest = rest /\ go \in S
      /\ ToSet(rest) = ToSet(Top.rest) \ {next} /\ Parent(next) = Top.node
  BY <1>1, NextChild DEF Skip
<1>3. go.node = Top.node /\ go.rest = rest
  <2>1. \A f \in FrameOf(Writing(ids)) : \A i : [f EXCEPT !.child_index = i].node = f.node
                                               /\ [f EXCEPT !.child_index = i].rest = f.rest
    BY DEF FrameOf
  <2>2. Skip \in FrameOf(Writing(ids))
    <3>1. Top \in FrameOf(Writing(ids))
      BY <1>1 DEF Frames
    <3>2. Top.rest \in Seq(Nodes)
      BY <3>1 DEF FrameOf
    <3>3. Tail(Top.rest) \in Seq(Nodes)
      BY <3>2
    <3>4. QED
      BY <3>1, <3>3 DEF Skip, FrameOf
  <2>3. QED
    BY <1>2, <2>1, <2>2
<1>4. /\ Frontier(some \cup Kids(next)) /\ Visited(some \cup Kids(next)) = Visited(all) \cup {next}
      /\ some = ToSet(rest) \cup Pended(tail) /\ next \in Nodes
      /\ \A c \in Kids(next) : \A d \in some : c < d
  BY NextOfWalk
<1>5. new \in S /\ new.node = next /\ ToSet(new.rest) = Kids(next)
  <2>1. next \in Elements \cup {0}
    OBVIOUS
  <2>2. QED
    BY <1>1, <2>1, NewFrame
<1> HIDE DEF next, tail, rest, all
<1> HIDE DEF S, go, new, some
<1> DEFINE below == <<go>> \o tail
<1>6. below \in Seq(S) /\ Len(below) \in Nat /\ below[1] = go /\ below # << >>
  <2>1. below \in Seq(S) /\ Len(below) = Len(tail) + 1 /\ Len(tail) \in Nat /\ below[1] = go
    BY <1>1, <1>2, Pushed
  <2> HIDE DEF below
  <2>2. Len(below) # 0
    BY <2>1
  <2>3. QED
    BY <2>1, <2>2
<1>7. Pended(below) = some /\ Stacked(below)
  <2>1. Pended(below) = ToSet(go.rest) \cup Pended(tail)
    BY <1>1, <1>2, StackPushed
  <2>2. Stacked(below) <=>
                /\ Stacked(tail) /\ (tail # << >> => Parent(go.node) = tail[1].node)
                /\ \A c \in ToSet(go.rest) : \A d \in Pended(tail) : c < d
    BY <1>1, <1>2, StackPushed
  <2>3. QED
    BY <1>1, <1>2, <1>3, <1>4, <2>1, <2>2
<1> HIDE DEF below
<1> DEFINE stack == <<new>> \o below
<1>8. stack \in Seq(S)
  BY <1>5, <1>6, Pushed
<1>9. Pended(stack) = some \cup Kids(next) /\ Stacked(stack)
  <2>1. Pended(stack) = ToSet(new.rest) \cup Pended(below)
    BY <1>5, <1>6, StackPushed
  <2>2. Stacked(stack) <=>
                /\ Stacked(below) /\ (below # << >> => Parent(new.node) = below[1].node)
                /\ \A c \in ToSet(new.rest) : \A d \in Pended(below) : c < d
    BY <1>5, <1>6, StackPushed
  <2>3. Pended(stack) = some \cup Kids(next)
    BY <1>5, <1>7, <2>1
  <2>4. Stacked(stack)
    BY <1>2, <1>3, <1>4, <1>5, <1>6, <1>7, <2>2
  <2>5. QED
    BY <2>3, <2>4
<1>10. stack = <<new, go>> \o tail
  <2>1. new \in S /\ go \in S /\ tail \in Seq(S)
    BY <1>1, <1>2, <1>5
  <2>2. <<new, go>> \o tail = <<new>> \o (<<go>> \o tail)
    BY <2>1, TwoPushed
  <2>3. QED
    BY <2>2 DEF below
<1>11. Visits(ids, next, stack)
  <2> HIDE DEF stack
  <2>1. QED
    BY <1>4, <1>8, <1>9 DEF Visits, all, S
<1> HIDE DEF stack
<1>12. QED
  BY <1>10, <1>11 DEF next, new, go, tail

-----------------------------------------------------------------------------
\* What the walk writes, and the invariant.

\* What is written about a way: the path of an element, its data-cfi, and the
\* range of a match in a text after it.
MarkPath(w) == Path(BaseSteps, StepsOf(w), Absent)
MarkText(w) == Wrap(PrintPath(MarkPath(w)))
MatchText(w, node, match) ==
    Wrap(Joint(PrintPath(MarkPath(w)), PrintPath(TextPath(IndexOf(node), match[1])),
               PrintPath(TextPath(IndexOf(node), match[2]))))
MarkedAt(n, text) == \E w : IsWay(w, n) /\ text = MarkText(w)
TextNodes == {n \in Nodes : chapter.content[n] = "text"}
Reported(r) ==
    /\ r.node \in TextNodes
    /\ \E k \in DOMAIN chapter.matches[r.node] : r.match = chapter.matches[r.node][k]
    /\ \E w : IsWay(w, Parent(r.node)) /\ r.cfi = MatchText(w, r.node, r.match)
Hits(ids) == {r \in MatchOf(Writing(ids)) : Reported(r)}

\* All of this is a matter of the chapter.
LEMMA SameChapter ==
    ASSUME UNCHANGED chapter
    PROVE  /\ Nodes' = Nodes /\ Elements' = Elements /\ TextNodes' = TextNodes
           /\ \A n : Kids(n)' = Kids(n) /\ Parent(n)' = Parent(n)
           /\ \A w, n : IsWay(w, n)' <=> IsWay(w, n)
           /\ \A w : MarkText(w)' = MarkText(w)
           /\ \A ids : Frames(ids)' = Frames(ids) /\ Hits(ids)' = Hits(ids)
<1>1. Nodes' = Nodes
  BY DEF Nodes
<1>2. Elements' = Elements /\ TextNodes' = TextNodes
  BY <1>1 DEF Elements, TextNodes
<1>3. Base' = Base /\ BaseSteps' = BaseSteps
  BY DEF Base, BaseSteps
<1>4. \A n : Kids(n)' = Kids(n)
  BY DEF Kids
<1>5. \A n : Parent(n)' = Parent(n)
  BY <1>2 DEF Parent
<1>6. \A n : ChildElements(n)' = ChildElements(n)
  BY <1>2 DEF ChildElements
<1>7. \A n : ElementsBefore(n)' = ElementsBefore(n)
  BY <1>5, <1>6 DEF ElementsBefore
<1>8. \A n : IndexOf(n)' = IndexOf(n)
  BY <1>2, <1>7 DEF IndexOf
<1>9. \A n : StepTo(n)' = StepTo(n)
  BY <1>2, <1>8 DEF StepTo
<1>10. \A w : StepsOf(w)' = StepsOf(w)
  BY <1>9 DEF StepsOf
<1>11. \A w, n : IsWay(w, n)' <=> IsWay(w, n)
  BY <1>1, <1>5 DEF IsWay, Up
<1>12. \A w : MarkPath(w)' = MarkPath(w) /\ MarkText(w)' = MarkText(w)
  <2>1. \A w : MarkPath(w)' = MarkPath(w)
    BY <1>3, <1>10 DEF MarkPath
  <2>2. QED
    BY <2>1 DEF MarkText
<1>13. \A w, n, m : MatchText(w, n, m)' = MatchText(w, n, m)
  BY <1>8, <1>12 DEF MatchText
<1>14. \A f : Placed(f)' <=> Placed(f)
  BY <1>2, <1>6, <1>10, <1>11 DEF Placed
<1>15. \A r : Reported(r)' <=> Reported(r)
  BY <1>2, <1>5, <1>11, <1>13 DEF Reported
<1>16. \A ids : Frames(ids)' = Frames(ids)
  BY <1>1, <1>14 DEF Frames, FrameOf
<1>17. \A ids : Hits(ids)' = Hits(ids)
  BY <1>1, <1>15 DEF Hits, MatchOf
<1>18. QED
  BY <1>1, <1>2, <1>4, <1>5, <1>11, <1>12, <1>16, <1>17

\* What is written of an element that is entered.
LEMMA ElementSpelled ==
    ASSUME NEW ids, Readable(ids), WalkInv(ids), AtChild("element")
    PROVE  /\ Head(Top.rest) \in Elements
           /\ \E w : /\ IsWay(w, Head(Top.rest))
                     /\ ChildPath(Top.path, Top.child_index + 2, Head(Top.rest)) = PrintSteps(StepsOf(w))
                     /\ Wrap(Base \o PrintSteps(StepsOf(w))) = MarkText(w)
<1> DEFINE h == Head(Top.rest)
<1>1. Walking /\ Top.rest # << >> /\ chapter.content[h] = "element" /\ chapter \in Chapters
  BY DEF AtChild, WalkInv
<1>2. /\ h \in Nodes /\ Parent(h) = Top.node /\ Top.child_index = 2 * ElementsBefore(h)
      /\ Top \in Frames(ids)
  BY <1>1, NextOfWalk, TopOfWalk
<1>3. h \in Elements
  BY <1>1, <1>2 DEF Elements
<1>4. PICK w : IsWay(w, Top.node) /\ Top.path = PrintSteps(StepsOf(w))
  BY <1>2 DEF Frames, Placed
<1> HIDE DEF h
<1> DEFINE v == Append(w, h)
<1>5. IsWay(v, h) /\ StepsOf(v) = Append(StepsOf(w), StepTo(h))
  BY <1>1, <1>2, <1>4, WayExtends
<1>6. StepTo(h) = Step(Top.child_index + 2, chapter.id[h])
  <2>1. ElementsBefore(h) \in Nat
    BY <1>1, <1>2, CountTyped
  <2>2. IndexOf(h) = Top.child_index + 2
    BY <1>2, <1>3, <2>1 DEF IndexOf
  <2>3. QED
    BY <1>3, <2>2 DEF StepTo
<1>7. StepsOf(w) \in Seq(StepOf(ids)) /\ StepTo(h) \in StepOf(ids) /\ StepsOf(v) \in Seq(StepOf(ids))
  <2>1. StepsOf(w) \in Seq(StepOf(ids)) /\ StepsOf(v) \in Seq(StepOf(ids))
    BY <1>1, <1>4, <1>5, WaySteps
  <2>2. Len(StepsOf(v)) = Len(StepsOf(w)) + 1 /\ StepsOf(v)[Len(StepsOf(w)) + 1] = StepTo(h)
    BY <1>5, <2>1
  <2>3. Len(StepsOf(w)) + 1 \in 1..Len(StepsOf(v))
    BY <2>1, <2>2
  <2>4. StepTo(h) \in StepOf(ids)
    BY <2>1, <2>2, <2>3
  <2>5. QED
    BY <2>1, <2>4
<1>8. ChildPath(Top.path, Top.child_index + 2, h) = PrintSteps(StepsOf(v))
  <2>1. Unescaped(ids)
    BY DEF Readable
  <2>2. PrintSteps(Append(StepsOf(w), StepTo(h))) = PrintSteps(StepsOf(w)) \o PrintStep(StepTo(h))
    BY <1>7, <2>1, StepAppended
  <2>3. ChildPath(Top.path, Top.child_index + 2, h) = PrintSteps(StepsOf(w)) \o PrintStep(StepTo(h))
    BY <1>4, <1>6 DEF ChildPath
  <2>4. QED
    BY <1>5, <2>2, <2>3
<1>9. Wrap(Base \o PrintSteps(StepsOf(v))) = MarkText(v)
  <2>1. Base \o PrintSteps(StepsOf(v)) = PrintPath(Path(BaseSteps, StepsOf(v), Absent))
    BY <1>1, <1>7, MarkSpelled
  <2>2. QED
    BY <2>1 DEF MarkText, MarkPath
<1> HIDE DEF v
<1>10. QED
  BY <1>3, <1>5, <1>8, <1>9 DEF h

\* What is written of the matches in a text.
LEMMA TextSpelled ==
    ASSUME NEW ids, Readable(ids), WalkInv(ids), AtChild("text")
    PROVE  /\ Head(Top.rest) \in TextNodes /\ Head(Top.rest) \notin Elements
           /\ \E w : /\ IsWay(w, Parent(Head(Top.rest)))
                     /\ \A match : match[1] \in Nat /\ match[2] \in Nat =>
                          MatchCfi(match) = MatchText(w, Head(Top.rest), match)
<1> DEFINE h == Head(Top.rest)
<1>1. Walking /\ Top.rest # << >> /\ chapter.content[h] = "text" /\ chapter \in Chapters
  BY DEF AtChild, WalkInv
<1>2. /\ h \in Nodes /\ Parent(h) = Top.node /\ Top.child_index = 2 * ElementsBefore(h)
      /\ Top \in Frames(ids)
  BY <1>1, NextOfWalk, TopOfWalk
<1>3. h \in TextNodes /\ h \notin Elements
  BY <1>1, <1>2 DEF Elements, TextNodes
<1>4. PICK w : IsWay(w, Top.node) /\ Top.path = PrintSteps(StepsOf(w))
  BY <1>2 DEF Frames, Placed
<1> HIDE DEF h
<1>5. IndexOf(h) = Top.child_index + 1 /\ Top.child_index \in Nat
  <2>1. ElementsBefore(h) \in Nat
    BY <1>1, <1>2, CountTyped
  <2>2. QED
    BY <1>2, <1>3, <2>1 DEF IndexOf
<1>6. StepsOf(w) \in Seq(StepOf(ids))
  BY <1>1, <1>4, WaySteps
<1>7. ASSUME NEW match, match[1] \in Nat, match[2] \in Nat
      PROVE  MatchCfi(match) = MatchText(w, h, match)
  <2>1. MatchCfi(match) =
             Wrap(Joint(PrintPath(Path(BaseSteps, StepsOf(w), Absent)),
                        PrintPath(TextPath(Top.child_index + 1, match[1])),
                        PrintPath(TextPath(Top.child_index + 1, match[2]))))
    BY <1>1, <1>4, <1>5, <1>6, <1>7, MatchSpelled
  <2>2. QED
    BY <1>5, <2>1 DEF MatchText, MarkPath
<1>8. QED
  BY <1>2, <1>3, <1>4, <1>7 DEF h

\* What the walk has left behind.
Done == Visited(Pended(walk))

\* The walk goes on with another stack.
LEMMA WalkCarried ==
    ASSUME UNCHANGED <<chapter, mode>>, NEW ids, WalkInv(ids), NEW stack, walk' = stack,
           stack \in Seq(Frames(ids)), Stacked(stack), Frontier(Pended(stack))
    PROVE  WalkInv(ids)' /\ Done' = Visited(Pended(stack))
<1>1. /\ Nodes' = Nodes /\ Frames(ids)' = Frames(ids)
      /\ \A n : Parent(n)' = Parent(n)
  BY SameChapter
<1>2. Stacked(walk)'
  BY <1>1 DEF Stacked
<1>3. Pended(walk)' = Pended(stack)
  BY DEF Pended
<1>4. Done' = Visited(Pended(stack))
  BY <1>1, <1>3 DEF Done, Visited
<1>5. Frontier(Pended(walk))'
  BY <1>1, <1>3 DEF Frontier, Visited
<1>6. QED
  BY <1>1, <1>2, <1>4, <1>5 DEF WalkInv

\* The marks are those of the elements the walk has left behind.
MarksInv ==
    /\ DOMAIN marks = (IF mode = "inject" THEN Elements \cap Done ELSE {})
    /\ \A n \in DOMAIN marks : MarkedAt(n, marks[n])

\* So are the matches found, in the order of the document.
Precedes(a, b) == a.node < b.node \/ (a.node = b.node /\ a.match[1] < b.match[1])
FoundInv(ids) ==
    /\ found \in Seq(Hits(ids))
    /\ \A i \in DOMAIN found : found[i].node \in Done
    /\ \A i, j \in DOMAIN found : j < i => Precedes(found[j], found[i])
    /\ mode = "search" =>
         \A n \in TextNodes \cap Done : \A k \in DOMAIN chapter.matches[n] :
           \E i \in DOMAIN found : found[i].node = n /\ found[i].match = chapter.matches[n][k]

\* What is held was read from it or from bookmarks.
HeldCfi(ids) ==
    [text : Seq(Writing(ids) \cup {"^"}),
     cfi : {c \in CfiOf(ids) : CanonicalCfi(ids, c)} \cup {Malformed}]
HeldInv(ids) == held \in Seq(HeldCfi(ids)) /\ Len(held) <= MaxHeld
CfiInv(ids) == WalkInv(ids) /\ MarksInv /\ FoundInv(ids) /\ HeldInv(ids)

\* At the start the children of the root are to be done, and nothing is.
LEMMA CfiInit ==
    ASSUME NEW ids, Readable(ids), Init
    PROVE  CfiInv(ids)
<1>1. /\ chapter \in Chapters /\ mode \in {"inject", "search"} /\ walk = <<Frame(0, << >>)>>
      /\ marks = << >> /\ found = << >> /\ held = << >>
  BY DEF Init
<1> DEFINE S == Frames(ids)
           f == Frame(0, << >>)
           none == << >>
<1>2. f \in S /\ ToSet(f.rest) = Kids(0)
  <2>1. IsWay(<< >>, 0) /\ StepsOf(<< >>) = << >>
    BY NoWay
  <2>2. PrintSteps(<< >>) = << >>
    <3>1. Step(6, Absent) \in StepOf(ids)
      BY DEF Step, StepOf
    <3>2. QED
      BY <3>1, StepAlone DEF Readable
  <2>3. 0 \in Elements \cup {0}
    OBVIOUS
  <2>4. /\ Frame(0, PrintSteps(StepsOf(<< >>))) \in Frames(ids)
        /\ ToSet(Frame(0, PrintSteps(StepsOf(<< >>))).rest) = Kids(0)
    BY <1>1, <2>1, <2>3, NewFrame
  <2>5. QED
    BY <2>1, <2>2, <2>4
<1> HIDE DEF S, f
<1>3. none \in Seq(S) /\ DOMAIN none = {} /\ Len(none) = 0
  OBVIOUS
<1>4. walk = <<f>> \o none
  <2>1. <<f>> \o << >> = <<f>>
    BY <1>2
  <2>2. QED
    BY <1>1, <2>1 DEF f
<1>5. Pended(none) = {} /\ Stacked(none)
  BY <1>3 DEF Pended, Stacked
<1>6. <<f>> \o none \in Seq(S)
  BY <1>2, <1>3, Pushed
<1>7. Pended(<<f>> \o none) = ToSet(f.rest) \cup Pended(none)
  BY <1>2, <1>3, StackPushed
<1>8. Stacked(<<f>> \o none)
  <2>1. Stacked(<<f>> \o none) <=>
                /\ Stacked(none) /\ (none # << >> => Parent(f.node) = none[1].node)
                /\ \A c \in ToSet(f.rest) : \A d \in Pended(none) : c < d
    BY <1>2, <1>3, StackPushed
  <2>2. QED
    BY <1>5, <2>1
<1>9. Frontier(Kids(0)) /\ Visited(Kids(0)) = {}
  BY <1>1, FirstFrontier
<1>10. WalkInv(ids) /\ Done = {}
  <2>1. Pended(walk) = Kids(0)
    BY <1>2, <1>4, <1>5, <1>7
  <2>2. walk \in Seq(Frames(ids)) /\ Stacked(walk)
    BY <1>4, <1>6, <1>8 DEF S
  <2>3. QED
    BY <1>1, <1>9, <2>1, <2>2 DEF WalkInv, Done
<1>11. MarksInv
  <2>1. DOMAIN marks = {}
    BY <1>1
  <2>2. QED
    BY <1>10, <2>1 DEF MarksInv
<1>12. FoundInv(ids)
  <2>1. DOMAIN found = {} /\ found \in Seq(Hits(ids))
    BY <1>1
  <2>2. QED
    BY <1>10, <2>1 DEF FoundInv
<1>13. HeldInv(ids)
  <2>1. held \in Seq(HeldCfi(ids)) /\ Len(held) = 0
    BY <1>1
  <2>2. QED
    BY <2>1, MaxHeldAssumption DEF HeldInv
<1>14. QED
  BY <1>10, <1>11, <1>12, <1>13 DEF CfiInv

\* The walk goes on to the next node, and leaves it behind.
LEMMA NextVisited ==
    ASSUME NEW ids, WalkInv(ids), Walking, Top.rest # << >>, UNCHANGED <<chapter, mode>>,
           Visits(ids, Head(Top.rest), walk')
    PROVE  /\ WalkInv(ids)' /\ Done' = Done \cup {Head(Top.rest)}
           /\ Head(Top.rest) \in Nodes \ Done /\ \A n \in Done : n < Head(Top.rest)
<1> DEFINE h == Head(Top.rest)
<1>1. h \in Nodes /\ h \notin Done /\ \A n \in Done : n < h
  BY NextOfWalk DEF Done
<1>2. /\ walk' \in Seq(Frames(ids)) /\ Stacked(walk') /\ Frontier(Pended(walk'))
      /\ Visited(Pended(walk')) = Done \cup {h}
  BY DEF Visits, Done
<1> HIDE DEF h
<1>3. PICK stack : stack = walk'
  OBVIOUS
<1>4. /\ stack \in Seq(Frames(ids)) /\ Stacked(stack) /\ Frontier(Pended(stack))
      /\ Visited(Pended(stack)) = Done \cup {h}
  BY <1>2, <1>3
<1>5. WalkInv(ids)' /\ Done' = Visited(Pended(stack))
  BY <1>3, <1>4, WalkCarried
<1>6. QED
  BY <1>1, <1>4, <1>5 DEF h

\* Marks and matches stay as they are when none are added.
LEMMA MarksKept ==
    ASSUME UNCHANGED <<chapter, mode, marks>>, MarksInv, Elements \cap Done' = Elements \cap Done
    PROVE  MarksInv'
<1>1. Elements' = Elements /\ (\A w, n : IsWay(w, n)' <=> IsWay(w, n)) /\ (\A w : MarkText(w)' = MarkText(w))
  BY SameChapter
<1>2. \A n \in DOMAIN marks' : MarkedAt(n, marks[n])'
  BY <1>1 DEF MarksInv, MarkedAt
<1>3. DOMAIN marks' = (IF mode' = "inject" THEN Elements' \cap Done' ELSE {})
  BY <1>1 DEF MarksInv
<1>4. QED
  BY <1>2, <1>3 DEF MarksInv

\* The matches stay while no text is passed.
LEMMA FoundKept ==
    ASSUME NEW ids, UNCHANGED <<chapter, mode, found>>, FoundInv(ids), Done \subseteq Done',
           mode = "search" => TextNodes \cap Done' = TextNodes \cap Done
    PROVE  FoundInv(ids)'
<1>1. TextNodes' = TextNodes /\ Hits(ids)' = Hits(ids)
  BY SameChapter
<1>2. QED
  BY <1>1 DEF FoundInv, Precedes

\* What is held stays.
LEMMA HeldKept ==
    ASSUME NEW ids, UNCHANGED held, HeldInv(ids)
    PROVE  HeldInv(ids)'
BY DEF HeldInv

\* An element is entered.
LEMMA EnterStep ==
    ASSUME NEW ids, Readable(ids), CfiInv(ids), EnterElement
    PROVE  CfiInv(ids)'
<1> DEFINE h == Head(Top.rest)
           index == Top.child_index + 2
           path == ChildPath(Top.path, index, h)
<1>1. /\ AtChild("element") /\ UNCHANGED <<chapter, mode, found, held>>
      /\ walk' = <<Frame(h, path), [Skip EXCEPT !.child_index = index]>> \o Tail(walk)
      /\ marks' = IF mode # "inject" THEN marks
                  ELSE [n \in DOMAIN marks \cup {h} |-> IF n = h THEN Wrap(Base \o path) ELSE marks[n]]
  BY DEF EnterElement
<1>2. WalkInv(ids) /\ MarksInv /\ FoundInv(ids) /\ HeldInv(ids)
  BY DEF CfiInv
<1>3. Walking /\ Top.rest # << >>
  BY <1>1 DEF AtChild
<1>4. PICK w : /\ IsWay(w, h) /\ path = PrintSteps(StepsOf(w))
               /\ Wrap(Base \o PrintSteps(StepsOf(w))) = MarkText(w)
  BY <1>1, <1>2, ElementSpelled
<1>5. h \in Elements
  BY <1>1, <1>2, ElementSpelled
<1>6. Visits(ids, h, walk')
  <2>1. Visits(ids, h, <<Frame(h, PrintSteps(StepsOf(w))),
                         [Skip EXCEPT !.child_index = Top.child_index + 2]>> \o Tail(walk))
    BY <1>2, <1>3, <1>4, <1>5, Entering
  <2>2. QED
    BY <1>1, <1>4, <2>1
<1>7. /\ WalkInv(ids)' /\ Done' = Done \cup {h}
      /\ h \in Nodes \ Done
  BY <1>1, <1>2, <1>3, <1>6, NextVisited
<1>8. Elements' = Elements /\ (\A v, n : IsWay(v, n)' <=> IsWay(v, n)) /\ (\A v : MarkText(v)' = MarkText(v))
  BY <1>1, SameChapter
<1> HIDE DEF path, index, h
<1>9. MarksInv'
  <2>1. CASE mode # "inject"
    <3>1. DOMAIN marks' = {}
      BY <1>1, <1>2, <2>1 DEF MarksInv
    <3>2. QED
      BY <1>1, <2>1, <3>1 DEF MarksInv
  <2>2. CASE mode = "inject"
    <3>1. marks' = [n \in DOMAIN marks \cup {h} |-> IF n = h THEN MarkText(w) ELSE marks[n]]
      BY <1>1, <1>4, <2>2
    <3>2. DOMAIN marks' = Elements \cap Done'
      BY <1>2, <1>5, <1>7, <2>2, <3>1 DEF MarksInv
    <3>3. ASSUME NEW n \in DOMAIN marks'
          PROVE  MarkedAt(n, marks[n])'
      <4>1. CASE n = h
        <5>1. marks'[n] = MarkText(w)
          BY <3>1, <3>3, <4>1
        <5>2. QED
          BY <1>4, <1>8, <4>1, <5>1 DEF MarkedAt
      <4>2. CASE n # h
        <5>1. n \in DOMAIN marks /\ marks'[n] = marks[n]
          BY <3>1, <3>3, <4>2
        <5>2. MarkedAt(n, marks[n])
          BY <1>2, <5>1 DEF MarksInv
        <5>3. QED
          BY <1>8, <5>1, <5>2 DEF MarkedAt
      <4>3. QED
        BY <4>1, <4>2
    <3>4. QED
      BY <1>1, <1>8, <2>2, <3>2, <3>3 DEF MarksInv
  <2>3. QED
    BY <2>1, <2>2
<1>10. FoundInv(ids)'
  <2>1. h \notin TextNodes
    BY <1>5 DEF TextNodes, Elements
  <2>2. Done \subseteq Done' /\ TextNodes \cap Done' = TextNodes \cap Done
    BY <1>7, <2>1
  <2>3. QED
    BY <1>1, <1>2, <2>2, FoundKept
<1>11. HeldInv(ids)'
  BY <1>1, <1>2, HeldKept
<1>12. QED
  BY <1>7, <1>9, <1>10, <1>11 DEF CfiInv

\* A comment is passed.
LEMMA PassStep ==
    ASSUME NEW ids, Readable(ids), CfiInv(ids), PassComment
    PROVE  CfiInv(ids)'
<1> DEFINE h == Head(Top.rest)
<1>1. AtChild("comment") /\ UNCHANGED <<chapter, mode, marks, found, held>> /\ walk' = <<Skip>> \o Tail(walk)
  BY DEF PassComment
<1>2. WalkInv(ids) /\ MarksInv /\ FoundInv(ids) /\ HeldInv(ids)
  BY DEF CfiInv
<1>3. Walking /\ Top.rest # << >> /\ chapter.content[h] = "comment"
  BY <1>1 DEF AtChild
<1>4. h \notin Elements /\ h \notin TextNodes
  BY <1>3 DEF Elements, TextNodes
<1>5. Visits(ids, h, walk')
  <2>1. Visits(ids, h, <<Skip>> \o Tail(walk))
    BY <1>2, <1>3, <1>4, Passing
  <2>2. QED
    BY <1>1, <2>1
<1>6. WalkInv(ids)' /\ Done' = Done \cup {h}
  BY <1>1, <1>2, <1>3, <1>5, NextVisited
<1> HIDE DEF h
<1>7. /\ Elements \cap Done' = Elements \cap Done /\ TextNodes \cap Done' = TextNodes \cap Done
      /\ Done \subseteq Done'
  BY <1>4, <1>6
<1>8. QED
  BY <1>1, <1>2, <1>6, <1>7, MarksKept, FoundKept, HeldKept DEF CfiInv

\* A node is left when all its children are done.
LEMMA LeaveStep ==
    ASSUME NEW ids, Readable(ids), CfiInv(ids), Leave
    PROVE  CfiInv(ids)'
<1>1. Walking /\ Top.rest = << >> /\ UNCHANGED <<chapter, mode, marks, found, held>> /\ walk' = Tail(walk)
  BY DEF Leave
<1>2. WalkInv(ids) /\ MarksInv /\ FoundInv(ids) /\ HeldInv(ids)
  BY DEF CfiInv
<1>3. /\ Tail(walk) \in Seq(Frames(ids)) /\ Stacked(Tail(walk))
      /\ Pended(walk) = ToSet(Top.rest) \cup Pended(Tail(walk))
  BY <1>1, <1>2, TopOfWalk
<1>4. Pended(Tail(walk)) = Pended(walk)
  <2>1. ToSet(Top.rest) = {}
    <3>1. DOMAIN Top.rest = {}
      BY <1>1
    <3>2. QED
      BY <3>1 DEF ToSet
  <2>2. QED
    BY <1>3, <2>1
<1> DEFINE stack == Tail(walk)
<1>5. stack \in Seq(Frames(ids)) /\ Stacked(stack) /\ Frontier(Pended(stack)) /\ Visited(Pended(stack)) = Done
  BY <1>2, <1>3, <1>4 DEF WalkInv, Done
<1> HIDE DEF stack
<1>6. WalkInv(ids)' /\ Done' = Done
  <2>1. walk' = stack /\ UNCHANGED <<chapter, mode>>
    BY <1>1 DEF stack
  <2>2. PICK s : s = stack
    OBVIOUS
  <2>3. /\ s \in Seq(Frames(ids)) /\ Stacked(s) /\ Frontier(Pended(s)) /\ Visited(Pended(s)) = Done
        /\ walk' = s
    BY <1>5, <2>1, <2>2
  <2>4. QED
    BY <1>2, <2>1, <2>3, WalkCarried
<1>7. QED
  BY <1>1, <1>2, <1>6, MarksKept, FoundKept, HeldKept DEF CfiInv

-----------------------------------------------------------------------------
\* Ranges, and the last steps.

\* What two lists begin with in common, and that they part after it.
LEMMA CommonPart ==
    ASSUME NEW chars, NEW s \in Seq(StepOf(chars)), NEW t \in Seq(StepOf(chars))
    PROVE  /\ CommonLen(s, t) \in Nat /\ CommonLen(s, t) \in 0..Len(s) /\ CommonLen(s, t) \in 0..Len(t)
           /\ \A i \in 1..CommonLen(s, t) : s[i].index = t[i].index
           /\ CommonLen(s, t) < Len(s) /\ CommonLen(s, t) < Len(t) =>
                s[CommonLen(s, t) + 1].index # t[CommonLen(s, t) + 1].index
<1> DEFINE Same(n) == \A i \in 1..n : s[i].index = t[i].index
           lengths == {n \in 0..Len(s) : n <= Len(t) /\ Same(n)}
           k == CommonLen(s, t)
<1>1. Len(s) \in Nat /\ Len(t) \in Nat /\ lengths \in SUBSET (0..Len(s))
  OBVIOUS
<1>2. 0 \in lengths
  BY <1>1
<1>3. k = Max(lengths)
  BY DEF CommonLen
<1>4. \E n \in lengths : \A i \in lengths : n >= i
  <2> HIDE DEF lengths
  <2>1. QED
    BY <1>1, <1>2, GreatestNumber
<1>5. k \in lengths /\ \A i \in lengths : k >= i
  <2> HIDE DEF lengths, k
  <2>1. QED
    BY <1>3, <1>4 DEF Max
<1>6. k \in 0..Len(s) /\ k <= Len(t) /\ Same(k)
  BY <1>5
<1> HIDE DEF k
<1>7. k \in Nat /\ k \in 0..Len(t)
  BY <1>1, <1>6
<1>8. ASSUME k < Len(s), k < Len(t), s[k + 1].index = t[k + 1].index
      PROVE  FALSE
  <2>1. Same(k + 1)
    <3>1. \A i \in 1..(k + 1) : i \in 1..k \/ i = k + 1
      BY <1>7
    <3>2. QED
      BY <1>6, <1>8, <3>1
  <2>2. k + 1 \in 0..Len(s) /\ k + 1 <= Len(t)
    BY <1>1, <1>7, <1>8
  <2>3. k + 1 \in lengths
    BY <2>1, <2>2
  <2> HIDE DEF lengths
  <2>4. k >= k + 1
    BY <1>5, <2>3
  <2>5. QED
    BY <1>7, <2>4
<1>9. QED
  BY <1>6, <1>7, <1>8 DEF k

\* The first steps of a list and the others.
LEMMA PartedAt ==
    ASSUME NEW S, NEW s \in Seq(S), NEW n \in 0..Len(s)
    PROVE  /\ SubSeq(s, 1, n) \in Seq(S) /\ Len(SubSeq(s, 1, n)) = n
           /\ \A i \in 1..n : SubSeq(s, 1, n)[i] = s[i]
           /\ After(s, n) \in Seq(S)
           /\ SubSeq(s, 1, n) \o After(s, n) = s
<1> DEFINE a == SubSeq(s, 1, n)
           b == After(s, n)
<1>1. Len(s) \in Nat /\ n \in Nat /\ n <= Len(s)
  OBVIOUS
<1>2. a \in Seq(S) /\ Len(a) = n /\ \A i \in 1..n : a[i] = s[i]
  <2>1. \A i \in 1..n : s[i] \in S
    BY <1>1
  <2>2. a = [i \in 1..n |-> s[i]]
    BY <1>1
  <2> HIDE DEF a
  <2>3. a \in [1..n -> S]
    BY <2>1, <2>2
  <2>4. QED
    BY <1>1, <2>2, <2>3
<1>3. b \in Seq(S) /\ Len(b) = Len(s) - n /\ \A i \in 1..(Len(s) - n) : b[i] = s[n + i]
  BY AfterFacts
<1> HIDE DEF a, b
<1>4. /\ a \o b \in Seq(S) /\ Len(a \o b) = Len(a) + Len(b)
      /\ \A i \in 1..Len(a) : (a \o b)[i] = a[i]
      /\ \A i \in 1..Len(b) : (a \o b)[Len(a) + i] = b[i]
  <2>1. a \in Seq(S) /\ b \in Seq(S)
    BY <1>2, <1>3
  <2>2. QED
    BY <2>1, Concatenated
<1> DEFINE u == a \o b
<1> HIDE DEF u
<1>5. u \in Seq(S) /\ Len(u) = Len(s)
  BY <1>1, <1>2, <1>3, <1>4 DEF u
<1>6. \A i \in 1..Len(u) : u[i] = s[i]
  <2>1. TAKE i \in 1..Len(u)
  <2>2. CASE i \in 1..n
    BY <1>2, <1>4, <2>2 DEF u
  <2>3. CASE i \notin 1..n
    <3> DEFINE j == i - n
    <3>1. j \in 1..(Len(s) - n) /\ n + j = i
      BY <1>1, <1>5, <2>3
    <3> HIDE DEF j
    <3>2. u[n + j] = s[n + j]
      BY <1>2, <1>3, <1>4, <3>1 DEF u
    <3>3. QED
      BY <3>1, <3>2
  <2>4. QED
    BY <2>2, <2>3
<1>7. u = s
  BY <1>5, <1>6, SeqEqual
<1>8. QED
  BY <1>2, <1>3, <1>7 DEF u, a, b

\* The three paths of the range of two points.
WithinDocument(s, e) ==
    CommonLen(s.steps, e.steps) = Len(s.steps) /\ CommonLen(s.steps, e.steps) = Len(e.steps)
SharedPath(s, e) ==
    Path(SubSeq(s.steps, 1, CommonLen(s.steps, e.steps)),
         IF WithinDocument(s, e)
         THEN SubSeq(LocalOf(s), 1, CommonLen(LocalOf(s), LocalOf(e))) ELSE Absent, Absent)
HalfPath(p, s, e) ==
    IF WithinDocument(s, e)
    THEN Path(After(LocalOf(p), CommonLen(LocalOf(s), LocalOf(e))), Absent, p.offset)
    ELSE Path(After(p.steps, CommonLen(s.steps, e.steps)), LocalOf(p), p.offset)
RangePaths(ids, s, e) ==
    /\ SharedPath(s, e) \in PathOf(ids) /\ Canonical(SharedPath(s, e))
    /\ HalfPath(s, s, e) \in PathOf(ids) /\ Canonical(HalfPath(s, s, e))
    /\ HalfPath(e, s, e) \in PathOf(ids) /\ Canonical(HalfPath(e, s, e))

\* Steps with a "!" between them, as a path of its own.
LEMMA LocalSpelled ==
    ASSUME NEW ids, Unescaped(ids), Apart(ids), NEW steps \in Seq(StepOf(ids)),
           NEW local \in Seq(StepOf(ids)), NEW offset \in Offset
    PROVE  /\ ((PrintSteps(steps) \o <<"!">>) \o PrintSteps(local)) \o PrintOffset(offset)
                = PrintPath(Path(steps, local, offset))
           /\ (PrintSteps(steps) \o <<"!">>) \o PrintSteps(local) = PrintPath(Path(steps, local, Absent))
           /\ PrintSteps(steps) \o PrintOffset(offset) = PrintPath(Path(steps, Absent, offset))
           /\ PrintSteps(steps) = PrintPath(Path(steps, Absent, Absent))
<1> DEFINE C == Writing(ids)
           a == PrintSteps(steps)
           b == PrintSteps(local)
           bang == <<"!">>
           none == << >>
           o == PrintOffset(offset)
<1>1. local # Absent /\ Absent \in Offset
  BY DEF Apart, Offset
<1>2. a \in Seq(C) /\ b \in Seq(C) /\ bang \in Seq(C) /\ none \in Seq(C)
  <2>1. a \in Seq(C) /\ b \in Seq(C)
    BY StepsKept DEF Kept
  <2>2. "!" \in C
    BY SignsWritten
  <2>3. QED
    BY <2>1, <2>2
<1>3. PrintOffset(Absent) = none
  BY DEF PrintOffset
<1>4. /\ PrintPath(Path(steps, local, offset)) = (a \o (bang \o b)) \o o
      /\ PrintPath(Path(steps, local, Absent)) = (a \o (bang \o b)) \o none
      /\ PrintPath(Path(steps, Absent, offset)) = (a \o none) \o o
      /\ PrintPath(Path(steps, Absent, Absent)) = (a \o none) \o none
  <2>1. \A l \in Seq(StepOf(ids)) \cup {Absent} : \A x \in Offset :
          PrintPath(Path(steps, l, x)) =
                (PrintSteps(steps) \o (IF l = Absent THEN << >> ELSE <<"!">> \o PrintSteps(l)))
                  \o PrintOffset(x)
    BY PlainPath
  <2>2. /\ PrintPath(Path(steps, local, offset)) =
             (PrintSteps(steps) \o (IF local = Absent THEN << >> ELSE <<"!">> \o PrintSteps(local))) \o PrintOffset(offset)
        /\ PrintPath(Path(steps, local, Absent)) =
             (PrintSteps(steps) \o (IF local = Absent THEN << >> ELSE <<"!">> \o PrintSteps(local))) \o PrintOffset(Absent)
        /\ PrintPath(Path(steps, Absent, offset)) =
             (PrintSteps(steps) \o (IF Absent = Absent THEN << >> ELSE <<"!">> \o PrintSteps(Absent))) \o PrintOffset(offset)
        /\ PrintPath(Path(steps, Absent, Absent)) =
             (PrintSteps(steps) \o (IF Absent = Absent THEN << >> ELSE <<"!">> \o PrintSteps(Absent))) \o PrintOffset(Absent)
    BY <1>1, <2>1
  <2>3. QED
    BY <1>1, <1>3, <2>2, Zenon
<1> HIDE DEF C, a, b, bang, none, o
<1>5. a \o (bang \o b) = (a \o bang) \o b
  <2>1. a \in Seq(C) /\ b \in Seq(C) /\ bang \in Seq(C)
    BY <1>2
  <2>2. QED
    BY <2>1, ThreeTexts
<1>6. (a \o bang) \o b \in Seq(C)
  BY <1>2, TextsJoined
<1>7. \A s \in Seq(C) : s \o none = s
  BY DEF none
<1>8. QED
  BY <1>2, <1>4, <1>5, <1>6, <1>7 DEF a, b, bang, none, o

\* generate_range writes these.
LEMMA RangeSpelled ==
    ASSUME NEW ids, Unescaped(ids), Apart(ids), NEW start, NEW end,
           CanonicalCfi(ids, start), CanonicalCfi(ids, end), start.kind = "point", end.kind = "point"
    PROVE  LET s == start.parent
               e == end.parent
           IN /\ RangePaths(ids, s, e)
              /\ GenerateRange(start, end) =
                   Wrap(Joint(PrintPath(SharedPath(s, e)), PrintPath(HalfPath(s, s, e)),
                              PrintPath(HalfPath(e, s, e))))
<1> DEFINE S == Seq(StepOf(ids))
           p == start.parent
           q == end.parent
<1>1. p \in PathOf(ids) /\ q \in PathOf(ids)
  BY DEF CanonicalCfi, CfiOf
<1>2. \A x \in {p, q} : x.steps \in S /\ LocalOf(x) \in S /\ x.offset \in Offset
  BY <1>1 DEF PathOf, LocalOf
<1> DEFINE base == CommonLen(p.steps, q.steps)
           local == CommonLen(LocalOf(p), LocalOf(q))
           sharedBase == PrintSteps(SubSeq(p.steps, 1, base))
           sharedLocal == PrintSteps(SubSeq(LocalOf(p), 1, local))
           bang == <<"!">>
           comma == <<Comma>>
           HalfOf(x) == PrintSteps(After(LocalOf(x), local)) \o PrintOffset(x.offset)
           FullOf(x) == ((PrintSteps(After(x.steps, base)) \o bang)
                         \o PrintSteps(LocalOf(x))) \o PrintOffset(x.offset)
           within == (((((sharedBase \o bang) \o sharedLocal) \o comma) \o HalfOf(p)) \o comma)
                       \o HalfOf(q)
           across == (((sharedBase \o comma) \o FullOf(p)) \o comma) \o FullOf(q)
<1>3. GenerateRange(start, end) =
         IF start.kind # "point" \/ end.kind # "point" THEN Absent
         ELSE Wrap(IF base = Len(p.steps) /\ base = Len(q.steps) THEN within ELSE across)
  BY Zenon DEF GenerateRange, Comma
<1>4. GenerateRange(start, end) = Wrap(IF WithinDocument(p, q) THEN within ELSE across)
  BY <1>3, Zenon DEF WithinDocument
<1> HIDE DEF S, p, q
<1>5. /\ base \in 0..Len(p.steps) /\ base \in 0..Len(q.steps)
      /\ local \in 0..Len(LocalOf(p)) /\ local \in 0..Len(LocalOf(q))
  <2>1. p.steps \in Seq(StepOf(ids)) /\ q.steps \in Seq(StepOf(ids))
    BY <1>2 DEF S
  <2>2. LocalOf(p) \in Seq(StepOf(ids)) /\ LocalOf(q) \in Seq(StepOf(ids))
    BY <1>2 DEF S
  <2>3. base \in 0..Len(p.steps) /\ base \in 0..Len(q.steps)
    BY <2>1, CommonPart
  <2>4. local \in 0..Len(LocalOf(p)) /\ local \in 0..Len(LocalOf(q))
    BY <2>2, CommonPart
  <2>5. QED
    BY <2>3, <2>4
<1> HIDE DEF base, local
<1>6. SubSeq(p.steps, 1, base) \in S /\ SubSeq(LocalOf(p), 1, local) \in S
  BY <1>2, <1>5, PartedAt DEF S
<1>7. /\ After(p.steps, base) \in S /\ After(q.steps, base) \in S
      /\ After(LocalOf(p), local) \in S /\ After(LocalOf(q), local) \in S
  BY <1>2, <1>5, PartedAt DEF S
<1>8. Absent \in Offset
  BY DEF Offset
<1>9. \A x \in {p, q} :
        /\ HalfOf(x) = PrintPath(Path(After(LocalOf(x), local), Absent, x.offset))
        /\ FullOf(x) = PrintPath(Path(After(x.steps, base), LocalOf(x), x.offset))
        /\ Path(After(LocalOf(x), local), Absent, x.offset) \in PathOf(ids)
        /\ Canonical(Path(After(LocalOf(x), local), Absent, x.offset))
        /\ Path(After(x.steps, base), LocalOf(x), x.offset) \in PathOf(ids)
        /\ Canonical(Path(After(x.steps, base), LocalOf(x), x.offset))
  <2>1. TAKE x \in {p, q}
  <2>2. After(LocalOf(x), local) \in S /\ After(x.steps, base) \in S /\ LocalOf(x) \in S /\ x.offset \in Offset
    BY <1>2, <1>7
  <2>3. /\ HalfOf(x) = PrintPath(Path(After(LocalOf(x), local), Absent, x.offset))
        /\ FullOf(x) = PrintPath(Path(After(x.steps, base), LocalOf(x), x.offset))
    BY <2>2, LocalSpelled DEF S
  <2>4. /\ Path(After(LocalOf(x), local), Absent, x.offset) \in PathOf(ids)
        /\ Canonical(Path(After(LocalOf(x), local), Absent, x.offset))
        /\ Path(After(x.steps, base), LocalOf(x), x.offset) \in PathOf(ids)
        /\ Canonical(Path(After(x.steps, base), LocalOf(x), x.offset))
    BY <2>2, PlainPath DEF S
  <2>5. QED
    BY <2>3, <2>4
<1>10. /\ (sharedBase \o bang) \o sharedLocal
            = PrintPath(Path(SubSeq(p.steps, 1, base), SubSeq(LocalOf(p), 1, local), Absent))
       /\ sharedBase = PrintPath(Path(SubSeq(p.steps, 1, base), Absent, Absent))
  BY <1>6, <1>8, LocalSpelled DEF S
<1>11. /\ Path(SubSeq(p.steps, 1, base), SubSeq(LocalOf(p), 1, local), Absent) \in PathOf(ids)
       /\ Canonical(Path(SubSeq(p.steps, 1, base), SubSeq(LocalOf(p), 1, local), Absent))
       /\ Path(SubSeq(p.steps, 1, base), Absent, Absent) \in PathOf(ids)
       /\ Canonical(Path(SubSeq(p.steps, 1, base), Absent, Absent))
  BY <1>6, <1>8, PlainPath DEF S
<1>12. CASE WithinDocument(p, q)
  <2>1. /\ SharedPath(p, q) = Path(SubSeq(p.steps, 1, base), SubSeq(LocalOf(p), 1, local), Absent)
        /\ \A x : HalfPath(x, p, q) = Path(After(LocalOf(x), local), Absent, x.offset)
    BY <1>12 DEF SharedPath, HalfPath, base, local
  <2>2. RangePaths(ids, p, q)
    BY <1>9, <1>11, <2>1 DEF RangePaths
  <2>3. within = Joint(PrintPath(SharedPath(p, q)), PrintPath(HalfPath(p, p, q)), PrintPath(HalfPath(q, p, q)))
    BY <1>9, <1>10, <2>1, Zenon DEF Joint
  <2>4. QED
    BY <1>4, <1>12, <2>2, <2>3 DEF p, q
<1>13. CASE ~WithinDocument(p, q)
  <2>1. /\ SharedPath(p, q) = Path(SubSeq(p.steps, 1, base), Absent, Absent)
        /\ \A x : HalfPath(x, p, q) = Path(After(x.steps, base), LocalOf(x), x.offset)
    BY <1>13 DEF SharedPath, HalfPath, base, local
  <2>2. RangePaths(ids, p, q)
    BY <1>9, <1>11, <2>1 DEF RangePaths
  <2>3. across = Joint(PrintPath(SharedPath(p, q)), PrintPath(HalfPath(p, p, q)), PrintPath(HalfPath(q, p, q)))
    BY <1>9, <1>10, <2>1, Zenon DEF Joint
  <2>4. QED
    BY <1>4, <1>13, <2>2, <2>3 DEF p, q
<1>14. QED
  BY <1>12, <1>13

\* Points and ranges of canonical paths are canonical.
LEMMA MadeCanonical ==
    ASSUME NEW ids, NEW p \in PathOf(ids), NEW s \in PathOf(ids), NEW e \in PathOf(ids),
           Canonical(p), Canonical(s), Canonical(e)
    PROVE  CanonicalCfi(ids, Point(p)) /\ CanonicalCfi(ids, RangeOf(p, s, e))
<1>1. CanonicalCfi(ids, Point(p))
  <2> DEFINE c == Point(p)
  <2>1. c \in CfiOf(ids) /\ c.kind = "point" /\ c.parent = p /\ c.start = p /\ c.end = p
    BY DEF Point, CfiOf
  <2> HIDE DEF c
  <2>2. CanonicalCfi(ids, c)
    BY <2>1 DEF CanonicalCfi
  <2>3. QED
    BY <2>2 DEF c
<1>2. CanonicalCfi(ids, RangeOf(p, s, e))
  <2> DEFINE c == RangeOf(p, s, e)
  <2>1. c \in CfiOf(ids) /\ c.kind = "range" /\ c.parent = p /\ c.start = s /\ c.end = e
    BY DEF RangeOf, CfiOf
  <2> HIDE DEF c
  <2>2. CanonicalCfi(ids, c)
    BY <2>1 DEF CanonicalCfi
  <2>3. QED
    BY <2>2 DEF c
<1>3. QED
  BY <1>1, <1>2

\* A joint of texts is a text.
LEMMA JointWritten ==
    ASSUME NEW ids, NEW a \in Seq(Writing(ids)), NEW b \in Seq(Writing(ids)), NEW d \in Seq(Writing(ids))
    PROVE  Wrap(a) \in Seq(Writing(ids)) /\ Wrap(Joint(a, b, d)) \in Seq(Writing(ids))
<1> DEFINE C == Writing(ids)
           comma == <<Comma>>
<1>1. Punctuation \subseteq C /\ comma \in Seq(C)
  BY SignsWritten
<1> HIDE DEF C, comma
<1>2. a \in Seq(C) /\ b \in Seq(C) /\ d \in Seq(C)
  BY DEF C
<1>3. a \o comma \in Seq(C)
  BY <1>1, <1>2, TextsJoined
<1>4. (a \o comma) \o b \in Seq(C)
  BY <1>2, <1>3, TextsJoined
<1>5. ((a \o comma) \o b) \o comma \in Seq(C)
  BY <1>1, <1>4, TextsJoined
<1>6. (((a \o comma) \o b) \o comma) \o d \in Seq(C)
  BY <1>2, <1>5, TextsJoined
<1>7. Joint(a, b, d) \in Seq(C)
  BY <1>6 DEF Joint, comma
<1>8. Wrap(a) \in Seq(C) /\ Wrap(Joint(a, b, d)) \in Seq(C)
  BY <1>1, <1>2, <1>7, Wrapped
<1>9. QED
  BY <1>8 DEF C

\* What is read of a mark, and of a match.
LEMMA MarkRead ==
    ASSUME NEW ids, Readable(ids), chapter \in Chapters, NEW n, NEW w, IsWay(w, n)
    PROVE  /\ MarkPath(w) \in PathOf(ids) /\ Canonical(MarkPath(w))
           /\ MarkText(w) \in Seq(Writing(ids)) /\ ParseCfi(MarkText(w)) = Point(MarkPath(w))
           /\ PrintPath(MarkPath(w)) \in Seq(Writing(ids))
<1>1. Unescaped(ids) /\ Apart(ids) /\ Absent \in Offset
  BY DEF Readable, Offset
<1>2. BaseSteps \in Seq(StepOf(ids)) /\ StepsOf(w) \in Seq(StepOf(ids))
  BY BaseSpelled, WaySteps
<1>3. /\ MarkPath(w) \in PathOf(ids) /\ Canonical(MarkPath(w))
      /\ PrintPath(MarkPath(w)) \in Seq(Writing(ids))
  BY <1>1, <1>2, PlainPath DEF MarkPath
<1>4. MarkText(w) \in Seq(Writing(ids))
  BY <1>3, JointWritten DEF MarkText
<1>5. ParseCfi(MarkText(w)) = Point(MarkPath(w))
  BY <1>1, <1>3, PointReadBack DEF MarkText
<1>6. QED
  BY <1>3, <1>4, <1>5

\* The range of a match is read back as it was meant.
LEMMA MatchRead ==
    ASSUME NEW ids, Readable(ids), chapter \in Chapters, NEW n, NEW w, IsWay(w, n), NEW node \in Nodes,
           NEW match, match[1] \in Nat, match[2] \in Nat
    PROVE  /\ \A offset \in Nat : /\ TextPath(IndexOf(node), offset) \in PathOf(ids)
                                  /\ Canonical(TextPath(IndexOf(node), offset))
           /\ MatchText(w, node, match) \in Seq(Writing(ids))
           /\ ParseCfi(MatchText(w, node, match)) =
                RangeOf(MarkPath(w), TextPath(IndexOf(node), match[1]), TextPath(IndexOf(node), match[2]))
<1>1. Unescaped(ids) /\ Apart(ids)
  BY DEF Readable
<1>2. \A offset \in Nat : /\ TextPath(IndexOf(node), offset) \in PathOf(ids)
                          /\ Canonical(TextPath(IndexOf(node), offset))
                          /\ PrintPath(TextPath(IndexOf(node), offset)) \in Seq(Writing(ids))
  <2>1. TAKE offset \in Nat
  <2> DEFINE i == IndexOf(node)
             step == Step(i, Absent)
  <2>2. i \in Nat
    BY CountTyped
  <2> HIDE DEF i
  <2>3. step \in StepOf(ids)
    BY <2>2 DEF Step, StepOf
  <2> HIDE DEF step
  <2>4. <<step>> \in Seq(StepOf(ids)) /\ offset \in Offset
    BY <2>3 DEF Offset
  <2>5. /\ Path(<<step>>, Absent, offset) \in PathOf(ids) /\ Canonical(Path(<<step>>, Absent, offset))
        /\ PrintPath(Path(<<step>>, Absent, offset)) \in Seq(Writing(ids))
    BY <1>1, <2>4, PlainPath
  <2>6. QED
    BY <2>5 DEF TextPath, step, i
<1> DEFINE s == TextPath(IndexOf(node), match[1])
           e == TextPath(IndexOf(node), match[2])
<1>3. /\ s \in PathOf(ids) /\ Canonical(s) /\ PrintPath(s) \in Seq(Writing(ids))
      /\ e \in PathOf(ids) /\ Canonical(e) /\ PrintPath(e) \in Seq(Writing(ids))
  BY <1>2
<1> HIDE DEF s, e
<1>4. MatchText(w, node, match) = Wrap(Joint(PrintPath(MarkPath(w)), PrintPath(s), PrintPath(e)))
  BY DEF MatchText, s, e
<1>5. /\ MarkPath(w) \in PathOf(ids) /\ Canonical(MarkPath(w))
      /\ PrintPath(MarkPath(w)) \in Seq(Writing(ids))
  BY MarkRead
<1>6. MatchText(w, node, match) \in Seq(Writing(ids))
  BY <1>3, <1>4, <1>5, JointWritten
<1>7. ParseCfi(MatchText(w, node, match)) = RangeOf(MarkPath(w), s, e)
  BY <1>1, <1>3, <1>4, <1>5, RangeReadBack
<1>8. QED
  BY <1>2, <1>6, <1>7 DEF s, e

\* The matches in a text go from left to right.
LEMMA MatchesRise ==
    ASSUME chapter \in Chapters, NEW n \in Nodes
    PROVE  /\ chapter.matches[n] \in Seq(Nat \X Nat) /\ Len(chapter.matches[n]) \in Nat
           /\ DOMAIN chapter.matches[n] = 1..Len(chapter.matches[n])
           /\ \A i \in DOMAIN chapter.matches[n] :
                /\ chapter.matches[n][i] \in Nat \X Nat /\ chapter.matches[n][i][1] <= chapter.matches[n][i][2]
                /\ chapter.matches[n][i][1] \in Nat /\ chapter.matches[n][i][2] \in Nat
                /\ \A j \in DOMAIN chapter.matches[n] :
                     j < i => chapter.matches[n][j][1] < chapter.matches[n][i][1]
<1> DEFINE ms == chapter.matches[n]
<1>1. IsChapter(chapter) /\ IsSearched(chapter)
  BY ChaptersAssumption
<1>2. ms \in Seq(Nat \X Nat)
  BY <1>1 DEF IsChapter, Nodes
<1>3. \A i \in DOMAIN ms : ms[i][1] <= ms[i][2] /\ \A j \in 1..(i - 1) : ms[j][1] < ms[i][1]
  BY <1>1 DEF IsSearched, Nodes
<1> HIDE DEF ms
<1>4. Len(ms) \in Nat /\ DOMAIN ms = 1..Len(ms) /\ \A i \in DOMAIN ms : ms[i] \in Nat \X Nat
  BY <1>2
<1>5. \A i, j \in DOMAIN ms : j < i => j \in 1..(i - 1)
  BY <1>4
<1>6. \A i \in DOMAIN ms : ms[i][1] \in Nat /\ ms[i][2] \in Nat
  BY <1>4
<1>7. QED
  BY <1>2, <1>3, <1>4, <1>5, <1>6 DEF ms

\* A text is searched.
LEMMA SearchStep ==
    ASSUME NEW ids, Readable(ids), CfiInv(ids), VisitText
    PROVE  CfiInv(ids)'
<1> DEFINE h == Head(Top.rest)
           ms == chapter.matches[h]
           hits == [i \in DOMAIN ms |-> [node |-> h, match |-> ms[i], cfi |-> MatchCfi(ms[i])]]
<1>1. /\ AtChild("text") /\ UNCHANGED <<chapter, mode, marks, held>>
      /\ walk' = <<Skip>> \o Tail(walk)
      /\ found' = IF mode # "search" THEN found ELSE found \o hits
  BY DEF VisitText
<1>2. WalkInv(ids) /\ MarksInv /\ FoundInv(ids) /\ HeldInv(ids)
  BY DEF CfiInv
<1>3. Walking /\ Top.rest # << >> /\ chapter \in Chapters
  BY <1>1, <1>2 DEF AtChild, WalkInv
<1>4. h \in TextNodes /\ h \notin Elements
  BY <1>1, <1>2, TextSpelled
<1>5. PICK w : /\ IsWay(w, Parent(h))
               /\ \A match : match[1] \in Nat /\ match[2] \in Nat => MatchCfi(match) = MatchText(w, h, match)
  BY <1>1, <1>2, TextSpelled
<1>6. Visits(ids, h, walk')
  <2>1. Visits(ids, h, <<Skip>> \o Tail(walk))
    BY <1>2, <1>3, <1>4, Passing
  <2>2. QED
    BY <1>1, <2>1
<1>7. WalkInv(ids)' /\ Done' = Done \cup {h} /\ h \in Nodes \ Done /\ \A n \in Done : n < h
  BY <1>1, <1>2, <1>3, <1>6, NextVisited
<1>8. MarksInv' /\ HeldInv(ids)'
  <2>1. Elements \cap Done' = Elements \cap Done
    BY <1>4, <1>7
  <2>2. QED
    BY <1>1, <1>2, <2>1, MarksKept, HeldKept
<1> HIDE DEF h
<1>9. /\ ms \in Seq(Nat \X Nat) /\ Len(ms) \in Nat /\ DOMAIN ms = 1..Len(ms)
      /\ \A i \in 1..Len(ms) :
           /\ ms[i] \in Nat \X Nat /\ ms[i][1] \in Nat /\ ms[i][2] \in Nat
           /\ \A j \in 1..Len(ms) : j < i => ms[j][1] < ms[i][1]
  BY <1>3, <1>7, MatchesRise
<1> HIDE DEF ms
<1>10. /\ DOMAIN hits = 1..Len(ms)
       /\ \A i \in 1..Len(ms) : /\ hits[i].node = h /\ hits[i].match = ms[i]
                                /\ hits[i].cfi = MatchText(w, h, ms[i])
                                /\ hits[i] = [node |-> h, match |-> ms[i], cfi |-> MatchText(w, h, ms[i])]
  <2>1. \A i \in 1..Len(ms) : MatchCfi(ms[i]) = MatchText(w, h, ms[i])
    BY <1>5, <1>9
  <2>2. \A i \in 1..Len(ms) : hits[i] = [node |-> h, match |-> ms[i], cfi |-> MatchText(w, h, ms[i])]
    BY <1>9, <2>1
  <2>3. DOMAIN hits = 1..Len(ms)
    BY <1>9
  <2> HIDE DEF hits
  <2>4. QED
    BY <2>2, <2>3
<1> HIDE DEF hits
<1>11. \A i \in 1..Len(ms) : hits[i] \in Hits(ids)
  <2>1. TAKE i \in 1..Len(ms)
  <2> DEFINE match == ms[i]
             text == MatchText(w, h, match)
             r == hits[i]
  <2>2. match[1] \in Nat /\ match[2] \in Nat /\ match \in Nat \X Nat
    BY <1>9
  <2>3. text \in Seq(Writing(ids))
    <3> HIDE DEF match
    <3>1. QED
      BY <1>3, <1>5, <1>7, <2>2, MatchRead
  <2>4. r = [node |-> h, match |-> match, cfi |-> text]
    BY <1>10
  <2>5. r.node = h /\ r.match = match /\ r.cfi = text
    BY <1>10
  <2>6. \E k \in DOMAIN chapter.matches[h] : match = chapter.matches[h][k]
    BY <1>9 DEF ms
  <2> HIDE DEF match, text, r
  <2>7. r \in MatchOf(Writing(ids))
    BY <1>7, <2>2, <2>3, <2>4 DEF MatchOf
  <2>8. Reported(r)
    <3>1. \E v : IsWay(v, Parent(r.node)) /\ r.cfi = MatchText(v, r.node, r.match)
      BY <1>5, <2>5 DEF text
    <3>2. QED
      BY <1>4, <2>5, <2>6, <3>1 DEF Reported
  <2>9. r \in Hits(ids)
    BY <2>7, <2>8 DEF Hits
  <2>10. QED
    BY <2>9 DEF r
<1>12. hits \in Seq(Hits(ids)) /\ Len(hits) = Len(ms)
  <2> DEFINE H == Hits(ids)
  <2>1. \A i \in 1..Len(ms) : hits[i] \in H
    BY <1>11
  <2> HIDE DEF H
  <2>2. hits = [i \in 1..Len(ms) |-> [node |-> h, match |-> ms[i], cfi |-> MatchCfi(ms[i])]]
    BY <1>9 DEF hits
  <2>5. \A i \in 1..Len(ms) : [node |-> h, match |-> ms[i], cfi |-> MatchCfi(ms[i])] \in H
    BY <2>1, <2>2
  <2>3. hits \in [1..Len(ms) -> H]
    BY <2>2, <2>5
  <2> DEFINE m == Len(ms)
  <2>6. m \in Nat /\ hits \in [1..m -> H]
    BY <1>9, <2>3
  <2> HIDE DEF m
  <2>4. hits \in Seq(H) /\ Len(hits) = m
    BY <2>6
  <2>7. QED
    BY <2>4 DEF H, m
<1>13. FoundInv(ids)'
  <2>1. TextNodes' = TextNodes /\ Hits(ids)' = Hits(ids)
    BY <1>1, SameChapter
  <2>2. CASE mode # "search"
    <3>1. Done \subseteq Done' /\ found' = found
      BY <1>1, <1>7, <2>2
    <3>2. QED
      BY <1>1, <1>2, <2>2, <3>1, FoundKept
  <2>3. CASE mode = "search"
    <3> DEFINE H == Hits(ids)
               n == Len(found)
               m == Len(ms)
    <3>1. /\ found \in Seq(H) /\ \A i \in DOMAIN found : found[i].node \in Done
          /\ \A i, j \in DOMAIN found : j < i => Precedes(found[j], found[i])
          /\ \A x \in TextNodes \cap Done : \A k \in DOMAIN chapter.matches[x] :
               \E i \in DOMAIN found : found[i].node = x /\ found[i].match = chapter.matches[x][k]
      BY <1>2, <2>3 DEF FoundInv
    <3> HIDE DEF H
    <3> DEFINE u == found \o hits
    <3>2. /\ u \in Seq(H) /\ Len(u) = n + m /\ n \in Nat /\ m \in Nat
          /\ \A i \in 1..n : u[i] = found[i]
          /\ \A i \in 1..m : u[n + i] = hits[i]
      <4>1. found \in Seq(H) /\ hits \in Seq(H)
        BY <1>12, <3>1 DEF H
      <4>2. /\ u \in Seq(H) /\ Len(u) = n + Len(hits) /\ n \in Nat /\ Len(hits) \in Nat
            /\ \A i \in 1..n : u[i] = found[i]
            /\ \A i \in 1..Len(hits) : u[n + i] = hits[i]
        BY <4>1, Concatenated
      <4>3. QED
        BY <1>12, <4>2
    <3>3. DOMAIN found = 1..n
      BY <3>1
    <3> HIDE DEF u, n, m
    <3>4. found' = u /\ DOMAIN u = 1..(n + m)
      BY <1>1, <2>3, <3>2 DEF u
    <3>5. ASSUME NEW i \in 1..(n + m)
          PROVE  \/ i \in 1..n /\ u[i] = found[i]
                 \/ \E k \in 1..m : i = n + k /\ u[i].node = h /\ u[i].match = ms[k]
      <4>1. CASE i \in 1..n
        BY <3>2, <4>1
      <4>2. CASE i \notin 1..n
        <5> DEFINE k == i - n
        <5>1. k \in 1..m /\ i = n + k
          BY <3>2, <4>2
        <5> HIDE DEF k
        <5>2. u[i] = hits[k]
          BY <3>2, <5>1
        <5>3. QED
          BY <1>10, <5>1, <5>2 DEF m
      <4>3. QED
        BY <4>1, <4>2
    <3>6. \A i \in 1..(n + m) : u[i].node \in Done'
      <4>1. TAKE i \in 1..(n + m)
      <4>2. QED
        BY <1>7, <3>1, <3>3, <3>5
    <3>7. ASSUME NEW i \in 1..(n + m), NEW j \in 1..(n + m), j < i
          PROVE  Precedes(u[j], u[i])
      <4>1. CASE i \in 1..n
        <5>1. j \in 1..n
          BY <3>2, <3>7, <4>1
        <5>2. u[i] = found[i] /\ u[j] = found[j]
          BY <3>2, <4>1, <5>1
        <5>3. QED
          BY <3>1, <3>3, <3>7, <4>1, <5>1, <5>2
      <4>2. CASE i \notin 1..n
        <5>1. PICK k \in 1..m : i = n + k /\ u[i].node = h /\ u[i].match = ms[k]
          BY <3>5, <4>2
        <5>2. CASE j \in 1..n
          <6>1. u[j].node \in Done
            BY <3>1, <3>2, <3>3, <5>2
          <6>2. QED
            BY <1>7, <5>1, <6>1 DEF Precedes
        <5>3. CASE j \notin 1..n
          <6>1. PICK l \in 1..m : j = n + l /\ u[j].node = h /\ u[j].match = ms[l]
            BY <3>5, <5>3
          <6>2. l < k
            BY <3>2, <3>7, <5>1, <6>1
          <6>3. ms[l][1] < ms[k][1]
            BY <1>9, <6>2 DEF m
          <6>4. QED
            BY <5>1, <6>1, <6>3 DEF Precedes
        <5>4. QED
          BY <5>2, <5>3
      <4>3. QED
        BY <4>1, <4>2
    <3>8. ASSUME NEW x \in TextNodes \cap Done', NEW k \in DOMAIN chapter.matches[x]
          PROVE  \E i \in 1..(n + m) : u[i].node = x /\ u[i].match = chapter.matches[x][k]
      <4>1. CASE x = h
        <5>1. k \in 1..m /\ chapter.matches[x][k] = ms[k]
          BY <1>9, <3>8, <4>1 DEF ms, m
        <5>2. n + k \in 1..(n + m) /\ u[n + k] = hits[k]
          BY <3>2, <5>1
        <5>3. hits[k].node = h /\ hits[k].match = ms[k]
          BY <1>10, <5>1 DEF m
        <5>4. QED
          BY <4>1, <5>1, <5>2, <5>3
      <4>2. CASE x # h
        <5>1. x \in TextNodes \cap Done
          BY <1>7, <3>8, <4>2
        <5>2. PICK i \in 1..n : found[i].node = x /\ found[i].match = chapter.matches[x][k]
          BY <3>1, <3>3, <3>8, <5>1
        <5>3. i \in 1..(n + m) /\ u[i] = found[i]
          BY <3>2, <5>2
        <5>4. QED
          BY <5>2, <5>3
      <4>3. QED
        BY <4>1, <4>2
    <3>9. /\ found' \in Seq(Hits(ids)') /\ \A i \in DOMAIN found' : found'[i].node \in Done'
          /\ \A i, j \in DOMAIN found' : j < i => Precedes(found'[j], found'[i])
      BY <2>1, <3>2, <3>4, <3>6, <3>7 DEF H
    <3>10. \A x \in TextNodes' \cap Done' : \A k \in DOMAIN chapter'.matches[x] :
             \E i \in DOMAIN found' : found'[i].node = x /\ found'[i].match = chapter'.matches[x][k]
      <4>1. \A x \in TextNodes \cap Done' : \A k \in DOMAIN chapter.matches[x] :
             \E i \in DOMAIN u : u[i].node = x /\ u[i].match = chapter.matches[x][k]
        BY <3>4, <3>8
      <4>2. chapter' = chapter
        BY <1>1
      <4>3. TAKE x \in TextNodes' \cap Done'
      <4>4. TAKE k \in DOMAIN chapter'.matches[x]
      <4>5. x \in TextNodes \cap Done' /\ k \in DOMAIN chapter.matches[x]
        BY <2>1, <4>2, <4>3, <4>4
      <4>6. PICK i \in DOMAIN u : u[i].node = x /\ u[i].match = chapter.matches[x][k]
        BY <4>1, <4>5
      <4>7. QED
        BY <3>4, <4>2, <4>6
    <3>11. QED
      BY <3>9, <3>10 DEF FoundInv, Precedes
  <2>4. QED
    BY <2>2, <2>3
<1>14. QED
  BY <1>7, <1>8, <1>13 DEF CfiInv

\* Whatever text a reader can hold is malformed or reads as a canonical CFI.
Legible(ids, text) ==
    /\ text \in Seq(Writing(ids) \cup {"^"})
    /\ ParseCfi(text) = Malformed \/ CanonicalCfi(ids, ParseCfi(text))

\* A legible text may be held.
LEMMA LegibleHeld ==
    ASSUME NEW ids, Readable(ids), HeldInv(ids), NEW text, Legible(ids, text)
    PROVE  Append(held, Read(text)) \in Seq(HeldCfi(ids))
<1> DEFINE S == HeldCfi(ids)
           cfi == ParseCfi(text)
           r == Read(text)
<1>1. cfi \in {c \in CfiOf(ids) : CanonicalCfi(ids, c)} \cup {Malformed}
  BY DEF Legible, CanonicalCfi
<1>2. r = [text |-> text, cfi |-> cfi] /\ text \in Seq(Writing(ids) \cup {"^"})
  BY DEF Read, Legible
<1> HIDE DEF cfi, r
<1>3. r \in S
  BY <1>1, <1>2 DEF HeldCfi
<1>4. held \in Seq(S)
  BY DEF HeldInv
<1> HIDE DEF S
<1>5. Append(held, r) \in Seq(S)
  BY <1>3, <1>4, Appended
<1>6. QED
  BY <1>5 DEF S, r

\* A text of the chapter's own writing is legible.
LEMMA WritingLegible ==
    ASSUME NEW ids, NEW text \in Seq(Writing(ids)),
           ParseCfi(text) = Malformed \/ CanonicalCfi(ids, ParseCfi(text))
    PROVE  Legible(ids, text)
<1>1. Seq(Writing(ids)) \subseteq Seq(Writing(ids) \cup {"^"})
  BY FewerSigns
<1>2. QED
  BY <1>1 DEF Legible

\* A chapter's texts and the bookmarks are legible.
LEMMA TextsLegible ==
    ASSUME NEW ids, Readable(ids), CfiInv(ids), NEW text \in Texts
    PROVE  Legible(ids, text)
<1>1. chapter \in Chapters /\ MarksInv /\ FoundInv(ids)
  BY DEF CfiInv, WalkInv
<1>2. CASE \E n \in DOMAIN marks : text = marks[n]
  <2>1. PICK n \in DOMAIN marks : text = marks[n]
    BY <1>2
  <2>2. PICK w : IsWay(w, n) /\ text = MarkText(w)
    BY <1>1, <2>1 DEF MarksInv, MarkedAt
  <2>3. /\ MarkPath(w) \in PathOf(ids) /\ Canonical(MarkPath(w))
        /\ text \in Seq(Writing(ids)) /\ ParseCfi(text) = Point(MarkPath(w))
    BY <1>1, <2>2, MarkRead
  <2>4. CanonicalCfi(ids, ParseCfi(text))
    BY <2>3, MadeCanonical
  <2>5. QED
    BY <2>3, <2>4, WritingLegible
<1>3. CASE \E i \in DOMAIN found : text = found[i].cfi
  <2>1. PICK i \in DOMAIN found : text = found[i].cfi
    BY <1>3
  <2>2. found[i] \in Hits(ids)
    BY <1>1, <2>1 DEF FoundInv
  <2> DEFINE r == found[i]
             node == r.node
             match == r.match
  <2>3. r \in MatchOf(Writing(ids)) /\ Reported(r)
    BY <2>2 DEF Hits
  <2> HIDE DEF r
  <2>4. node \in Nodes /\ match[1] \in Nat /\ match[2] \in Nat
    BY <2>3 DEF MatchOf
  <2>5. PICK w : IsWay(w, Parent(node)) /\ r.cfi = MatchText(w, node, match)
    BY <2>3 DEF Reported
  <2> HIDE DEF node, match
  <2>6. /\ MarkPath(w) \in PathOf(ids) /\ Canonical(MarkPath(w))
    BY <1>1, <2>5, MarkRead
  <2> DEFINE s == TextPath(IndexOf(node), match[1])
             e == TextPath(IndexOf(node), match[2])
  <2>7. /\ s \in PathOf(ids) /\ Canonical(s) /\ e \in PathOf(ids) /\ Canonical(e)
        /\ MatchText(w, node, match) \in Seq(Writing(ids))
        /\ ParseCfi(MatchText(w, node, match)) = RangeOf(MarkPath(w), s, e)
    BY <1>1, <2>4, <2>5, MatchRead
  <2>8. CanonicalCfi(ids, RangeOf(MarkPath(w), s, e))
    <3> HIDE DEF s, e
    <3>1. QED
      BY <2>6, <2>7, MadeCanonical
  <2>9. text = MatchText(w, node, match)
    BY <2>1, <2>5 DEF r
  <2>10. QED
    BY <2>7, <2>8, <2>9, WritingLegible
<1>4. CASE text \in Bookmarks
  <2> DEFINE C == Writing(ids) \cup {"^"}
  <2>1. text \in Seq(C) /\ ParseCfi(text) \in CfiOf(ids) \cup {Malformed} /\ Unescaped(ids)
    BY <1>4 DEF Readable
  <2>2. "NaN" \notin C
    BY <2>1, NoNaN
  <2>3. ParseCfi(text) = Malformed \/ CanonicalCfi(C, ParseCfi(text))
    <3> HIDE DEF C
    <3>1. QED
      BY <2>1, <2>2, CfiRead
  <2>4. ParseCfi(text) = Malformed \/ CanonicalCfi(ids, ParseCfi(text))
    BY <2>1, <2>3 DEF CanonicalCfi
  <2>5. QED
    BY <2>1, <2>4 DEF Legible
<1>5. QED
  BY <1>2, <1>3, <1>4 DEF Texts

\* Everything but what is held stays as it is.
LEMMA OthersKept ==
    ASSUME NEW ids, CfiInv(ids), UNCHANGED <<chapter, mode, walk, marks, found>>
    PROVE  WalkInv(ids)' /\ MarksInv' /\ FoundInv(ids)'
<1>1. WalkInv(ids) /\ MarksInv /\ FoundInv(ids)
  BY DEF CfiInv
<1>2. PICK stack : stack = walk
  OBVIOUS
<1>3. /\ stack \in Seq(Frames(ids)) /\ Stacked(stack) /\ Frontier(Pended(stack))
      /\ Visited(Pended(stack)) = Done /\ walk' = stack
  BY <1>1, <1>2 DEF WalkInv, Done
<1>4. WalkInv(ids)' /\ Done' = Done
  BY <1>1, <1>3, WalkCarried
<1>5. QED
  BY <1>1, <1>4, MarksKept, FoundKept

\* A text more is held.
LEMMA HoldStep ==
    ASSUME NEW ids, Readable(ids), CfiInv(ids), Hold
    PROVE  CfiInv(ids)'
<1>1. PICK text \in Texts : held' = Append(held, Read(text))
  BY DEF Hold
<1>2. Len(held) < MaxHeld /\ UNCHANGED <<chapter, mode, walk, marks, found>>
  BY DEF Hold
<1>3. Legible(ids, text)
  BY <1>1, TextsLegible
<1>4. HeldInv(ids)
  BY DEF CfiInv
<1>5. HeldInv(ids)'
  <2>1. held' \in Seq(HeldCfi(ids))
    BY <1>1, <1>3, <1>4, LegibleHeld
  <2>2. Len(held') = Len(held) + 1 /\ Len(held) \in Nat
    BY <1>1, <1>4 DEF HeldInv
  <2>3. QED
    BY <1>2, <2>1, <2>2, MaxHeldAssumption DEF HeldInv
<1>6. QED
  BY <1>2, <1>5, OthersKept DEF CfiInv

\* The range of two points is held.
LEMMA CombineStep ==
    ASSUME NEW ids, Readable(ids), CfiInv(ids), CombineHeld
    PROVE  CfiInv(ids)'
<1> DEFINE start == held[1].cfi
           end == held[2].cfi
           range == IF start = Malformed \/ end = Malformed THEN Absent
                    ELSE GenerateRange(start, end)
<1>1. /\ Len(held) = 2 /\ Len(held) < MaxHeld /\ range # Absent /\ held' = Append(held, Read(range))
      /\ UNCHANGED <<chapter, mode, walk, marks, found>>
  BY DEF CombineHeld
<1>2. HeldInv(ids) /\ Unescaped(ids) /\ Apart(ids)
  BY DEF CfiInv, Readable
<1>3. start # Malformed => CanonicalCfi(ids, start)
  <2>1. held[1] \in HeldCfi(ids)
    BY <1>1, <1>2 DEF HeldInv
  <2>2. QED
    BY <2>1 DEF HeldCfi
<1>4. end # Malformed => CanonicalCfi(ids, end)
  <2>1. held[2] \in HeldCfi(ids)
    BY <1>1, <1>2 DEF HeldInv
  <2>2. QED
    BY <2>1 DEF HeldCfi
<1> HIDE DEF start, end
<1>5. /\ CanonicalCfi(ids, start) /\ CanonicalCfi(ids, end)
      /\ range = GenerateRange(start, end) /\ range # Absent
  BY <1>1, <1>3, <1>4
<1> HIDE DEF range
<1>6. start.kind = "point" /\ end.kind = "point"
  <2>1. start.kind # "point" \/ end.kind # "point" => GenerateRange(start, end) = Absent
    BY Zenon DEF GenerateRange
  <2>2. QED
    BY <1>5, <2>1
<1> DEFINE s == start.parent
           e == end.parent
           p == SharedPath(s, e)
           from == HalfPath(s, s, e)
           to == HalfPath(e, s, e)
<1>7. /\ RangePaths(ids, s, e)
      /\ range = Wrap(Joint(PrintPath(p), PrintPath(from), PrintPath(to)))
  BY <1>2, <1>5, <1>6, RangeSpelled
<1>8. /\ p \in PathOf(ids) /\ Canonical(p) /\ from \in PathOf(ids) /\ Canonical(from)
      /\ to \in PathOf(ids) /\ Canonical(to)
  BY <1>7 DEF RangePaths
<1> HIDE DEF s, e, p, from, to
<1>9. ParseCfi(range) = RangeOf(p, from, to)
  BY <1>2, <1>7, <1>8, RangeReadBack
<1>10. range \in Seq(Writing(ids))
  <2>1. PrintPath(p) \in Seq(Writing(ids)) /\ PrintPath(from) \in Seq(Writing(ids))
        /\ PrintPath(to) \in Seq(Writing(ids))
    BY <1>2, <1>8, PathKept
  <2>2. QED
    BY <1>7, <2>1, JointWritten
<1>11. Legible(ids, range)
  <2>1. CanonicalCfi(ids, ParseCfi(range))
    BY <1>8, <1>9, MadeCanonical
  <2>2. QED
    BY <1>10, <2>1, WritingLegible
<1>12. HeldInv(ids)'
  <2>1. held' \in Seq(HeldCfi(ids))
    BY <1>1, <1>2, <1>11, LegibleHeld
  <2>2. held \in Seq(HeldCfi(ids)) /\ held' = Append(held, Read(range))
    BY <1>1, <1>2 DEF HeldInv
  <2> DEFINE S == HeldCfi(ids)
             r == Read(range)
  <2> HIDE DEF S, r
  <2>3. Len(held') = Len(held) + 1 /\ Len(held) \in Nat
    <3>1. held \in Seq(S) /\ held' = Append(held, r)
      BY <2>2 DEF S, r
    <3>2. QED
      BY <3>1
  <2>4. Len(held) < MaxHeld
    BY <1>1
  <2>5. QED
    BY <2>1, <2>3, <2>4, MaxHeldAssumption DEF HeldInv
<1>13. QED
  BY <1>1, <1>12, OthersKept DEF CfiInv

\* Every step keeps the invariant.
LEMMA CfiStep ==
    ASSUME NEW ids, Readable(ids), CfiInv(ids), [Next]_vars
    PROVE  CfiInv(ids)'
<1>1. CASE UNCHANGED vars
  <2>1. UNCHANGED <<chapter, mode, walk, marks, found>> /\ UNCHANGED held
    BY <1>1 DEF vars
  <2>2. HeldInv(ids)
    BY DEF CfiInv
  <2>3. QED
    BY <2>1, <2>2, OthersKept, HeldKept DEF CfiInv
<1>2. QED
  BY <1>1, EnterStep, SearchStep, PassStep, LeaveStep, HoldStep, CombineStep DEF Next

\* The walk writes of what it has left behind, in document order, and what is
\* held can be read again.
THEOREM ChapterIsWalked ==
    ASSUME NEW CONSTANT ids, Readable(ids)
    PROVE  Spec => []CfiInv(ids)
<1>1. Init => CfiInv(ids)
  BY CfiInit
<1>2. CfiInv(ids) /\ [Next]_vars => CfiInv(ids)'
  BY CfiStep
<1>3. QED
  BY <1>1, <1>2, PTL DEF Spec

\* A canonical CFI equals itself, and is level with itself.
LEMMA SameCfi ==
    ASSUME NEW ids, NEW c, CanonicalCfi(ids, c)
    PROVE  EqCfi(c, c) /\ CompareCfi(c, c) = 0
<1>1. c \in CfiOf(ids)
  BY DEF CanonicalCfi
<1>2. \A p \in PathOf(ids) : EqPath(p, p)
  <2>1. TAKE p \in PathOf(ids)
  <2>2. p.temporal # NaN
    BY AbsentAssumption DEF PathOf, Offset
  <2>3. p.spatial # Absent => p.spatial.x # NaN /\ p.spatial.y # NaN
    BY AbsentAssumption DEF PathOf, PointOfSpace
  <2>4. QED
    BY <2>2, <2>3 DEF EqPath, SameSteps, SameNumber
<1>3. EqCfi(c, c)
  BY <1>1, <1>2 DEF EqCfi, CfiOf
<1>4. QED
  BY <1>1, <1>3, CfisCompare

\* Every CFI held reads back as it was.
THEOREM WrittenIsRead ==
    ASSUME NEW CONSTANT ids, Readable(ids)
    PROVE  Spec => []HeldReadBack
<1>1. CfiInv(ids) => HeldReadBack
  <2> SUFFICES ASSUME CfiInv(ids), NEW i \in DOMAIN held, held[i].cfi # Malformed
               PROVE  /\ ParseCfi(PrintCfi(held[i].cfi)) # Malformed
                      /\ EqCfi(ParseCfi(PrintCfi(held[i].cfi)), held[i].cfi)
                      /\ CompareCfi(ParseCfi(PrintCfi(held[i].cfi)), held[i].cfi) = 0
    BY DEF HeldReadBack
  <2> DEFINE c == held[i].cfi
  <2>1. CanonicalCfi(ids, c)
    <3>1. held[i] \in HeldCfi(ids)
      BY DEF CfiInv, HeldInv
    <3>2. QED
      BY <3>1 DEF HeldCfi
  <2>2. c # Malformed
    OBVIOUS
  <2> HIDE DEF c
  <2>3. Unescaped(ids) /\ Apart(ids)
    BY DEF Readable
  <2>4. ParseCfi(PrintCfi(c)) = c
    BY <2>1, <2>3, CfiReadBack
  <2>5. EqCfi(c, c) /\ CompareCfi(c, c) = 0
    BY <2>1, SameCfi
  <2>6. QED
    BY <2>2, <2>4, <2>5 DEF c
<1>2. QED
  BY <1>1, ChapterIsWalked, PTL

-----------------------------------------------------------------------------
\* The order of the marks.

\* Paths that lead to the same document, or level ones, compare as their local
\* steps do if those differ, and as their offsets do if those are all that can.
LEMMA PathsLevel ==
    ASSUME NEW chars, NEW a \in PathOf(chars), NEW b \in PathOf(chars), CompareSteps(a.steps, b.steps) = 0
    PROVE  /\ CompareSteps(LocalOf(a), LocalOf(b)) # 0 =>
                ComparePath(a, b) = CompareSteps(LocalOf(a), LocalOf(b))
           /\ /\ CompareSteps(LocalOf(a), LocalOf(b)) = 0
              /\ a.temporal = Absent /\ b.temporal = Absent /\ a.spatial = Absent /\ b.spatial = Absent
              => ComparePath(a, b) = CompareOffset(a.offset, b.offset)
<1> DEFINE u == PathSigns(a, b)
<1>1. u \in [1..5 -> Sign]
  BY PathPartsCompare
<1>2. ComparePath(a, b) = FirstDifference(u)
  BY DEF ComparePath, PathSigns
<1>3. /\ u[1] = 0 /\ u[2] = CompareSteps(LocalOf(a), LocalOf(b))
      /\ u[3] = CompareOffset(a.offset, b.offset) /\ u[4] = CompareOffset(a.temporal, b.temporal)
      /\ u[5] = CompareSpatial(a.spatial, b.spatial)
  BY DEF PathSigns
<1>4. a.temporal = Absent /\ b.temporal = Absent /\ a.spatial = Absent /\ b.spatial = Absent
        => u[4] = 0 /\ u[5] = 0
  BY <1>3 DEF CompareOffset, CompareSpatial, Cmp
<1> HIDE DEF u
<1>5. ASSUME u[2] # 0
      PROVE  FirstDifference(u) = u[2]
  <2>1. u \in [1..5 -> Sign] /\ u[2] # 0 /\ 2 \in 1..5 /\ 5 \in Nat /\ \A i \in 1..5 : i < 2 => u[i] = 0
    BY <1>1, <1>3, <1>5
  <2>2. QED
    BY <2>1, FirstSign
<1>6. ASSUME u[2] = 0, u[4] = 0, u[5] = 0
      PROVE  FirstDifference(u) = u[3]
  <2>1. \A i \in 1..5 : i = 1 \/ i = 2 \/ i = 3 \/ i = 4 \/ i = 5
    OBVIOUS
  <2>2. CASE u[3] # 0
    <3>1. u \in [1..5 -> Sign] /\ u[3] # 0 /\ 3 \in 1..5 /\ 5 \in Nat /\ \A i \in 1..5 : i < 3 => u[i] = 0
      BY <1>1, <1>3, <1>6, <2>1, <2>2
    <3>2. QED
      BY <3>1, FirstSign
  <2>3. CASE u[3] = 0
    <3>1. \A i \in 1..5 : u[i] = 0
      BY <1>3, <1>6, <2>1, <2>3
    <3>2. QED
      BY <1>1, <2>3, <3>1, NoDifference
  <2>4. QED
    BY <2>2, <2>3
<1>7. QED
  BY <1>2, <1>3, <1>4, <1>5, <1>6

\* Of two marked elements the one that starts first has the lower CFI.
THEOREM MarksAreOrdered ==
    ASSUME NEW CONSTANT ids, Readable(ids)
    PROVE  Spec => []MarksInDocumentOrder
<1>1. CfiInv(ids) => MarksInDocumentOrder
  <2> SUFFICES ASSUME CfiInv(ids), NEW n \in DOMAIN marks, NEW m \in DOMAIN marks, n < m
               PROVE  CompareCfi(ParseCfi(marks[n]), ParseCfi(marks[m])) = -1
    BY DEF MarksInDocumentOrder
  <2>1. chapter \in Chapters /\ MarksInv
    BY DEF CfiInv, WalkInv
  <2>2. n \in Elements /\ m \in Elements
    BY <2>1 DEF MarksInv
  <2>3. n \in Nodes /\ m \in Nodes
    BY <2>2 DEF Elements
  <2>4. PICK v : IsWay(v, n) /\ marks[n] = MarkText(v)
    BY <2>1 DEF MarksInv, MarkedAt
  <2>5. PICK w : IsWay(w, m) /\ marks[m] = MarkText(w)
    BY <2>1 DEF MarksInv, MarkedAt
  <2> DEFINE a == MarkPath(v)
             b == MarkPath(w)
  <2>6. /\ a \in PathOf(ids) /\ ParseCfi(marks[n]) = Point(a)
        /\ b \in PathOf(ids) /\ ParseCfi(marks[m]) = Point(b)
    BY <2>1, <2>4, <2>5, MarkRead
  <2>7. CompareSteps(StepsOf(v), StepsOf(w)) = -1
    BY <2>1, <2>2, <2>3, <2>4, <2>5, WaysOrdered
  <2>8. /\ StepsOf(v) \in Seq(StepOf(ids)) /\ StepsOf(w) \in Seq(StepOf(ids))
        /\ BaseSteps \in Seq(StepOf(ids))
    BY <2>1, <2>4, <2>5, WaySteps, BaseSpelled
  <2>9. /\ a.steps = BaseSteps /\ b.steps = BaseSteps
        /\ LocalOf(a) = StepsOf(v) /\ LocalOf(b) = StepsOf(w)
    BY <2>8 DEF MarkPath, Path, LocalOf, Readable, Apart
  <2> HIDE DEF a, b
  <2>10. CompareSteps(BaseSteps, BaseSteps) = 0
    BY <2>8, StepsCompare DEF SameSteps
  <2>11. ComparePath(a, b) = -1
    BY <2>6, <2>7, <2>9, <2>10, PathsLevel
  <2>12. QED
    BY <2>6, <2>11 DEF CompareCfi, Point
<1>2. QED
  BY <1>1, ChapterIsWalked, PTL

-----------------------------------------------------------------------------
\* Marks are resolved.

\* What the resolver makes of the step to a node: how many elements are before
\* it, and whether it is a text.
LEMMA StepResolved ==
    ASSUME chapter \in Chapters, NEW n \in Nodes, NEW step, step.index = IndexOf(n)
    PROVE  ResolvedStep(step).index = ElementsBefore(n) /\ (IsTextNode(step) <=> n \notin Elements)
<1> DEFINE k == ElementsBefore(n)
<1>1. k \in Nat
  BY CountTyped
<1>2. IndexOf(n) = IF n \in Elements THEN 2 * (k + 1) ELSE 2 * k + 1
  BY DEF IndexOf
<1> HIDE DEF k
<1>3. CASE n \in Elements
  <2>1. step.index = 2 * (k + 1)
    BY <1>2, <1>3
  <2>2. step.index % 2 = 0 /\ ~(step.index < 2) /\ step.index \div 2 - 1 = k
    BY <1>1, <2>1
  <2>3. QED
    BY <1>3, <2>2 DEF ResolvedStep, ChildIndex, IsTextNode, k
<1>4. CASE n \notin Elements
  <2>1. step.index = 2 * k + 1
    BY <1>2, <1>4
  <2>2. step.index % 2 = 1 /\ (step.index - 1) \div 2 = k
    BY <1>1, <2>1
  <2>3. QED
    BY <1>4, <2>2 DEF ResolvedStep, ChildIndex, IsTextNode, k
<1>5. QED
  BY <1>3, <1>4

\* An element is the only one with as many elements before it below its parent.
LEMMA ElementFound ==
    ASSUME chapter \in Chapters, NEW n \in Elements, NEW m \in Elements, Parent(m) = Parent(n),
           ElementsBefore(m) = ElementsBefore(n)
    PROVE  m = n
<1>1. n \in Nodes /\ m \in Nodes
  BY DEF Elements
<1>2. m \in Nat /\ n \in Nat
  BY <1>1, TreeFacts DEF Tree
<1>3. ~(m < n)
  BY <1>1, SiblingsCounted
<1>4. ~(n < m)
  BY <1>1, SiblingsCounted
<1>5. QED
  BY <1>2, <1>3, <1>4

\* Where the elements are that a step leads to, and the steps as a scan.
Onwards(nodes, step) == {m \in Elements : Parent(m) \in nodes /\ ElementsBefore(m) = step.index}
FollowRun(C) == [nodes \in SUBSET (Nodes \cup {0}) |-> [step \in C |-> Onwards(nodes, step)]]
FollowBase == {0}

\* Steps are followed as they are scanned.
LEMMA FollowRuns ==
    ASSUME NEW C, NEW s \in Seq(C), NEW b,
           Runs(SUBSET (Nodes \cup {0}), FollowRun(C), FollowBase, s, b)
    PROVE  Follow(s) = b
<1> DEFINE n == Len(s)
           X == SUBSET (Nodes \cup {0})
           step == FollowRun(C)
           base == FollowBase
           Is(g) == g = [A \in SUBSET (DOMAIN s) |->
                           IF A = {} THEN base
                           ELSE {m \in Elements : Parent(m) \in g[A \ {Max(A)}]
                                                  /\ ElementsBefore(m) = s[Max(A)].index}]
           fold == CHOOSE g : Is(g)
<1>1. Follow(s) = fold[DOMAIN s]
  BY DEF Follow, FoldLeft, MapThenFoldSet, FollowBase
<1>2. n \in Nat /\ DOMAIN s = 1..n /\ \A i \in 1..n : s[i] \in C
  OBVIOUS
<1>3. base \in X
  BY RunEnds
<1>4. step \in [X -> [C -> X]] /\ \A x \in X : \A c \in C : step[x][c] = Onwards(x, c)
  BY DEF FollowRun, Onwards, Elements
<1> HIDE DEF X, base, step
<1>5. PICK g : g \in [SUBSET (1..n) -> X] /\ FoldsAs(g, X, step, base, s)
  <2>1. step \in [X -> [C -> X]]
    BY <1>4
  <2>2. QED
    BY <1>3, <2>1, FoldMade
<1>6. \A A \in SUBSET (1..n) : A # {} => Max(A) \in 1..n /\ A \ {Max(A)} \in SUBSET (1..n)
  BY <1>2, MaxMember
<1>7. Is(g)
  <2> DEFINE h == [A \in SUBSET (1..n) |->
                     IF A = {} THEN base ELSE Onwards(g[A \ {Max(A)}], s[Max(A)])]
  <2>1. ASSUME NEW A \in SUBSET (1..n) PROVE g[A] = h[A]
    <3>1. CASE A = {}
      BY <1>5, <3>1 DEF FoldsAs
    <3>2. CASE A # {}
      <4>1. g[A \ {Max(A)}] \in X /\ s[Max(A)] \in C
        BY <1>2, <1>5, <1>6, <3>2
      <4>2. step[g[A \ {Max(A)}]][s[Max(A)]] = Onwards(g[A \ {Max(A)}], s[Max(A)])
        BY <1>4, <4>1
      <4>3. QED
        BY <1>5, <3>2, <4>1, <4>2 DEF FoldsAs
    <3>3. QED
      BY <3>1, <3>2
  <2>2. h = [A \in SUBSET (1..n) |-> h[A]] /\ g = [A \in SUBSET (1..n) |-> g[A]]
    BY <1>5
  <2>3. g = h
    <3> HIDE DEF h
    <3>1. QED
      BY <2>1, <2>2
  <2>4. QED
    BY <1>2, <2>3, Zenon DEF Onwards
<1>8. Is(fold)
  <2> HIDE DEF Is
  <2>1. QED
    BY <1>7
<1> HIDE DEF fold
<1>9. \A A \in SUBSET (1..n) :
         fold[A] = IF A = {} THEN base ELSE Onwards(fold[A \ {Max(A)}], s[Max(A)])
  BY <1>2, <1>8 DEF Onwards
<1>10. fold[{}] = base
  BY <1>9
<1>11. ASSUME NEW A \in SUBSET (1..n), A # {}, fold[A \ {Max(A)}] \in X
       PROVE  fold[A] = step[fold[A \ {Max(A)}]][s[Max(A)]]
  <2>1. s[Max(A)] \in C
    BY <1>2, <1>6, <1>11
  <2>2. step[fold[A \ {Max(A)}]][s[Max(A)]] = Onwards(fold[A \ {Max(A)}], s[Max(A)])
    BY <1>4, <1>11, <2>1
  <2>3. QED
    BY <1>9, <1>11, <2>2
<1>12. fold[1..n] = b
  <2> HIDE DEF Is
  <2>1. Runs(X, step, base, s, b)
    BY DEF X, step, base
  <2>2. FoldsAs(fold, X, step, base, s)
    BY <1>10, <1>11 DEF FoldsAs
  <2>3. QED
    BY <2>1, <2>2, FoldRuns
<1>13. QED
  BY <1>1, <1>2, <1>12

\* The steps of a way that leads to an element, followed, lead to it alone.
LEMMA WayFollowed ==
    ASSUME chapter \in Chapters, NEW n \in Elements \cup {0}, NEW w, IsWay(w, n),
           NEW C, NEW s \in Seq(C), Len(s) = Len(w),
           \A i \in 1..Len(w) : s[i].index = ElementsBefore(w[i])
    PROVE  Follow(s) = {n}
<1> DEFINE len == Len(w)
           X == SUBSET (Nodes \cup {0})
           t == [k \in 0..len |-> {Up(w, k)}]
<1>1. /\ len \in Nat /\ Len(s) = len /\ \A i \in 1..len : w[i] \in Elements /\ s[i] \in C
      /\ \A i \in 0..len : Up(w, i) \in Nodes \cup {0}
  BY OnWay
<1>2. \A i \in 1..len : Parent(w[i]) = Up(w, i - 1) /\ Up(w, i) = w[i]
  BY <1>1 DEF IsWay, Up
<1>3. t \in [0..len -> X] /\ t[0] = FollowBase /\ t[len] = {n}
  BY <1>1 DEF FollowBase, IsWay, Up
<1>4. ASSUME NEW k \in 1..len
      PROVE  t[k] = FollowRun(C)[t[k - 1]][s[k]]
  <2>1. k - 1 \in 0..len /\ k \in 0..len
    BY <1>1
  <2>2. t[k - 1] = {Up(w, k - 1)} /\ t[k] = {w[k]} /\ t[k - 1] \in X /\ s[k] \in C
    BY <1>1, <1>2, <1>3, <2>1
  <2>3. \A m \in Elements : Parent(m) = Up(w, k - 1) /\ ElementsBefore(m) = s[k].index => m = w[k]
    BY <1>1, <1>2, ElementFound
  <2>4. w[k] \in Elements /\ Parent(w[k]) = Up(w, k - 1) /\ ElementsBefore(w[k]) = s[k].index
    BY <1>1, <1>2
  <2> HIDE DEF t, len
  <2>5. Onwards({Up(w, k - 1)}, s[k]) = {w[k]}
    BY <2>3, <2>4 DEF Onwards
  <2>6. FollowRun(C)[t[k - 1]][s[k]] = Onwards(t[k - 1], s[k])
    BY <2>2 DEF FollowRun
  <2>7. QED
    BY <2>2, <2>5, <2>6
<1> HIDE DEF t
<1>5. IsTrace(t, X, FollowRun(C), FollowBase, s)
  BY <1>1, <1>3, <1>4 DEF IsTrace
<1>6. Runs(X, FollowRun(C), FollowBase, s, {n})
  BY <1>1, <1>3, <1>5 DEF Runs
<1>7. QED
  BY <1>6, FollowRuns

\* A path into the chapter resolves to its spine index and its steps.
LEMMA PathResolved ==
    ASSUME NEW ids, Readable(ids), chapter \in Chapters, NEW p \in PathOf(ids), p.steps = BaseSteps,
           p.local \in Seq(StepOf(ids)), p.local # << >>
    PROVE  LET r == Resolve(Point(p)).start
               named == {i \in DOMAIN p.local : ~IsTextNode(p.local[i]) /\ p.local[i].assertion # Absent}
           IN /\ r.spine_index = chapter.spine_index /\ r.offset = p.offset
              /\ r.steps = [i \in DOMAIN p.local |-> ResolvedStep(p.local[i])]
              /\ r.is_text_node = IsTextNode(Last(p.local))
              /\ r.id_shortcut = IF named = {} THEN Absent ELSE p.local[Max(named)].assertion
<1> DEFINE si == SpineIndex(p)
           r == ResolvePath(p, si)
<1>1. si = chapter.spine_index /\ si \in Nat
  <2> DEFINE k == chapter.spine_index
  <2>1. Len(BaseSteps) = 2 /\ BaseSteps[2].index = (k + 1) * 2 /\ k \in Nat
    BY BaseSpelled DEF Step
  <2> HIDE DEF k
  <2> DEFINE step == BaseSteps[2]
  <2>2. step.index % 2 = 0 /\ ~(step.index < 2) /\ step.index \div 2 - 1 = k
    <3>1. step.index = 2 * (k + 1)
      BY <2>1
    <3> HIDE DEF step
    <3>2. QED
      BY <2>1, <3>1
  <2>3. SpineIndex(p) = ChildIndex(step)
    BY <2>1 DEF SpineIndex
  <2> HIDE DEF step
  <2>4. ChildIndex(step) = k
    BY <2>2 DEF ChildIndex, IsTextNode
  <2>5. QED
    BY <2>1, <2>3, <2>4 DEF k
<1>2. LocalOf(p) = p.local
  BY DEF LocalOf, Readable, Apart
<1>3. r # Absent
  BY <1>1, <1>2 DEF Readable, Apart
<1>4. Resolve(Point(p)).start = r
  <2> HIDE DEF r
  <2>1. QED
    BY <1>3 DEF Resolve, Point, r
<1>5. r = [spine_index |-> si,
           steps |-> [i \in DOMAIN p.local |-> ResolvedStep(p.local[i])],
           offset |-> p.offset,
           is_text_node |-> IsTextNode(Last(p.local)),
           id_shortcut |->
             IF {i \in DOMAIN p.local : ~IsTextNode(p.local[i]) /\ p.local[i].assertion # Absent} = {}
             THEN Absent
             ELSE p.local[Max({i \in DOMAIN p.local : /\ ~IsTextNode(p.local[i])
                                                      /\ p.local[i].assertion # Absent})].assertion,
           side |-> p.side, temporal |-> p.temporal, spatial |-> p.spatial]
  BY <1>2 DEF ResolvePath
<1> HIDE DEF r, si
<1>6. QED
  BY <1>1, <1>4, <1>5

\* A node is above itself, and so is what is above its parent.
LEMMA AboveUnfolds ==
    ASSUME chapter \in Chapters
    PROVE  \A n \in Nat : Above[n] = IF n \in Nodes THEN {n} \cup Above[Parent(n)] ELSE {}
<1> DEFINE X == SUBSET Nat
           Grown(n, x) == IF n \in Nodes THEN {n} \cup x ELSE {}
           before == [n \in Nat |-> IF n \in Nodes THEN Parent(n) ELSE 0]
           step == [n \in Nat |-> [x \in X |-> Grown(n, x)]]
           Is(f) == f = [n \in Nat |-> IF n \in Nodes THEN {n} \cup f[Parent(n)] ELSE {}]
<1>1. \A n \in Nodes : n \in Nat \ {0} /\ Parent(n) \in Nat /\ Parent(n) < n
  <2>1. Nodes \subseteq Nat \ {0}
    BY TreeFacts DEF Tree
  <2>2. \A n \in Nodes : Parent(n) \in Elements \cup {0} /\ Parent(n) < n
    BY TreeFacts DEF Tree
  <2>3. Elements \subseteq Nodes
    BY DEF Elements
  <2> TAKE n \in Nodes
  <2> DEFINE p == Parent(n)
  <2>4. p \in Elements \cup {0} /\ p < n
    BY <2>2
  <2>5. Elements \cup {0} \subseteq Nat
    BY <2>1, <2>3
  <2> HIDE DEF p
  <2>6. n \in Nat \ {0} /\ p \in Nat /\ p < n
    BY <2>1, <2>4, <2>5
  <2>7. QED
    BY <2>6 DEF p
<1>2. step \in [Nat -> [X -> X]] /\ {} \in X
  OBVIOUS
<1>3. before \in [Nat -> Nat] /\ \A n \in Nat \ {0} : before[n] < n
  BY <1>1
<1>4. PICK f \in [Nat -> X] : f[0] = {} /\ \A n \in Nat \ {0} : f[n] = step[n][f[before[n]]]
  <2> HIDE DEF X, step, before
  <2>1. \E f : IsDescent(f, X, {}, step, before)
    BY <1>2, <1>3, DescentDefined
  <2>2. QED
    BY <2>1 DEF IsDescent
<1>5. \A n \in Nat : f[n] = IF n \in Nodes THEN {n} \cup f[Parent(n)] ELSE {}
  <2>1. TAKE n \in Nat
  <2>2. CASE n \notin Nodes
    <3>1. CASE n = 0
      BY <1>4, <2>2, <3>1
    <3>2. CASE n # 0
      <4>1. f[before[n]] \in X
        BY <1>3, <1>4
      <4>2. QED
        BY <1>4, <2>2, <3>2, <4>1
    <3>3. QED
      BY <3>1, <3>2
  <2>3. CASE n \in Nodes
    <3>1. before[n] = Parent(n) /\ n # 0 /\ f[Parent(n)] \in X
      BY <1>1, <1>4, <2>3
    <3>2. QED
      BY <1>4, <2>3, <3>1
  <2>4. QED
    BY <2>2, <2>3
<1>6. Is(f)
  <2> DEFINE h == [n \in Nat |-> IF n \in Nodes THEN {n} \cup f[Parent(n)] ELSE {}]
  <2>1. \A n \in Nat : f[n] = h[n]
    BY <1>5
  <2>2. h = [n \in Nat |-> h[n]] /\ f = [n \in Nat |-> f[n]]
    BY <1>4
  <2>3. f = h
    <3> HIDE DEF h
    <3>1. QED
      BY <2>1, <2>2
  <2>4. QED
    BY <2>3
<1>7. Above = CHOOSE g : Is(g)
  BY DEF Above
<1>8. Is(Above)
  <2> HIDE DEF Is
  <2>1. QED
    BY <1>6, <1>7
<1> HIDE DEF step, before
<1>9. QED
  BY <1>8

\* What is above an element is on the way to it.
LEMMA AboveWay ==
    ASSUME chapter \in Chapters, NEW n, NEW w, IsWay(w, n)
    PROVE  Above[n] = {w[i] : i \in 1..Len(w)}
<1> DEFINE len == Len(w)
           N == {k \in 0..len : Above[Up(w, k)] = {w[i] : i \in 1..k}}
<1>1. /\ len \in Nat /\ \A i \in 1..len : w[i] \in Nodes
      /\ \A i \in 0..len : Up(w, i) \in Nat
  BY OnWay
<1>2. 0 \notin Nodes /\ Nodes \subseteq Nat
  BY TreeFacts DEF Tree
<1>3. 0 \in N
  <2>1. \A root \in Nat : Above[root] = IF root \in Nodes THEN {root} \cup Above[Parent(root)] ELSE {}
    BY AboveUnfolds
  <2>2. Above[0] = {}
    BY <1>2, <2>1
  <2>3. Up(w, 0) = 0 /\ 1..0 = {}
    BY DEF Up
  <2> HIDE DEF len
  <2>4. QED
    BY <1>1, <2>2, <2>3
<1>4. ASSUME NEW k \in 0..(len - 1), k \in N
      PROVE  k + 1 \in N
  <2>1. k + 1 \in 1..len /\ k + 1 \in 0..len /\ (k + 1) - 1 = k /\ k + 1 # 0
    BY <1>1
  <2>2. Up(w, k + 1) = w[k + 1] /\ Parent(w[k + 1]) = Up(w, k) /\ w[k + 1] \in Nodes
    BY <1>1, <2>1 DEF IsWay, Up
  <2>3. Above[w[k + 1]] = {w[k + 1]} \cup Above[Up(w, k)]
    BY <1>2, <2>2, AboveUnfolds
  <2>4. 1..(k + 1) = (1..k) \cup {k + 1}
    BY <1>1
  <2>5. {w[i] : i \in 1..(k + 1)} = {w[k + 1]} \cup {w[i] : i \in 1..k}
    BY <2>4
  <2> HIDE DEF len
  <2>6. QED
    BY <1>4, <2>1, <2>2, <2>3, <2>5
<1>5. len \in N
  <2> HIDE DEF N, len
  <2>1. 0..len \subseteq N
    BY <1>1, <1>3, <1>4, BoundedInduction
  <2>2. QED
    BY <1>1, <2>1
<1>6. QED
  BY <1>5 DEF IsWay

\* The last of the ids on a way is that of the node that comes last.
LEMMA ShortcutOnWay ==
    ASSUME chapter \in Chapters, NEW n \in Nodes, NEW w, IsWay(w, n)
    PROVE  LET places == {i \in 1..Len(w) : chapter.id[w[i]] # Absent}
               named == {m \in Above[n] : chapter.id[m] # Absent}
           IN /\ places = {} <=> named = {}
              /\ places # {} => Max(places) \in 1..Len(w) /\ w[Max(places)] = Max(named)
<1> DEFINE len == Len(w)
           places == {i \in 1..len : chapter.id[w[i]] # Absent}
           named == {m \in Above[n] : chapter.id[m] # Absent}
<1>1. len \in Nat /\ n \in Nat /\ \A i \in 1..len : w[i] \in Nat /\ Up(w, i) = w[i]
  <2>1. /\ len \in Nat /\ \A i \in 1..len : w[i] \in Nodes
    BY OnWay
  <2>2. Nodes \subseteq Nat
    BY TreeFacts DEF Tree
  <2>3. \A i \in 1..len : Up(w, i) = w[i]
    BY <2>1 DEF Up
  <2> HIDE DEF len
  <2>4. QED
    BY <2>1, <2>2, <2>3
<1>2. \A i, j \in 1..len : i < j => w[i] < w[j]
  <2>1. \A j \in 0..len : \A i \in 0..(j - 1) : Up(w, i) < Up(w, j)
    BY WayRises
  <2> HIDE DEF len
  <2>2. TAKE i, j \in 1..len
  <2>3. i < j => i \in 0..(j - 1) /\ j \in 0..len
    BY <1>1
  <2>4. QED
    BY <1>1, <2>1, <2>3
<1>3. named = {w[i] : i \in places}
  BY AboveWay
<1>4. len > 0 /\ w[len] = n
  <2>1. n # 0
    BY TreeFacts DEF Tree
  <2>2. QED
    BY <2>1, OnWay
<1> HIDE DEF len
<1>5. ASSUME places # {}
      PROVE  Max(places) \in 1..len /\ w[Max(places)] = Max(named)
  <2> DEFINE k == Max(places)
             m == Max(named)
  <2>1. places \in SUBSET (1..len)
    OBVIOUS
  <2> HIDE DEF places
  <2>2. k \in places /\ \A i \in places : k >= i
    BY <1>1, <1>5, <2>1, MaxMember
  <2>3. w[k] \in named /\ \A i \in places : w[k] >= w[i]
    <3> HIDE DEF k, named
    <3>1. k \in places /\ k \in 1..len
      BY <2>1, <2>2
    <3>2. w[k] \in named
      BY <1>3, <3>1
    <3>3. ASSUME NEW i \in places
          PROVE  w[k] >= w[i]
      <4>1. i \in 1..len /\ (i < k \/ i = k)
        BY <1>1, <2>1, <2>2, <3>1
      <4>2. w[i] \in Nat /\ w[k] \in Nat /\ (w[i] < w[k] \/ w[i] = w[k])
        BY <1>1, <1>2, <3>1, <4>1
      <4>3. QED
        BY <4>2
    <3>4. QED
      BY <3>2, <3>3
  <2>4. named \in SUBSET (1..n) /\ named # {}
    <3>1. \A i \in places : w[i] \in 1..n
      <4> TAKE i \in places
      <4>1. i \in 1..len /\ len \in 1..len
        BY <1>1, <1>4, <2>1
      <4>2. w[i] \in Nat /\ (w[i] < w[len] \/ i = len) /\ 0 < w[i]
        <5>1. w[i] \in Nodes
          BY <4>1, OnWay DEF len
        <5>2. w[i] \in Nat \ {0}
          BY <5>1, TreeFacts DEF Tree
        <5>3. i < len \/ i = len
          BY <1>1, <4>1
        <5>4. QED
          BY <1>2, <4>1, <5>2, <5>3
      <4>3. QED
        BY <1>1, <1>4, <4>2
    <3> HIDE DEF named
    <3>2. QED
      BY <1>3, <2>3, <3>1
  <2> HIDE DEF named
  <2>5. m \in named /\ \A i \in named : m >= i
    BY <1>1, <2>4, MaxMember
  <2>6. m >= w[k] /\ w[k] >= m /\ m \in Nat /\ w[k] \in Nat
    <3> HIDE DEF m, k
    <3>1. m >= w[k]
      BY <2>3, <2>5
    <3>2. PICK i \in places : m = w[i]
      BY <1>3, <2>5
    <3>3. w[k] >= m
      BY <2>3, <3>2
    <3>4. m \in Nat /\ w[k] \in Nat
      <4>1. 1..n \subseteq Nat
        BY <1>1
      <4>2. named \subseteq Nat
        BY <2>4, <4>1
      <4>3. QED
        BY <2>3, <2>5, <4>2
    <3>5. QED
      BY <3>1, <3>3, <3>4
  <2>7. QED
    <3>1. w[k] = m
      <4> HIDE DEF m, k
      <4>1. QED
        BY <2>6
    <3>2. k \in 1..len
      BY <2>1, <2>2
    <3>3. QED
      BY <3>1, <3>2
<1>6. places = {} <=> named = {}
  <2> HIDE DEF named, places
  <2>1. QED
    BY <1>3
<1>7. QED
  BY <1>5, <1>6 DEF len

\* The type of the state.
LEMMA CfiTyped ==
    ASSUME NEW ids, CfiInv(ids)
    PROVE  TypeOK
<1>1. mode \in {"inject", "search"} /\ Len(held) <= MaxHeld
  BY DEF CfiInv, WalkInv, HeldInv
<1>2. DOMAIN marks \subseteq Elements
  BY DEF CfiInv, MarksInv
<1>3. walk \in Seq(Frames(ids)) /\ Stacked(walk)
  BY DEF CfiInv, WalkInv
<1>4. \A i \in 1..(Len(walk) - 1) : Parent(walk[i].node) = walk[i + 1].node
  <2>1. TAKE i \in 1..(Len(walk) - 1)
  <2> DEFINE len == Len(walk)
  <2>2. DOMAIN walk = 1..len /\ len \in Nat /\ i \in 1..(len - 1)
    BY <1>3
  <2> HIDE DEF len
  <2>3. i \in DOMAIN walk /\ i + 1 \in DOMAIN walk /\ i < i + 1
    BY <2>2
  <2>4. QED
    BY <1>3, <2>3 DEF Stacked
<1>5. \A i \in DOMAIN walk :
         walk[i].child_index = 2 * Cardinality(ChildElements(walk[i].node) \ ToSet(walk[i].rest))
  <2>1. TAKE i \in DOMAIN walk
  <2>2. walk[i] \in Frames(ids)
    BY <1>3
  <2>3. QED
    BY <2>2 DEF Frames, Placed
<1>6. QED
  BY <1>1, <1>2, <1>4, <1>5 DEF TypeOK

\* A mark leads back to its element.
LEMMA MarkReaches ==
    ASSUME NEW ids, Readable(ids), chapter \in Chapters, NEW n \in Elements, NEW w, IsWay(w, n)
    PROVE  LET r == Resolve(Point(MarkPath(w))).start
               named == {m \in Above[n] : chapter.id[m] # Absent}
           IN /\ r.spine_index = chapter.spine_index /\ ~r.is_text_node
              /\ Follow(r.steps) = {n}
              /\ r.id_shortcut = IF named = {} THEN Absent ELSE chapter.id[Max(named)]
<1> DEFINE p == MarkPath(w)
           r == Resolve(Point(p)).start
           len == Len(w)
           steps == StepsOf(w)
           named == {m \in Above[n] : chapter.id[m] # Absent}
           places == {i \in 1..len : chapter.id[w[i]] # Absent}
           found_ == {i \in DOMAIN p.local : ~IsTextNode(p.local[i]) /\ p.local[i].assertion # Absent}
<1>1. n \in Nodes /\ n # 0
  BY TreeFacts DEF Elements, Tree
<1>2. /\ len \in Nat /\ len > 0 /\ w[len] = n
      /\ \A i \in 1..len : w[i] \in Elements /\ w[i] \in Nodes
  BY <1>1, OnWay
<1>3. /\ steps \in Seq(StepOf(ids)) /\ Len(steps) = len
      /\ \A i \in 1..len : steps[i] = StepTo(w[i]) /\ steps[i].index = IndexOf(w[i])
  BY WaySteps
<1>4. p \in PathOf(ids) /\ p.steps = BaseSteps /\ p.local = steps
  BY MarkRead DEF MarkPath, Path
<1>5. DOMAIN steps = 1..len /\ steps # << >> /\ Last(steps) = steps[len]
  BY <1>2, <1>3 DEF Last
<1> HIDE DEF len, steps, p
<1>6. \A i \in 1..len : /\ ResolvedStep(steps[i]).index = ElementsBefore(w[i]) /\ ~IsTextNode(steps[i])
                        /\ steps[i].assertion = chapter.id[w[i]]
  <2> TAKE i \in 1..len
  <2>1. ResolvedStep(steps[i]).index = ElementsBefore(w[i]) /\ ~IsTextNode(steps[i])
    BY <1>2, <1>3, StepResolved
  <2>2. steps[i].assertion = chapter.id[w[i]]
    BY <1>2, <1>3 DEF StepTo, Step
  <2>3. QED
    BY <2>1, <2>2
<1>7. /\ r.spine_index = chapter.spine_index
      /\ r.steps = [i \in DOMAIN steps |-> ResolvedStep(steps[i])]
      /\ r.is_text_node = IsTextNode(Last(steps))
      /\ r.id_shortcut = IF found_ = {} THEN Absent ELSE steps[Max(found_)].assertion
  <2>1. p \in PathOf(ids) /\ p.steps = BaseSteps /\ p.local \in Seq(StepOf(ids)) /\ p.local # << >>
    BY <1>3, <1>4, <1>5
  <2>2. /\ r.spine_index = chapter.spine_index
        /\ r.steps = [i \in DOMAIN p.local |-> ResolvedStep(p.local[i])]
        /\ r.is_text_node = IsTextNode(Last(p.local))
        /\ r.id_shortcut = IF found_ = {} THEN Absent ELSE p.local[Max(found_)].assertion
    BY <2>1, PathResolved
  <2> HIDE DEF r, found_
  <2>3. QED
    BY <1>4, <2>2
<1>8. found_ = places
  BY <1>4, <1>5, <1>6
<1> HIDE DEF r, found_
<1>9. ~r.is_text_node
  BY <1>2, <1>5, <1>6, <1>7
<1>10. Follow(r.steps) = {n}
  <2> DEFINE C == {ResolvedStep(steps[i]) : i \in 1..len}
             s == [i \in 1..len |-> ResolvedStep(steps[i])]
  <2>1. s \in Seq(C) /\ Len(s) = len /\ \A i \in 1..len : s[i].index = ElementsBefore(w[i])
    BY <1>2, <1>6
  <2>2. r.steps = s
    BY <1>5, <1>7
  <2> HIDE DEF C, s
  <2>3. n \in Elements \cup {0} /\ Len(s) = Len(w) /\ \A i \in 1..Len(w) : s[i].index = ElementsBefore(w[i])
    BY <2>1 DEF len
  <2>4. QED
    BY <2>1, <2>2, <2>3, WayFollowed
<1>11. r.id_shortcut = IF named = {} THEN Absent ELSE chapter.id[Max(named)]
  <2>1. /\ places = {} <=> named = {}
        /\ places # {} => Max(places) \in 1..len /\ w[Max(places)] = Max(named)
    BY <1>1, ShortcutOnWay DEF len
  <2> HIDE DEF places, named
  <2>2. CASE places = {}
    BY <1>7, <1>8, <2>1, <2>2
  <2>3. CASE places # {}
    <3>1. steps[Max(places)].assertion = chapter.id[w[Max(places)]]
      BY <1>6, <2>1, <2>3
    <3>2. QED
      BY <1>7, <1>8, <2>1, <2>3, <3>1
  <2>4. QED
    BY <2>2, <2>3
<1>12. QED
  BY <1>7, <1>9, <1>10, <1>11 DEF r, p

\* A data-cfi leads back to the element that carries it, and once the walk is
\* over every element has one.
THEOREM MarksLeadBack ==
    ASSUME NEW CONSTANT ids, Readable(ids)
    PROVE  Spec => []MarksReachTheirElements
<1>1. CfiInv(ids) => MarksReachTheirElements
  <2> SUFFICES ASSUME CfiInv(ids) PROVE MarksReachTheirElements
    OBVIOUS
  <2>1. chapter \in Chapters /\ MarksInv
    BY DEF CfiInv, WalkInv
  <2>2. mode = "inject" /\ ~Walking => DOMAIN marks = Elements
    <3>1. ~Walking => Done = Nodes
      BY DEF Walking, Done, Pended, Visited
    <3>2. Elements \cap Nodes = Elements
      BY DEF Elements
    <3>3. QED
      BY <2>1, <3>1, <3>2 DEF MarksInv
  <2>3. ASSUME NEW n \in DOMAIN marks
        PROVE  LET r == Resolve(ParseCfi(marks[n])).start
                   named == {m \in Above[n] : chapter.id[m] # Absent}
               IN /\ r.spine_index = chapter.spine_index /\ ~r.is_text_node
                  /\ Follow(r.steps) = {n}
                  /\ r.id_shortcut = IF named = {} THEN Absent ELSE chapter.id[Max(named)]
    <3>1. n \in Elements
      BY <2>1 DEF MarksInv
    <3>2. PICK w : IsWay(w, n) /\ marks[n] = MarkText(w)
      BY <2>1 DEF MarksInv, MarkedAt
    <3>3. ParseCfi(marks[n]) = Point(MarkPath(w))
      BY <2>1, <3>2, MarkRead
    <3> DEFINE r(c) == Resolve(c).start
               named == {m \in Above[n] : chapter.id[m] # Absent}
               Reaches(c) ==
                 /\ r(c).spine_index = chapter.spine_index /\ ~r(c).is_text_node
                 /\ Follow(r(c).steps) = {n}
                 /\ r(c).id_shortcut = IF named = {} THEN Absent ELSE chapter.id[Max(named)]
    <3>4. chapter \in Chapters /\ n \in Elements /\ IsWay(w, n)
      BY <2>1, <3>1, <3>2
    <3>5. Reaches(Point(MarkPath(w)))
      BY <3>4, MarkReaches, Zenon
    <3>6. Reaches(ParseCfi(marks[n]))
      <4> HIDE DEF Reaches
      <4>1. QED
        BY <3>3, <3>5
    <3>7. QED
      BY <3>6
  <2>4. QED
    BY <2>2, <2>3, CfiTyped DEF MarksReachTheirElements
<1>2. QED
  BY <1>1, ChapterIsWalked, PTL

-----------------------------------------------------------------------------
\* Matches are resolved.

\* A path written after a path is a path written.
WrittenAfter(p, q, r) == PrintPath(p) \o PrintPath(q) = PrintPath(r)

\* A path after a path is one: its local steps after those, or its steps if
\* the first has no "!".
LEMMA PathsJoined ==
    ASSUME NEW ids, Unescaped(ids), Apart(ids), NEW steps \in Seq(StepOf(ids)),
           NEW local \in Seq(StepOf(ids)), NEW more \in Seq(StepOf(ids)), NEW offset \in Offset
    PROVE  /\ WrittenAfter(Path(steps, local, Absent), Path(more, Absent, offset),
                           Path(steps, local \o more, offset))
           /\ WrittenAfter(Path(steps, Absent, Absent), Path(more, local, offset),
                           Path(steps \o more, local, offset))
<1> DEFINE C == Writing(ids)
           a == PrintSteps(steps)
           l == PrintSteps(local)
           m == PrintSteps(more)
           o == PrintOffset(offset)
           bang == <<"!">>
<1>1. local \o more \in Seq(StepOf(ids)) /\ steps \o more \in Seq(StepOf(ids)) /\ Absent \in Offset
  BY DEF Offset
<1>2. /\ PrintPath(Path(steps, local, Absent)) = (a \o bang) \o l
      /\ PrintPath(Path(more, Absent, offset)) = m \o o
      /\ PrintPath(Path(steps, Absent, Absent)) = a
      /\ PrintPath(Path(more, local, offset)) = ((m \o bang) \o l) \o o
  BY <1>1, LocalSpelled
<1>3. /\ PrintPath(Path(steps, local \o more, offset)) = ((a \o bang) \o PrintSteps(local \o more)) \o o
      /\ PrintPath(Path(steps \o more, local, offset)) = ((PrintSteps(steps \o more) \o bang) \o l) \o o
  BY <1>1, LocalSpelled
<1>4. PrintSteps(local \o more) = l \o m /\ PrintSteps(steps \o more) = a \o m
  BY StepsJoined
<1>5. a \in Seq(C) /\ l \in Seq(C) /\ m \in Seq(C)
  BY StepsKept DEF Kept
<1>6. o \in Seq(C) /\ bang \in Seq(C)
  <2>1. Digital \subseteq C /\ ":" \in C /\ "!" \in C
    BY DEF Writing, Punctuation
  <2>2. o \in Seq(C)
    BY <2>1, OffsetWritten
  <2>3. QED
    BY <2>1, <2>2, TextsJoined
<1> HIDE DEF C, a, l, m, o, bang
<1>7. \A s, t \in Seq(C) : s \o t \in Seq(C)
  BY TextsJoined
<1>8. \A s, t, u \in Seq(C) : s \o (t \o u) = (s \o t) \o u
  BY TextsAssociate
<1>9. ((a \o bang) \o l) \o (m \o o) = ((a \o bang) \o (l \o m)) \o o
  <2> DEFINE ab == a \o bang
  <2>1. ab \in Seq(C) /\ ab \o l \in Seq(C)
    BY <1>5, <1>6, <1>7
  <2> HIDE DEF ab
  <2>2. (ab \o l) \o (m \o o) = ((ab \o l) \o m) \o o
    <3> DEFINE abl == ab \o l
    <3>1. abl \in Seq(C)
      BY <2>1
    <3> HIDE DEF abl
    <3>2. abl \o (m \o o) = (abl \o m) \o o
      BY <1>5, <1>6, <1>8, <3>1
    <3>3. QED
      BY <3>2 DEF abl
  <2>3. ab \o (l \o m) = (ab \o l) \o m
    BY <1>5, <1>8, <2>1, SMTT(30)
  <2>4. QED
    BY <2>2, <2>3 DEF ab
<1>10. a \o (((m \o bang) \o l) \o o) = (((a \o m) \o bang) \o l) \o o
  <2> DEFINE mb == m \o bang
             mbl == mb \o l
             am == a \o m
  <2>1. mb \in Seq(C) /\ mbl \in Seq(C)
    BY <1>5, <1>6, <1>7
  <2>2. a \o mb = am \o bang
    BY <1>5, <1>6, <1>8
  <2>3. a \o mbl = (a \o mb) \o l
    <3> HIDE DEF mb
    <3>1. QED
      BY <1>5, <1>8, <2>1
  <2>4. a \o (mbl \o o) = (a \o mbl) \o o
    <3> HIDE DEF mbl
    <3>1. mbl \in Seq(C)
      BY <2>1
    <3>2. a \in Seq(C) /\ mbl \in Seq(C) /\ o \in Seq(C)
      BY <1>5, <1>6, <3>1
    <3>3. QED
      BY <3>2, ThreeTexts
  <2> HIDE DEF mbl
  <2>5. QED
    BY <2>2, <2>3, <2>4 DEF mbl
<1>11. QED
  BY <1>2, <1>3, <1>4, <1>9, <1>10 DEF WrittenAfter

\* There is one way to a node.
LEMMA OneWay ==
    ASSUME chapter \in Chapters, NEW n, NEW v, IsWay(v, n), NEW w, IsWay(w, n)
    PROVE  v = w
<1> DEFINE a == Len(v)
           b == Len(w)
<1>1. a \in Nat /\ b \in Nat /\ v \in Seq(Nodes) /\ w \in Seq(Nodes) /\ Up(v, a) = n /\ Up(w, b) = n
  BY OnWay DEF IsWay
<1>2. /\ \A i \in 1..a : Parent(v[i]) = Up(v, i - 1) /\ v[i] = Up(v, i) /\ v[i] # 0
      /\ \A i \in 1..b : Parent(w[i]) = Up(w, i - 1) /\ w[i] = Up(w, i) /\ w[i] # 0
  <2>1. 0 \notin Nodes
    BY TreeFacts DEF Tree
  <2>2. (\A i \in 1..a : Parent(v[i]) = Up(v, i - 1)) /\ (\A i \in 1..b : Parent(w[i]) = Up(w, i - 1))
    BY DEF IsWay
  <2>3. (\A i \in 1..a : v[i] \in Nodes) /\ (\A i \in 1..b : w[i] \in Nodes)
    BY <1>1
  <2>4. (\A i \in 1..a : v[i] = Up(v, i)) /\ (\A i \in 1..b : w[i] = Up(w, i))
    BY <1>1 DEF Up
  <2> HIDE DEF a, b
  <2>5. QED
    BY <2>1, <2>2, <2>3, <2>4
<1>3. Up(v, 0) = 0 /\ Up(w, 0) = 0
  BY DEF Up
<1> DEFINE least == IF a < b THEN a ELSE b
           N == {k \in 0..least : Up(v, a - k) = Up(w, b - k)}
<1>4. v = [i \in 1..a |-> v[i]] /\ w = [i \in 1..b |-> w[i]]
  BY <1>1
<1> HIDE DEF a, b
<1>5. least \in Nat /\ least <= a /\ least <= b /\ (least = a \/ least = b)
  BY <1>1
<1> HIDE DEF least
<1>6. 0 \in N
  BY <1>1, <1>5
<1>7. ASSUME NEW k \in 0..(least - 1), k \in N
      PROVE  k + 1 \in N
  <2>1. a - k \in 1..a /\ b - k \in 1..b /\ (a - k) - 1 = a - (k + 1) /\ (b - k) - 1 = b - (k + 1)
    BY <1>1, <1>5
  <2>2. v[a - k] = w[b - k]
    BY <1>2, <1>7, <2>1
  <2>3. Up(v, (a - k) - 1) = Up(w, (b - k) - 1)
    BY <1>2, <2>1, <2>2
  <2>4. QED
    BY <1>5, <2>1, <2>3
<1> HIDE DEF N
<1>8. 0..least \subseteq N
  BY <1>5, <1>6, <1>7, BoundedInduction
<1>9. \A k \in 0..least : Up(v, a - k) = Up(w, b - k)
  BY <1>8 DEF N
<1>10. a = b
  <2>1. Up(v, a - least) = Up(w, b - least)
    BY <1>5, <1>9
  <2>2. ASSUME least = a, a # b
        PROVE  FALSE
    <3>1. b - a \in 1..b /\ a - a = 0
      BY <1>1, <1>5, <2>2
    <3>2. Up(w, b - a) # 0
      BY <1>2, <3>1
    <3>3. QED
      BY <1>3, <2>1, <2>2, <3>1, <3>2
  <2>3. ASSUME least = b, a # b
        PROVE  FALSE
    <3>1. a - b \in 1..a /\ b - b = 0
      BY <1>1, <1>5, <2>3
    <3>2. Up(v, a - b) # 0
      BY <1>2, <3>1
    <3>3. QED
      BY <1>3, <2>1, <2>3, <3>1, <3>2
  <2>4. QED
    BY <1>5, <2>2, <2>3
<1>11. \A i \in 1..a : v[i] = w[i]
  <2>1. TAKE i \in 1..a
  <2>2. a - i \in 0..least /\ a - (a - i) = i /\ b - (a - i) = i
    BY <1>1, <1>5, <1>10
  <2>3. Up(v, i) = Up(w, i)
    BY <1>9, <2>2
  <2>4. QED
    BY <1>2, <1>10, <2>3
<1>12. QED
  BY <1>4, <1>10, <1>11

\* The point an end of a match is: the steps of the text, and an offset.
HitPoint(w, offset) == Path(BaseSteps, StepsOf(w), offset)

\* Either end of a match, written after the parent, reads as its point.
LEMMA HitJoined ==
    ASSUME NEW ids, Readable(ids), chapter \in Chapters, NEW node \in TextNodes,
           NEW v, IsWay(v, Parent(node)), NEW offset \in Nat,
           NEW c, c.parent = MarkPath(v)
    PROVE  LET w == Append(v, node) IN
           /\ IsWay(w, node) /\ HitPoint(w, offset) \in PathOf(ids)
           /\ Joined(c, TextPath(IndexOf(node), offset)) = Point(HitPoint(w, offset))
<1> DEFINE w == Append(v, node)
           step == Step(IndexOf(node), Absent)
           steps == StepsOf(v)
<1>1. node \in Nodes /\ node \notin Elements
  BY DEF TextNodes, Elements
<1>2. IsWay(w, node) /\ StepsOf(w) = Append(steps, StepTo(node)) /\ StepTo(node) = step
  BY <1>1, WayExtends DEF StepTo
<1>3. BaseSteps \in Seq(StepOf(ids)) /\ steps \in Seq(StepOf(ids)) /\ StepsOf(w) \in Seq(StepOf(ids))
  BY <1>1, <1>2, WaySteps, BaseSpelled
<1>4. step \in StepOf(ids)
  BY <1>1, CountTyped DEF Step, StepOf
<1>5. Unescaped(ids) /\ Apart(ids) /\ offset \in Offset
  BY DEF Readable, Offset
<1> HIDE DEF w, step, steps
<1>6. <<step>> \in Seq(StepOf(ids)) /\ steps \o <<step>> = Append(steps, step)
  BY <1>3, <1>4
<1>7. PrintPath(MarkPath(v)) \o PrintPath(TextPath(IndexOf(node), offset)) = PrintPath(HitPoint(w, offset))
  <2> DEFINE more == <<step>>
  <2>1. /\ BaseSteps \in Seq(StepOf(ids)) /\ steps \in Seq(StepOf(ids)) /\ more \in Seq(StepOf(ids))
        /\ Unescaped(ids) /\ Apart(ids) /\ offset \in Offset
    BY <1>3, <1>5, <1>6
  <2>2. steps \o more = StepsOf(w)
    BY <1>2, <1>6
  <2> HIDE DEF more
  <2>3. WrittenAfter(Path(BaseSteps, steps, Absent), Path(more, Absent, offset),
                     Path(BaseSteps, steps \o more, offset))
    BY <2>1, PathsJoined
  <2>4. QED
    BY <2>2, <2>3 DEF WrittenAfter, MarkPath, TextPath, HitPoint, more, steps, step
<1>8. HitPoint(w, offset) \in PathOf(ids) /\ Canonical(HitPoint(w, offset))
  BY <1>3, <1>5, PlainPath DEF HitPoint
<1>9. ParseCfi(Wrap(PrintPath(HitPoint(w, offset)))) = Point(HitPoint(w, offset))
  BY <1>5, <1>8, PointReadBack
<1>10. QED
  BY <1>2, <1>7, <1>8, <1>9 DEF Joined, w

\* It resolves to the text: an odd step behind the element around it.
LEMMA HitReaches ==
    ASSUME NEW ids, Readable(ids), chapter \in Chapters, NEW node \in TextNodes,
           NEW v, IsWay(v, Parent(node)), NEW offset \in Nat
    PROVE  LET r == Resolve(Point(HitPoint(Append(v, node), offset))).start
           IN /\ r.is_text_node /\ Follow(Front(r.steps)) = {Parent(node)}
              /\ Last(r.steps).index = ElementsBefore(node) /\ r.offset = offset
<1> DEFINE w == Append(v, node)
           p == HitPoint(w, offset)
           r == Resolve(Point(p)).start
           len == Len(v)
           steps == StepsOf(w)
<1>1. node \in Nodes /\ node \notin Elements /\ Parent(node) \in Elements \cup {0}
  <2>1. node \in Nodes /\ node \notin Elements
    BY DEF TextNodes, Elements
  <2>2. \A n \in Nodes : Parent(n) \in Elements \cup {0}
    BY TreeFacts DEF Tree
  <2>3. QED
    BY <2>1, <2>2
<1>2. IsWay(w, node)
  BY <1>1, WayExtends
<1>3. /\ len \in Nat /\ Len(w) = len + 1 /\ w[len + 1] = node
      /\ \A i \in 1..len : w[i] = v[i] /\ v[i] \in Nodes
  <2>1. len \in Nat /\ v \in Seq(Nodes)
    BY OnWay DEF IsWay
  <2>2. QED
    BY <1>1, <2>1, Appended
<1>4. /\ steps \in Seq(StepOf(ids)) /\ Len(steps) = len + 1
      /\ \A i \in 1..(len + 1) : steps[i].index = IndexOf(w[i])
  <2>1. /\ steps \in Seq(StepOf(ids)) /\ Len(steps) = Len(w)
        /\ \A i \in 1..Len(w) : steps[i].index = IndexOf(w[i])
    BY <1>2, WaySteps
  <2> HIDE DEF w, steps, len
  <2>2. QED
    BY <1>3, <2>1
<1>5. p \in PathOf(ids) /\ p.steps = BaseSteps /\ p.local = steps /\ p.offset = offset
  <2>1. BaseSteps \in Seq(StepOf(ids)) /\ Unescaped(ids) /\ offset \in Offset
    BY BaseSpelled DEF Readable, Offset
  <2> HIDE DEF steps
  <2>2. Path(BaseSteps, steps, offset) \in PathOf(ids)
    BY <1>4, <2>1, PlainPath
  <2>3. QED
    BY <2>2 DEF HitPoint, Path, steps
<1> HIDE DEF p, steps, w, len
<1>6. DOMAIN steps = 1..(len + 1) /\ steps # << >> /\ Last(steps) = steps[len + 1]
  BY <1>3, <1>4 DEF Last
<1>7. /\ r.steps = [i \in DOMAIN steps |-> ResolvedStep(steps[i])]
      /\ r.is_text_node = IsTextNode(Last(steps)) /\ r.offset = offset
  <2>1. p \in PathOf(ids) /\ p.steps = BaseSteps /\ p.local \in Seq(StepOf(ids)) /\ p.local # << >>
    BY <1>4, <1>5, <1>6
  <2>2. /\ r.steps = [i \in DOMAIN p.local |-> ResolvedStep(p.local[i])]
        /\ r.is_text_node = IsTextNode(Last(p.local)) /\ r.offset = p.offset
    BY <2>1, PathResolved
  <2> HIDE DEF r
  <2>3. QED
    BY <1>5, <2>2
<1> HIDE DEF r
<1> DEFINE s == [i \in 1..(len + 1) |-> ResolvedStep(steps[i])]
<1>8. r.steps = s
  BY <1>6, <1>7
<1>9. \A i \in 1..len : s[i].index = ElementsBefore(v[i])
  <2> TAKE i \in 1..len
  <2>1. i \in 1..(len + 1)
    BY <1>3
  <2>2. steps[i].index = IndexOf(v[i]) /\ v[i] \in Nodes
    BY <1>3, <1>4, <2>1
  <2>3. ResolvedStep(steps[i]).index = ElementsBefore(v[i])
    BY <2>2, StepResolved
  <2>4. QED
    BY <2>1, <2>3
<1>10. s[len + 1].index = ElementsBefore(node) /\ IsTextNode(steps[len + 1])
  <2>1. len + 1 \in 1..(len + 1)
    BY <1>3
  <2>2. steps[len + 1].index = IndexOf(node)
    BY <1>3, <1>4, <2>1
  <2>3. ResolvedStep(steps[len + 1]).index = ElementsBefore(node) /\ IsTextNode(steps[len + 1])
    BY <1>1, <2>2, StepResolved
  <2>4. QED
    BY <2>1, <2>3
<1> DEFINE C == {ResolvedStep(steps[i]) : i \in 1..(len + 1)}
<1>11. s \in Seq(C) /\ Len(s) = len + 1
  BY <1>3
<1> HIDE DEF s, C
<1>12. /\ Front(s) \in Seq(C) /\ Len(Front(s)) = len
       /\ \A i \in 1..len : Front(s)[i] = s[i]
  BY <1>3, <1>11 DEF Front
<1>13. Last(s) = s[len + 1]
  BY <1>3, <1>11 DEF Last
<1>14. Follow(Front(s)) = {Parent(node)}
  <2> DEFINE f == Front(s)
  <2>1. /\ f \in Seq(C) /\ Len(f) = Len(v) /\ \A i \in 1..Len(v) : f[i].index = ElementsBefore(v[i])
    BY <1>9, <1>12 DEF len
  <2> HIDE DEF f
  <2>2. Follow(f) = {Parent(node)}
    BY <1>1, <2>1, WayFollowed
  <2>3. QED
    BY <2>2 DEF f
<1>15. r.is_text_node /\ Follow(Front(r.steps)) = {Parent(node)}
       /\ Last(r.steps).index = ElementsBefore(node) /\ r.offset = offset
  BY <1>6, <1>7, <1>8, <1>10, <1>13, <1>14
<1>16. QED
  BY <1>15 DEF r, p, w

\* Offsets order the points of one text, and nodes those of several.
LEMMA HitsCompare ==
    ASSUME NEW ids, Readable(ids), chapter \in Chapters, NEW n, NEW v, IsWay(v, n),
           NEW m, NEW w, IsWay(w, m), NEW a \in Nat, NEW b \in Nat
    PROVE  LET order == CompareCfi(Point(HitPoint(v, a)), Point(HitPoint(w, b))) IN
           /\ v = w => order = Cmp(a, b)
           /\ CompareSteps(StepsOf(v), StepsOf(w)) = -1 => order = -1
           /\ Point(HitPoint(v, a)).parent.local = StepsOf(v)
<1> DEFINE p == HitPoint(v, a)
           q == HitPoint(w, b)
<1>1. /\ StepsOf(v) \in Seq(StepOf(ids)) /\ StepsOf(w) \in Seq(StepOf(ids))
      /\ BaseSteps \in Seq(StepOf(ids)) /\ Unescaped(ids) /\ a \in Offset /\ b \in Offset
  BY WaySteps, BaseSpelled DEF Readable, Offset
<1>2. p \in PathOf(ids) /\ q \in PathOf(ids)
  BY <1>1, PlainPath DEF HitPoint
<1>3. /\ p.steps = BaseSteps /\ q.steps = BaseSteps /\ LocalOf(p) = StepsOf(v) /\ LocalOf(q) = StepsOf(w)
      /\ p.offset = a /\ q.offset = b /\ p.temporal = Absent /\ q.temporal = Absent
      /\ p.spatial = Absent /\ q.spatial = Absent /\ p.local = StepsOf(v)
  BY <1>1 DEF HitPoint, Path, LocalOf, Readable, Apart
<1>4. CompareCfi(Point(p), Point(q)) = ComparePath(p, q) /\ Point(p).parent = p
  BY DEF CompareCfi, Point
<1> HIDE DEF p, q
<1>5. CompareSteps(BaseSteps, BaseSteps) = 0 /\ CompareSteps(StepsOf(v), StepsOf(v)) = 0
  BY <1>1, StepsCompare DEF SameSteps
<1>6. ASSUME CompareSteps(StepsOf(v), StepsOf(w)) = -1
      PROVE  ComparePath(p, q) = -1
  BY <1>2, <1>3, <1>5, <1>6, PathsLevel
<1>7. ASSUME v = w
      PROVE  ComparePath(p, q) = Cmp(a, b)
  <2>1. CompareSteps(LocalOf(p), LocalOf(q)) = 0
    BY <1>3, <1>5, <1>7
  <2>2. ComparePath(p, q) = CompareOffset(a, b)
    BY <1>2, <1>3, <1>5, <2>1, PathsLevel
  <2>3. CompareOffset(a, b) = Cmp(a, b)
    BY AbsentAssumption DEF CompareOffset
  <2>4. QED
    BY <2>2, <2>3
<1>8. QED
  BY <1>3, <1>4, <1>6, <1>7 DEF p, q

\* What is known of a match found: its CFI, and what its ends read as.
HitOf(i, v, c) ==
    LET node == found[i].node
        match == found[i].match
    IN /\ node \in TextNodes /\ match[1] \in Nat /\ match[2] \in Nat
       /\ IsWay(v, Parent(node)) /\ IsWay(Append(v, node), node)
       /\ c = ParseCfi(found[i].cfi) /\ c.kind = "range"
       /\ Joined(c, c.start) = Point(HitPoint(Append(v, node), match[1]))
       /\ Joined(c, c.end) = Point(HitPoint(Append(v, node), match[2]))

\* Every match found has a way to it.
LEMMA HitFound ==
    ASSUME NEW ids, Readable(ids), chapter \in Chapters, FoundInv(ids), NEW i \in DOMAIN found
    PROVE  \E v : HitOf(i, v, ParseCfi(found[i].cfi))
<1> DEFINE r == found[i]
           node == r.node
           match == r.match
           c == ParseCfi(r.cfi)
<1>1. r \in MatchOf(Writing(ids)) /\ Reported(r)
  <2>1. r \in Hits(ids)
    BY DEF FoundInv
  <2>2. QED
    BY <2>1 DEF Hits
<1> HIDE DEF r
<1>2. node \in TextNodes /\ node \in Nodes /\ match[1] \in Nat /\ match[2] \in Nat
  BY <1>1 DEF MatchOf, Reported
<1>3. PICK v : IsWay(v, Parent(node)) /\ r.cfi = MatchText(v, node, match)
  BY <1>1 DEF Reported
<1> HIDE DEF node, match
<1> DEFINE s == TextPath(IndexOf(node), match[1])
           e == TextPath(IndexOf(node), match[2])
<1>4. ParseCfi(MatchText(v, node, match)) = RangeOf(MarkPath(v), s, e)
  BY <1>2, <1>3, MatchRead
<1>5. c = RangeOf(MarkPath(v), s, e)
  BY <1>3, <1>4
<1> HIDE DEF c
<1>6. c.kind = "range" /\ c.parent = MarkPath(v) /\ c.start = s /\ c.end = e
  <2> HIDE DEF s, e
  <2>1. QED
    BY <1>5 DEF RangeOf
<1>7. /\ IsWay(Append(v, node), node)
      /\ Joined(c, s) = Point(HitPoint(Append(v, node), match[1]))
  BY <1>2, <1>3, <1>6, HitJoined
<1>8. Joined(c, e) = Point(HitPoint(Append(v, node), match[2]))
  BY <1>2, <1>3, <1>6, HitJoined
<1> HIDE DEF s, e
<1>9. /\ node \in TextNodes /\ match[1] \in Nat /\ match[2] \in Nat
      /\ IsWay(v, Parent(node)) /\ IsWay(Append(v, node), node) /\ c.kind = "range"
      /\ Joined(c, c.start) = Point(HitPoint(Append(v, node), match[1]))
      /\ Joined(c, c.end) = Point(HitPoint(Append(v, node), match[2]))
  BY <1>2, <1>3, <1>6, <1>7, <1>8
<1>10. HitOf(i, v, c)
  BY <1>9 DEF HitOf, node, match, r, c
<1>11. QED
  BY <1>10 DEF c, r

\* An end of a match, resolved.
At(i, c, half, offset) ==
    LET r == Resolve(Joined(c, half)).start
    IN /\ r.is_text_node /\ Follow(Front(r.steps)) = {Parent(found[i].node)}
       /\ Last(r.steps).index = ElementsBefore(found[i].node) /\ r.offset = offset

\* Both ends lead to their text, in the order of their offsets.
LEMMA HitNamesText ==
    ASSUME NEW ids, Readable(ids), chapter \in Chapters, NEW i, NEW v, NEW c, HitOf(i, v, c)
    PROVE  /\ c.kind = "range"
           /\ At(i, c, c.start, found[i].match[1]) /\ At(i, c, c.end, found[i].match[2])
           /\ CompareCfi(Joined(c, c.start), Joined(c, c.end)) = Cmp(found[i].match[1], found[i].match[2])
<1> DEFINE node == found[i].node
           a == found[i].match[1]
           b == found[i].match[2]
           w == Append(v, node)
           p == Joined(c, c.start)
           q == Joined(c, c.end)
<1>1. /\ node \in TextNodes /\ a \in Nat /\ b \in Nat /\ IsWay(v, Parent(node)) /\ IsWay(w, node)
      /\ c.kind = "range" /\ p = Point(HitPoint(w, a)) /\ q = Point(HitPoint(w, b))
  BY DEF HitOf
<1> DEFINE r(x) == Resolve(x).start
           Leads_(x, offset) ==
             /\ r(x).is_text_node /\ Follow(Front(r(x).steps)) = {Parent(node)}
             /\ Last(r(x).steps).index = ElementsBefore(node) /\ r(x).offset = offset
<1> HIDE DEF a, b, p, q, node
<1>2. Leads_(Point(HitPoint(w, a)), a) /\ Leads_(Point(HitPoint(w, b)), b)
  BY <1>1, HitReaches
<1>3. Leads_(p, a) /\ Leads_(q, b)
  <2> HIDE DEF Leads_, w
  <2>1. QED
    BY <1>1, <1>2
<1>4. At(i, c, c.start, a) /\ At(i, c, c.end, b)
  BY <1>3 DEF At, p, q, node
<1>5. CompareCfi(p, q) = Cmp(a, b)
  <2> HIDE DEF w
  <2>1. CompareCfi(Point(HitPoint(w, a)), Point(HitPoint(w, b))) = Cmp(a, b)
    BY <1>1, HitsCompare
  <2>2. QED
    BY <1>1, <2>1
<1>6. QED
  BY <1>1, <1>4, <1>5 DEF a, b, p, q

\* Of two matches the one that precedes is lower, or they are in texts that
\* share a step.
LEMMA HitsInOrder ==
    ASSUME NEW ids, Readable(ids), chapter \in Chapters, NEW i, NEW w, NEW c, HitOf(i, w, c),
           NEW j, NEW v, NEW d, HitOf(j, v, d), Precedes(found[j], found[i])
    PROVE  \/ CompareCfi(Joined(d, d.start), Joined(c, c.start)) = -1
           \/ /\ found[i].node # found[j].node
              /\ SameSteps(Joined(d, d.start).parent.local, Joined(c, c.start).parent.local)
<1> DEFINE n == found[j].node
           m == found[i].node
           a == found[j].match[1]
           b == found[i].match[1]
           vn == Append(v, n)
           wm == Append(w, m)
           p == Joined(d, d.start)
           q == Joined(c, c.start)
<1>1. /\ n \in TextNodes /\ a \in Nat /\ IsWay(vn, n) /\ p = Point(HitPoint(vn, a))
      /\ m \in TextNodes /\ b \in Nat /\ IsWay(wm, m) /\ q = Point(HitPoint(wm, b))
  BY DEF HitOf
<1>2. n < m \/ (n = m /\ a < b)
  BY Zenon DEF Precedes
<1> HIDE DEF n, m, a, b, vn, wm, p, q
<1>3. n \in Nodes /\ m \in Nodes /\ n \in Nat /\ m \in Nat
  <2>1. n \in Nodes /\ m \in Nodes
    BY <1>1 DEF TextNodes
  <2>2. Nodes \subseteq Nat
    BY TreeFacts DEF Tree
  <2>3. QED
    BY <2>1, <2>2
<1>4. /\ vn = wm => CompareCfi(p, q) = Cmp(a, b)
      /\ CompareSteps(StepsOf(vn), StepsOf(wm)) = -1 => CompareCfi(p, q) = -1
      /\ p.parent.local = StepsOf(vn)
  BY <1>1, HitsCompare
<1>5. q.parent.local = StepsOf(wm)
  BY <1>1, HitsCompare
<1>6. CASE n < m
  <2>1. \/ CompareSteps(StepsOf(vn), StepsOf(wm)) = -1
        \/ SameSteps(StepsOf(vn), StepsOf(wm))
    BY <1>1, <1>3, <1>6, WaysOrdered
  <2>2. n # m
    BY <1>3, <1>6
  <2>3. QED
    BY <1>4, <1>5, <2>1, <2>2 DEF n, m, p, q
<1>7. CASE n = m /\ a < b
  <2>1. IsWay(vn, n) /\ IsWay(wm, n)
    BY <1>1, <1>7
  <2>2. vn = wm
    BY <2>1, OneWay
  <2>3. Cmp(a, b) = -1
    BY <1>7 DEF Cmp
  <2>4. QED
    BY <1>4, <2>2, <2>3 DEF p, q
<1>8. QED
  BY <1>2, <1>6, <1>7

\* A match's range names its text and its place in it, the matches come in
\* order, and none is missed.
THEOREM MatchesLeadBack ==
    ASSUME NEW CONSTANT ids, Readable(ids)
    PROVE  Spec => []MatchesNameTheirText
<1>1. CfiInv(ids) => MatchesNameTheirText
  <2> SUFFICES ASSUME CfiInv(ids) PROVE MatchesNameTheirText
    OBVIOUS
  <2>1. chapter \in Chapters /\ FoundInv(ids)
    BY DEF CfiInv, WalkInv
  <2> DEFINE named == {<<found[i].node, found[i].match>> : i \in DOMAIN found}
             all == UNION {{<<n, chapter.matches[n][k]>> : k \in DOMAIN chapter.matches[n]} : n \in TextNodes}
  <2>2. ASSUME mode = "search", ~Walking
        PROVE  named = all
    <3>1. Done = Nodes
      BY <2>2 DEF Walking, Done, Pended, Visited
    <3>2. \A i \in DOMAIN found :
            /\ found[i].node \in TextNodes
            /\ \E k \in DOMAIN chapter.matches[found[i].node] : found[i].match = chapter.matches[found[i].node][k]
      <4>1. TAKE i \in DOMAIN found
      <4>2. found[i] \in Hits(ids)
        BY <2>1 DEF FoundInv
      <4>3. QED
        BY <4>2 DEF Hits, Reported
    <3>3. TextNodes \cap Nodes = TextNodes
      BY DEF TextNodes
    <3>4. \A n \in TextNodes : \A k \in DOMAIN chapter.matches[n] :
            \E i \in DOMAIN found : found[i].node = n /\ found[i].match = chapter.matches[n][k]
      BY <2>1, <2>2, <3>1, <3>3 DEF FoundInv
    <3>5. named \subseteq all
      BY <3>2
    <3>6. all \subseteq named
      BY <3>4
    <3>7. QED
      BY <3>5, <3>6
  <2>3. ASSUME NEW i \in DOMAIN found
        PROVE  LET c == ParseCfi(found[i].cfi) IN
               /\ c.kind = "range"
               /\ At(i, c, c.start, found[i].match[1]) /\ At(i, c, c.end, found[i].match[2])
               /\ CompareCfi(Joined(c, c.start), Joined(c, c.end)) = Cmp(found[i].match[1], found[i].match[2])
    <3>1. \E v : HitOf(i, v, ParseCfi(found[i].cfi))
      BY <2>1, HitFound
    <3>2. QED
      BY <2>1, <3>1, HitNamesText
  <2>4. ASSUME NEW i \in DOMAIN found, NEW j \in 1..(i - 1)
        PROVE  LET c == ParseCfi(found[i].cfi)
                   d == ParseCfi(found[j].cfi)
               IN \/ CompareCfi(Joined(d, d.start), Joined(c, c.start)) = -1
                  \/ /\ found[i].node # found[j].node
                     /\ SameSteps(Joined(d, d.start).parent.local, Joined(c, c.start).parent.local)
    <3>1. j \in DOMAIN found /\ j < i
      <4>1. found \in Seq(Hits(ids))
        BY <2>1 DEF FoundInv
      <4> DEFINE len == Len(found)
      <4>2. DOMAIN found = 1..len /\ len \in Nat
        BY <4>1
      <4> HIDE DEF len
      <4>3. QED
        BY <2>4, <4>2
    <3>2. Precedes(found[j], found[i])
      BY <2>1, <2>4, <3>1 DEF FoundInv
    <3>3. PICK w : HitOf(i, w, ParseCfi(found[i].cfi))
      BY <2>1, <2>4, HitFound
    <3>4. PICK v : HitOf(j, v, ParseCfi(found[j].cfi))
      BY <2>1, <3>1, HitFound
    <3>5. QED
      BY <2>1, <3>2, <3>3, <3>4, HitsInOrder
  <2> HIDE DEF named, all
  <2>5. QED
    BY <2>2, <2>3, <2>4, Zenon DEF MatchesNameTheirText, At, named, all, TextNodes
<1>2. QED
  BY <1>1, ChapterIsWalked, PTL

-----------------------------------------------------------------------------
\* Ranges keep their points.

\* Signs that begin with zeros: the first difference is that of the others.
LEMMA ZerosDropped ==
    ASSUME NEW n \in Nat, NEW k \in 0..n, NEW u \in [1..n -> Sign], NEW v \in [1..(n - k) -> Sign],
           \A i \in 1..n : i <= k => u[i] = 0, \A i \in 1..(n - k) : v[i] = u[k + i]
    PROVE  FirstDifference(v) = FirstDifference(u)
<1>1. n - k \in Nat
  OBVIOUS
<1>2. CASE FirstDifference(v) = 0 /\ \A i \in 1..(n - k) : v[i] = 0
  <2>1. \A i \in 1..n : u[i] = 0
    <3> TAKE i \in 1..n
    <3>1. CASE i <= k
      BY <3>1
    <3>2. CASE ~(i <= k)
      <4>1. i - k \in 1..(n - k) /\ k + (i - k) = i
        BY <3>2
      <4>2. QED
        BY <1>2, <4>1
    <3>3. QED
      BY <3>1, <3>2
  <2>2. FirstDifference(u) = 0
    BY <2>1, NoDifference
  <2>3. QED
    BY <1>2, <2>2
<1>3. CASE \E j \in 1..(n - k) : /\ v[j] # 0 /\ FirstDifference(v) = v[j]
                                 /\ \A i \in 1..(n - k) : i < j => v[i] = 0
  <2>1. PICK j \in 1..(n - k) : /\ v[j] # 0 /\ FirstDifference(v) = v[j]
                                /\ \A i \in 1..(n - k) : i < j => v[i] = 0
    BY <1>3
  <2>2. k + j \in 1..n /\ u[k + j] = v[j]
    OBVIOUS
  <2>3. \A i \in 1..n : i < k + j => u[i] = 0
    <3> TAKE i \in 1..n
    <3>1. CASE i <= k
      BY <3>1
    <3>2. CASE ~(i <= k) /\ i < k + j
      <4>1. i - k \in 1..(n - k) /\ k + (i - k) = i /\ i - k < j
        BY <3>2
      <4>2. QED
        BY <2>1, <4>1
    <3>3. QED
      BY <3>1, <3>2
  <2> DEFINE l == k + j
  <2>4. l \in 1..n /\ u[l] # 0 /\ \A i \in 1..n : i < l => u[i] = 0
    BY <2>1, <2>2, <2>3
  <2> HIDE DEF l
  <2>5. FirstDifference(u) = u[l]
    BY <2>4, FirstSign
  <2>6. QED
    BY <2>1, <2>2, <2>5 DEF l
<1>4. QED
  BY <1>1, <1>2, <1>3, FirstOfSigns

\* What two lists begin with in common does not order them.
LEMMA CommonDropped ==
    ASSUME NEW chars, NEW s \in Seq(StepOf(chars)), NEW t \in Seq(StepOf(chars)),
           NEW k \in Nat, k \in 0..Len(s), k \in 0..Len(t), \A i \in 1..k : s[i].index = t[i].index
    PROVE  CompareSteps(After(s, k), After(t, k)) = CompareSteps(s, t)
<1> DEFINE n == Len(s) + Len(t)
           sk == After(s, k)
           tk == After(t, k)
           u == [i \in 1..n |-> Cmp(Padded(s, i), Padded(t, i))]
           v == [i \in 1..(n - k) |-> Cmp(Padded(sk, i), Padded(tk, i))]
<1>1. Len(s) \in Nat /\ Len(t) \in Nat
  OBVIOUS
<1>2. /\ sk \in Seq(StepOf(chars)) /\ Len(sk) = Len(s) - k /\ \A i \in 1..(Len(s) - k) : sk[i] = s[k + i]
      /\ tk \in Seq(StepOf(chars)) /\ Len(tk) = Len(t) - k /\ \A i \in 1..(Len(t) - k) : tk[i] = t[k + i]
  BY AfterFacts
<1> DEFINE a == Len(s)
           b == Len(t)
<1> HIDE DEF sk, tk
<1>3. /\ n = a + b /\ a \in Nat /\ b \in Nat /\ k <= a /\ k <= b
      /\ Len(sk) = a - k /\ Len(tk) = b - k
  BY <1>1, <1>2
<1>4. \A i \in 1..(n - k) : Padded(sk, i) = Padded(s, k + i) /\ Padded(tk, i) = Padded(t, k + i)
  <2> TAKE i \in 1..(n - k)
  <2>1. Padded(sk, i) = Padded(s, k + i)
    <3>1. i <= Len(sk) <=> k + i <= a
      BY <1>3
    <3>2. ASSUME i <= Len(sk)
          PROVE  sk[i] = s[k + i]
      <4>1. i \in 1..(a - k)
        BY <1>3, <3>2
      <4>2. QED
        BY <1>2, <4>1
    <3>3. QED
      BY <3>1, <3>2 DEF Padded
  <2>2. Padded(tk, i) = Padded(t, k + i)
    <3>1. i <= Len(tk) <=> k + i <= b
      BY <1>3
    <3>2. ASSUME i <= Len(tk)
          PROVE  tk[i] = t[k + i]
      <4>1. i \in 1..(b - k)
        BY <1>3, <3>2
      <4>2. QED
        BY <1>2, <4>1
    <3>3. QED
      BY <3>1, <3>2 DEF Padded
  <2>3. QED
    BY <2>1, <2>2
<1>5. u \in [1..n -> Sign] /\ CompareSteps(s, t) = FirstDifference(u)
  <2>1. n \in Nat /\ Len(s) <= n /\ Len(t) <= n
    BY <1>3
  <2> HIDE DEF n
  <2>2. QED
    BY <2>1, StepsPadded
<1>6. v \in [1..(n - k) -> Sign] /\ CompareSteps(sk, tk) = FirstDifference(v)
  <2> DEFINE nk == n - k
  <2>1. nk \in Nat /\ Len(sk) <= nk /\ Len(tk) <= nk
    BY <1>3
  <2> HIDE DEF n, nk
  <2>2. /\ [i \in 1..nk |-> Cmp(Padded(sk, i), Padded(tk, i))] \in [1..nk -> Sign]
        /\ CompareSteps(sk, tk) = FirstDifference([i \in 1..nk |-> Cmp(Padded(sk, i), Padded(tk, i))])
    BY <1>2, <2>1, StepsPadded
  <2>3. QED
    BY <2>2 DEF nk
<1>7. \A i \in 1..n : i <= k => u[i] = 0
  <2> TAKE i \in 1..n
  <2>1. ASSUME i <= k
        PROVE  u[i] = 0
    <3>1. Padded(s, i) = Padded(t, i)
      BY <1>3, <2>1 DEF Padded
    <3>2. Padded(s, i) \in Int
      <4>1. i <= Len(s) /\ i \in 1..Len(s)
        BY <1>3, <2>1
      <4>2. s[i] \in StepOf(chars)
        BY <4>1
      <4> DEFINE x == s[i]
      <4> HIDE DEF x
      <4>3. x.index \in Nat
        BY <4>2 DEF StepOf, x
      <4>4. QED
        BY <4>1, <4>3 DEF Padded, x
    <3>3. Cmp(Padded(s, i), Padded(t, i)) = 0
      BY <3>1, <3>2 DEF Cmp
    <3>4. QED
      BY <3>3
  <2>2. QED
    BY <2>1
<1>8. \A i \in 1..(n - k) : v[i] = u[k + i]
  BY <1>3, <1>4
<1>9. n \in Nat /\ k \in 0..n
  BY <1>3
<1> HIDE DEF n, u, v
<1>10. FirstDifference(v) = FirstDifference(u)
  BY <1>5, <1>6, <1>7, <1>8, <1>9, ZerosDropped
<1>11. QED
  BY <1>5, <1>6, <1>10 DEF sk, tk

\* The first steps of one list before the rest of another that begins so.
LEMMA CommonKept ==
    ASSUME NEW chars, NEW s \in Seq(StepOf(chars)), NEW t \in Seq(StepOf(chars)),
           NEW k \in Nat, k \in 0..Len(s), k \in 0..Len(t), \A i \in 1..k : s[i].index = t[i].index
    PROVE  /\ SubSeq(s, 1, k) \in Seq(StepOf(chars)) /\ After(t, k) \in Seq(StepOf(chars))
           /\ SubSeq(s, 1, k) \o After(t, k) \in Seq(StepOf(chars))
           /\ SameSteps(SubSeq(s, 1, k) \o After(t, k), t)
           /\ k = Len(t) => SameSteps(SubSeq(s, 1, k), t)
<1> DEFINE front == SubSeq(s, 1, k)
           rest == After(t, k)
           b == Len(t)
<1>1. front \in Seq(StepOf(chars)) /\ Len(front) = k /\ \A i \in 1..k : front[i] = s[i]
  BY PartedAt
<1>2. /\ rest \in Seq(StepOf(chars)) /\ Len(rest) = b - k /\ b \in Nat
      /\ \A i \in 1..(b - k) : rest[i] = t[k + i]
  BY AfterFacts
<1> HIDE DEF front, rest
<1>3. /\ front \o rest \in Seq(StepOf(chars)) /\ Len(front \o rest) = k + (b - k)
      /\ \A i \in 1..k : (front \o rest)[i] = front[i]
      /\ \A i \in 1..(b - k) : (front \o rest)[k + i] = rest[i]
  BY <1>1, <1>2, Concatenated
<1> DEFINE whole == front \o rest
<1> HIDE DEF whole
<1>4. whole \in Seq(StepOf(chars)) /\ Len(whole) = b /\ DOMAIN whole = 1..b
  <2>1. whole \in Seq(StepOf(chars)) /\ Len(whole) = k + (b - k)
    BY <1>3 DEF whole
  <2>2. QED
    BY <1>2, <2>1
<1>5. \A i \in 1..b : whole[i].index = t[i].index
  <2> TAKE i \in 1..b
  <2>1. CASE i <= k
    <3>1. i \in 1..k
      BY <1>2, <2>1
    <3>2. whole[i] = s[i]
      BY <1>1, <1>3, <3>1 DEF whole
    <3>3. QED
      BY <3>1, <3>2
  <2>2. CASE ~(i <= k)
    <3>1. i - k \in 1..(b - k) /\ k + (i - k) = i
      BY <1>2, <2>2
    <3>2. whole[i] = t[i]
      <4>1. whole[k + (i - k)] = rest[i - k] /\ rest[i - k] = t[k + (i - k)]
        BY <1>2, <1>3, <3>1 DEF whole
      <4>2. QED
        BY <3>1, <4>1
    <3>3. QED
      BY <3>2
  <2>3. QED
    BY <2>1, <2>2
<1>6. SameSteps(whole, t)
  BY <1>4, <1>5 DEF SameSteps
<1>7. k = b => SameSteps(front, t)
  BY <1>1 DEF SameSteps
<1>8. QED
  BY <1>1, <1>2, <1>3, <1>6, <1>7 DEF whole, front, rest

\* A path without what a range drops, and a half of it after the parent.
PlainOf(p) == Path(p.steps, p.local, p.offset)
JoinedPath(p, s, e) ==
    LET base == CommonLen(s.steps, e.steps)
        local == CommonLen(LocalOf(s), LocalOf(e))
    IN IF WithinDocument(s, e)
       THEN Path(SubSeq(s.steps, 1, base), SubSeq(LocalOf(s), 1, local) \o After(LocalOf(p), local), p.offset)
       ELSE Path(SubSeq(s.steps, 1, base) \o After(p.steps, base), LocalOf(p), p.offset)

\* What a plain path consists of.
LEMMA PlainParts ==
    ASSUME NEW ids, Unescaped(ids), Apart(ids), NEW steps \in Seq(StepOf(ids)),
           NEW local \in Seq(StepOf(ids)) \cup {Absent}, NEW offset \in Offset,
           NEW p, p = Path(steps, local, offset)
    PROVE  /\ p \in PathOf(ids) /\ Canonical(p)
           /\ p.steps = steps /\ LocalOf(p) = (IF local = Absent THEN << >> ELSE local)
           /\ p.offset = offset /\ p.temporal = Absent /\ p.spatial = Absent
           /\ local \in Seq(StepOf(ids)) => LocalOf(p) = local
<1>1. Path(steps, local, offset) \in PathOf(ids) /\ Canonical(Path(steps, local, offset))
  BY PlainPath
<1>2. Absent \notin Seq(StepOf(ids))
  BY DEF Apart
<1>3. QED
  BY <1>1, <1>2 DEF Path, LocalOf

\* The steps of a path.
LEMMA PathSteps ==
    ASSUME NEW ids, NEW p \in PathOf(ids)
    PROVE  /\ p.steps \in Seq(StepOf(ids)) /\ LocalOf(p) \in Seq(StepOf(ids)) /\ p.offset \in Offset
           /\ p.local \in Seq(StepOf(ids)) \cup {Absent}
<1>1. p.steps \in Seq(StepOf(ids)) /\ p.offset \in Offset /\ p.local \in Seq(StepOf(ids)) \cup {Absent}
  BY DEF PathOf
<1>2. LocalOf(p) \in Seq(StepOf(ids))
  BY <1>1 DEF LocalOf
<1>3. QED
  BY <1>1, <1>2

\* A path without what a range drops has its steps and its offset.
LEMMA PlainSteps ==
    ASSUME NEW ids, Unescaped(ids), Apart(ids), NEW p \in PathOf(ids)
    PROVE  LET q == PlainOf(p) IN
           /\ q \in PathOf(ids) /\ q.steps = p.steps /\ LocalOf(q) = LocalOf(p) /\ q.offset = p.offset
           /\ q.temporal = Absent /\ q.spatial = Absent
<1> DEFINE q == PlainOf(p)
           c == p.steps
           x == p.local
           n == p.offset
<1>1. c \in Seq(StepOf(ids)) /\ x \in Seq(StepOf(ids)) \cup {Absent} /\ n \in Offset /\ q = Path(c, x, n)
  BY PathSteps DEF PlainOf
<1>2. Path(c, x, n) \in PathOf(ids)
  <2> HIDE DEF q, c, x, n
  <2>1. QED
    BY <1>1, PlainPath
<1>3. /\ q.steps = p.steps /\ LocalOf(q) = LocalOf(p) /\ q.offset = p.offset
      /\ q.temporal = Absent /\ q.spatial = Absent
  BY DEF PlainOf, Path, LocalOf
<1>4. QED
  BY <1>1, <1>2, <1>3

\* The common steps of two paths, followed by the others of either.
LEMMA PathsInCommon ==
    ASSUME NEW ids, NEW s \in PathOf(ids), NEW e \in PathOf(ids), NEW p \in {s, e}
    PROVE  LET base == CommonLen(s.steps, e.steps)
               local == CommonLen(LocalOf(s), LocalOf(e))
               steps == SubSeq(s.steps, 1, base)
               locals == SubSeq(LocalOf(s), 1, local)
           IN /\ steps \in Seq(StepOf(ids)) /\ After(p.steps, base) \in Seq(StepOf(ids))
              /\ steps \o After(p.steps, base) \in Seq(StepOf(ids))
              /\ SameSteps(steps \o After(p.steps, base), p.steps)
              /\ base = Len(p.steps) => SameSteps(steps, p.steps)
              /\ locals \in Seq(StepOf(ids)) /\ After(LocalOf(p), local) \in Seq(StepOf(ids))
              /\ locals \o After(LocalOf(p), local) \in Seq(StepOf(ids))
              /\ SameSteps(locals \o After(LocalOf(p), local), LocalOf(p))
<1> DEFINE a == s.steps
           b == e.steps
           c == p.steps
           l == LocalOf(s)
           m == LocalOf(e)
           o == LocalOf(p)
           base == CommonLen(a, b)
           local == CommonLen(l, m)
<1>1. /\ a \in Seq(StepOf(ids)) /\ b \in Seq(StepOf(ids)) /\ c \in {a, b}
      /\ l \in Seq(StepOf(ids)) /\ m \in Seq(StepOf(ids)) /\ o \in {l, m}
  BY PathSteps
<1> HIDE DEF a, b, c, l, m, o
<1>2. /\ base \in Nat /\ base \in 0..Len(a) /\ base \in 0..Len(b) /\ \A i \in 1..base : a[i].index = b[i].index
      /\ local \in Nat /\ local \in 0..Len(l) /\ local \in 0..Len(m)
      /\ \A i \in 1..local : l[i].index = m[i].index
  <2>1. /\ base \in Nat /\ base \in 0..Len(a) /\ base \in 0..Len(b)
        /\ \A i \in 1..base : a[i].index = b[i].index
    BY <1>1, CommonPart
  <2>2. /\ local \in Nat /\ local \in 0..Len(l) /\ local \in 0..Len(m)
        /\ \A i \in 1..local : l[i].index = m[i].index
    BY <1>1, CommonPart
  <2> HIDE DEF base, local
  <2>3. QED
    BY <2>1, <2>2
<1> HIDE DEF base, local
<1>3. /\ c \in Seq(StepOf(ids)) /\ base \in 0..Len(c) /\ \A i \in 1..base : a[i].index = c[i].index
  BY <1>1, <1>2
<1>4. /\ o \in Seq(StepOf(ids)) /\ local \in 0..Len(o) /\ \A i \in 1..local : l[i].index = o[i].index
  BY <1>1, <1>2
<1>5. /\ SubSeq(a, 1, base) \in Seq(StepOf(ids)) /\ After(c, base) \in Seq(StepOf(ids))
      /\ SubSeq(a, 1, base) \o After(c, base) \in Seq(StepOf(ids))
      /\ SameSteps(SubSeq(a, 1, base) \o After(c, base), c)
      /\ base = Len(c) => SameSteps(SubSeq(a, 1, base), c)
  BY <1>1, <1>2, <1>3, CommonKept
<1>6. /\ SubSeq(l, 1, local) \in Seq(StepOf(ids)) /\ After(o, local) \in Seq(StepOf(ids))
      /\ SubSeq(l, 1, local) \o After(o, local) \in Seq(StepOf(ids))
      /\ SameSteps(SubSeq(l, 1, local) \o After(o, local), o)
  BY <1>1, <1>2, <1>4, CommonKept
<1>7. QED
  BY <1>5, <1>6 DEF a, b, c, l, m, o, base, local

\* A half written after the parent is that path, and it is level with the
\* point it was made of.
LEMMA HalfJoined ==
    ASSUME NEW ids, Unescaped(ids), Apart(ids), NEW s \in PathOf(ids), NEW e \in PathOf(ids),
           NEW p \in {s, e}
    PROVE  /\ WrittenAfter(SharedPath(s, e), HalfPath(p, s, e), JoinedPath(p, s, e))
           /\ JoinedPath(p, s, e) \in PathOf(ids) /\ Canonical(JoinedPath(p, s, e))
           /\ PlainOf(p) \in PathOf(ids)
           /\ ComparePath(JoinedPath(p, s, e), PlainOf(p)) = 0
<1> DEFINE base == CommonLen(s.steps, e.steps)
           local == CommonLen(LocalOf(s), LocalOf(e))
           steps == SubSeq(s.steps, 1, base)
           locals == SubSeq(LocalOf(s), 1, local)
           rest == After(p.steps, base)
           others == After(LocalOf(p), local)
           within == WithinDocument(s, e)
           j == JoinedPath(p, s, e)
           q == PlainOf(p)
<1>1. /\ steps \in Seq(StepOf(ids)) /\ rest \in Seq(StepOf(ids)) /\ steps \o rest \in Seq(StepOf(ids))
      /\ SameSteps(steps \o rest, p.steps)
      /\ within => SameSteps(steps, p.steps)
      /\ locals \in Seq(StepOf(ids)) /\ others \in Seq(StepOf(ids))
      /\ locals \o others \in Seq(StepOf(ids)) /\ SameSteps(locals \o others, LocalOf(p))
  <2>1. within => base = Len(p.steps)
    BY DEF WithinDocument
  <2> HIDE DEF within
  <2>2. QED
    BY <2>1, PathsInCommon
<1>2. /\ p.steps \in Seq(StepOf(ids)) /\ LocalOf(p) \in Seq(StepOf(ids)) /\ p.offset \in Offset
      /\ p.local \in Seq(StepOf(ids)) \cup {Absent}
  BY PathSteps
<1>3. /\ SharedPath(s, e) = Path(steps, IF within THEN locals ELSE Absent, Absent)
      /\ HalfPath(p, s, e) = IF within THEN Path(others, Absent, p.offset) ELSE Path(rest, LocalOf(p), p.offset)
      /\ j = IF within THEN Path(steps, locals \o others, p.offset)
             ELSE Path(steps \o rest, LocalOf(p), p.offset)
  BY DEF SharedPath, HalfPath, JoinedPath
<1> DEFINE c == p.steps
           o == LocalOf(p)
           n == p.offset
<1> HIDE DEF base, local, steps, locals, rest, others, within, j, q, c, o, n
<1>6. q \in PathOf(ids) /\ q.steps = c /\ LocalOf(q) = o /\ q.offset = n /\ q.temporal = Absent /\ q.spatial = Absent
  BY PlainSteps DEF q, c, o, n
<1>7. /\ c \in Seq(StepOf(ids)) /\ o \in Seq(StepOf(ids)) /\ n \in Offset
      /\ SameSteps(steps \o rest, c) /\ (within => SameSteps(steps, c)) /\ SameSteps(locals \o others, o)
  BY <1>1, <1>2 DEF c, o, n
<1>8. /\ j \in PathOf(ids) /\ Canonical(j) /\ SameSteps(j.steps, c) /\ SameSteps(LocalOf(j), o)
      /\ j.offset = n /\ j.temporal = Absent /\ j.spatial = Absent
  <2>1. CASE within
    <3> DEFINE k == locals \o others
    <3>1. k \in Seq(StepOf(ids)) /\ SameSteps(k, o) /\ j = Path(steps, k, n)
      BY <1>1, <1>3, <1>7, <2>1 DEF n
    <3> HIDE DEF k
    <3>2. steps \in Seq(StepOf(ids)) /\ k \in Seq(StepOf(ids)) \cup {Absent} /\ n \in Offset
      BY <1>1, <1>7, <3>1
    <3>3. /\ j \in PathOf(ids) /\ Canonical(j) /\ j.steps = steps /\ LocalOf(j) = k /\ j.offset = n
          /\ j.temporal = Absent /\ j.spatial = Absent
      BY <3>1, <3>2, PlainParts
    <3>4. QED
      BY <1>7, <2>1, <3>1, <3>3
  <2>2. CASE ~within
    <3> DEFINE k == steps \o rest
    <3>1. k \in Seq(StepOf(ids)) /\ SameSteps(k, c) /\ j = Path(k, o, n)
      BY <1>1, <1>3, <1>7, <2>2 DEF n, o
    <3> HIDE DEF k
    <3>2. k \in Seq(StepOf(ids)) /\ o \in Seq(StepOf(ids)) \cup {Absent} /\ n \in Offset
      BY <1>7, <3>1
    <3>3. /\ j \in PathOf(ids) /\ Canonical(j) /\ j.steps = k /\ LocalOf(j) = o /\ j.offset = n
          /\ j.temporal = Absent /\ j.spatial = Absent
      BY <1>7, <3>1, <3>2, PlainParts
    <3>4. SameSteps(o, o)
      BY DEF SameSteps
    <3>5. QED
      BY <3>1, <3>3, <3>4
  <2>3. QED
    BY <2>1, <2>2
<1>9. ComparePath(j, q) = 0
  <2>1. j.steps \in Seq(StepOf(ids)) /\ LocalOf(j) \in Seq(StepOf(ids))
    BY <1>8, PathSteps
  <2>2. CompareSteps(j.steps, c) = 0 /\ CompareSteps(LocalOf(j), o) = 0
    BY <1>7, <1>8, <2>1, StepsCompare
  <2>3. ComparePath(j, q) = CompareOffset(n, n)
    BY <1>6, <1>8, <2>2, PathsLevel
  <2>4. CompareOffset(n, n) = 0
    BY <1>7 DEF CompareOffset, Cmp, Offset
  <2>5. QED
    BY <2>3, <2>4
<1>10. WrittenAfter(SharedPath(s, e), HalfPath(p, s, e), j)
  <2>1. CASE within
    <3>1. WrittenAfter(Path(steps, locals, Absent), Path(others, Absent, n), Path(steps, locals \o others, n))
      BY <1>1, <1>7, PathsJoined
    <3>2. /\ SharedPath(s, e) = Path(steps, locals, Absent) /\ HalfPath(p, s, e) = Path(others, Absent, n)
          /\ j = Path(steps, locals \o others, n)
      BY <1>3, <2>1 DEF n
    <3>3. QED
      BY <3>1, <3>2
  <2>2. CASE ~within
    <3>1. WrittenAfter(Path(steps, Absent, Absent), Path(rest, o, n), Path(steps \o rest, o, n))
      BY <1>1, <1>7, PathsJoined
    <3>2. /\ SharedPath(s, e) = Path(steps, Absent, Absent) /\ HalfPath(p, s, e) = Path(rest, o, n)
          /\ j = Path(steps \o rest, o, n)
      BY <1>3, <2>2 DEF n, o
    <3>3. QED
      BY <3>1, <3>2
  <2>3. QED
    BY <2>1, <2>2
<1>11. QED
  BY <1>6, <1>8, <1>9, <1>10 DEF j, q

\* Plain paths compare by their steps, their local steps and their offsets.
Three(steps, local, offset) == FirstDifference(<<steps, local, offset, 0, 0>>)

\* Paths without side, time and point compare by three signs.
LEMMA PlainCompared ==
    ASSUME NEW ids, NEW p \in PathOf(ids), NEW q \in PathOf(ids),
           p.temporal = Absent, q.temporal = Absent, p.spatial = Absent, q.spatial = Absent
    PROVE  ComparePath(p, q) =
             Three(CompareSteps(p.steps, q.steps), CompareSteps(LocalOf(p), LocalOf(q)),
                   CompareOffset(p.offset, q.offset))
<1>1. CompareOffset(p.temporal, q.temporal) = 0 /\ CompareSpatial(p.spatial, q.spatial) = 0
  BY DEF CompareOffset, CompareSpatial, Cmp
<1>2. QED
  BY <1>1 DEF ComparePath, Three

\* Where the first sign that can differ stands does not matter.
LEMMA ThreeShifted ==
    ASSUME NEW x \in Sign, NEW o \in Sign
    PROVE  Three(x, 0, o) = Three(0, x, o)
<1>1. CASE x = 0
  BY <1>1
<1>2. CASE x # 0
  <2> DEFINE u == <<x, 0, o, 0, 0>>
             v == <<0, x, o, 0, 0>>
  <2>1. u \in [1..5 -> Sign] /\ u[1] = x /\ v \in [1..5 -> Sign] /\ v[1] = 0 /\ v[2] = x
    BY DEF Sign
  <2>2. Three(x, 0, o) = FirstDifference(u) /\ Three(0, x, o) = FirstDifference(v)
    BY DEF Three
  <2> HIDE DEF u, v
  <2>3. FirstDifference(u) = x
    <3>1. 1 \in 1..5 /\ 5 \in Nat /\ u[1] # 0 /\ \A i \in 1..5 : i < 1 => u[i] = 0
      BY <1>2, <2>1
    <3>2. FirstDifference(u) = u[1]
      BY <2>1, <3>1, FirstSign
    <3>3. QED
      BY <2>1, <3>2
  <2>4. FirstDifference(v) = x
    <3>1. 2 \in 1..5 /\ 5 \in Nat /\ v[2] # 0 /\ \A i \in 1..5 : i < 2 => v[i] = 0
      BY <1>2, <2>1
    <3>2. FirstDifference(v) = v[2]
      BY <2>1, <3>1, FirstSign
    <3>3. QED
      BY <2>1, <3>2
  <2>5. QED
    BY <2>2, <2>3, <2>4
<1>3. QED
  BY <1>1, <1>2

\* The halves of a range compare as the points do.
LEMMA HalvesCompared ==
    ASSUME NEW ids, Unescaped(ids), Apart(ids), NEW s \in PathOf(ids), NEW e \in PathOf(ids)
    PROVE  ComparePath(HalfPath(s, s, e), HalfPath(e, s, e)) = ComparePath(PlainOf(s), PlainOf(e))
<1> DEFINE a == s.steps
           b == e.steps
           l == LocalOf(s)
           m == LocalOf(e)
           base == CommonLen(a, b)
           local == CommonLen(l, m)
           within == WithinDocument(s, e)
           from == HalfPath(s, s, e)
           to == HalfPath(e, s, e)
           p == PlainOf(s)
           q == PlainOf(e)
           n == s.offset
           o == e.offset
           x == CompareSteps(a, b)
           y == CompareSteps(l, m)
           z == CompareOffset(n, o)
<1>1. a \in Seq(StepOf(ids)) /\ l \in Seq(StepOf(ids)) /\ n \in Offset
  BY PathSteps
<1>2. b \in Seq(StepOf(ids)) /\ m \in Seq(StepOf(ids)) /\ o \in Offset
  BY PathSteps
<1>3. /\ from = IF within THEN Path(After(l, local), Absent, n) ELSE Path(After(a, base), l, n)
      /\ to = IF within THEN Path(After(m, local), Absent, o) ELSE Path(After(b, base), m, o)
      /\ within <=> base = Len(a) /\ base = Len(b)
  BY DEF HalfPath, WithinDocument
<1>4. a \in Seq(StepOf(ids)) /\ n \in Offset /\ b \in Seq(StepOf(ids)) /\ o \in Offset
  BY <1>1, <1>2
<1> HIDE DEF a, b, l, m, within, from, to, p, q, n, o
<1>5. /\ p \in PathOf(ids) /\ p.steps = a /\ LocalOf(p) = l /\ p.offset = n
      /\ p.temporal = Absent /\ p.spatial = Absent
  BY PlainSteps DEF p, a, l, n
<1>6. /\ q \in PathOf(ids) /\ q.steps = b /\ LocalOf(q) = m /\ q.offset = o
      /\ q.temporal = Absent /\ q.spatial = Absent
  BY PlainSteps DEF q, b, m, o
<1>7. ComparePath(p, q) = Three(x, y, z)
  BY <1>5, <1>6, PlainCompared
<1>8. /\ base \in Nat /\ base \in 0..Len(a) /\ base \in 0..Len(b) /\ \A i \in 1..base : a[i].index = b[i].index
  BY <1>4, CommonPart
<1>9. /\ local \in Nat /\ local \in 0..Len(l) /\ local \in 0..Len(m)
      /\ \A i \in 1..local : l[i].index = m[i].index
  BY <1>1, <1>2, CommonPart
<1> HIDE DEF base, local
<1> DEFINE ab == After(a, base)
           bb == After(b, base)
           ll == After(l, local)
           ml == After(m, local)
<1>10. /\ ab \in Seq(StepOf(ids)) /\ bb \in Seq(StepOf(ids)) /\ CompareSteps(ab, bb) = x
  <2>1. ab \in Seq(StepOf(ids)) /\ bb \in Seq(StepOf(ids))
    BY <1>4, <1>8, AfterFacts
  <2>2. CompareSteps(ab, bb) = x
    BY <1>4, <1>8, CommonDropped
  <2>3. QED
    BY <2>1, <2>2
<1>11. /\ ll \in Seq(StepOf(ids)) /\ ml \in Seq(StepOf(ids)) /\ CompareSteps(ll, ml) = y
  <2>1. ll \in Seq(StepOf(ids)) /\ ml \in Seq(StepOf(ids))
    BY <1>1, <1>2, <1>9, AfterFacts
  <2>2. CompareSteps(ll, ml) = y
    BY <1>1, <1>2, <1>9, CommonDropped
  <2>3. QED
    BY <2>1, <2>2
<1>12. y \in Sign /\ z \in Sign
  <2>1. y \in Sign
    BY <1>1, <1>2, StepsCompare
  <2>2. z \in Sign
    <3>1. z = Cmp(Rank(n), Rank(o)) /\ Rank(n) \in Int /\ Rank(o) \in Int
      BY <1>4, OffsetsCompare
    <3>2. QED
      BY <3>1, NumbersCompare
  <2>3. QED
    BY <2>1, <2>2
<1>13. /\ from = (IF within THEN Path(ll, Absent, n) ELSE Path(ab, l, n))
       /\ to = (IF within THEN Path(ml, Absent, o) ELSE Path(bb, m, o))
  BY <1>3
<1> HIDE DEF ab, bb, ll, ml, x, y, z
<1>14. CASE within
  <2>1. /\ from \in PathOf(ids) /\ from.steps = ll /\ LocalOf(from) = << >> /\ from.offset = n
        /\ from.temporal = Absent /\ from.spatial = Absent
    <3> DEFINE none == Absent
    <3>1. ll \in Seq(StepOf(ids)) /\ none \in Seq(StepOf(ids)) \cup {Absent} /\ n \in Offset
          /\ from = Path(ll, none, n)
      BY <1>4, <1>11, <1>13, <1>14
    <3> HIDE DEF none
    <3>2. /\ from \in PathOf(ids) /\ from.steps = ll /\ LocalOf(from) = (IF none = Absent THEN << >> ELSE none)
          /\ from.offset = n /\ from.temporal = Absent /\ from.spatial = Absent
      BY <3>1, PlainParts
    <3>3. QED
      BY <3>2 DEF none
  <2>2. /\ to \in PathOf(ids) /\ to.steps = ml /\ LocalOf(to) = << >> /\ to.offset = o
        /\ to.temporal = Absent /\ to.spatial = Absent
    <3> DEFINE none == Absent
    <3>1. ml \in Seq(StepOf(ids)) /\ none \in Seq(StepOf(ids)) \cup {Absent} /\ o \in Offset
          /\ to = Path(ml, none, o)
      BY <1>4, <1>11, <1>13, <1>14
    <3> HIDE DEF none
    <3>2. /\ to \in PathOf(ids) /\ to.steps = ml /\ LocalOf(to) = (IF none = Absent THEN << >> ELSE none)
          /\ to.offset = o /\ to.temporal = Absent /\ to.spatial = Absent
      BY <3>1, PlainParts
    <3>3. QED
      BY <3>2 DEF none
  <2>3. CompareSteps(<< >>, << >>) = 0
    <3>1. << >> \in Seq(StepOf(ids)) /\ SameSteps(<< >>, << >>)
      BY DEF SameSteps
    <3>2. QED
      BY <3>1, StepsCompare
  <2>4. ComparePath(from, to) = Three(CompareSteps(ll, ml), CompareSteps(<< >>, << >>), CompareOffset(n, o))
    <3> HIDE DEF Three
    <3>1. ComparePath(from, to) = Three(CompareSteps(from.steps, to.steps),
                                        CompareSteps(LocalOf(from), LocalOf(to)),
                                        CompareOffset(from.offset, to.offset))
      BY <2>1, <2>2, PlainCompared
    <3>2. QED
      BY <2>1, <2>2, <3>1
  <2>5. ComparePath(from, to) = Three(y, 0, z)
    BY <1>11, <2>3, <2>4 DEF z
  <2>6. x = 0
    <3>1. SameSteps(a, b)
      <4> DEFINE len == Len(a)
      <4>1. base = len /\ base = Len(b) /\ DOMAIN a = 1..len
        BY <1>3, <1>4, <1>14
      <4> HIDE DEF len
      <4>2. QED
        BY <1>8, <4>1 DEF SameSteps, len
    <3>2. QED
      BY <1>4, <3>1, StepsCompare DEF x
  <2>7. Three(y, 0, z) = Three(0, y, z)
    BY <1>12, ThreeShifted
  <2>8. QED
    BY <1>7, <2>5, <2>6, <2>7 DEF from, to, p, q
<1>15. CASE ~within
  <2>1. /\ from \in PathOf(ids) /\ from.steps = ab /\ LocalOf(from) = l /\ from.offset = n
        /\ from.temporal = Absent /\ from.spatial = Absent
    <3>1. ab \in Seq(StepOf(ids)) /\ l \in Seq(StepOf(ids)) \cup {Absent} /\ n \in Offset
          /\ from = Path(ab, l, n) /\ l \in Seq(StepOf(ids))
      BY <1>1, <1>4, <1>10, <1>13, <1>15
    <3>2. QED
      BY <3>1, PlainParts
  <2>2. /\ to \in PathOf(ids) /\ to.steps = bb /\ LocalOf(to) = m /\ to.offset = o
        /\ to.temporal = Absent /\ to.spatial = Absent
    <3>1. bb \in Seq(StepOf(ids)) /\ m \in Seq(StepOf(ids)) \cup {Absent} /\ o \in Offset
          /\ to = Path(bb, m, o) /\ m \in Seq(StepOf(ids))
      BY <1>2, <1>4, <1>10, <1>13, <1>15
    <3>2. QED
      BY <3>1, PlainParts
  <2>3. ComparePath(from, to) = Three(CompareSteps(from.steps, to.steps),
                                      CompareSteps(LocalOf(from), LocalOf(to)),
                                      CompareOffset(from.offset, to.offset))
    BY <2>1, <2>2, PlainCompared
  <2>4. ComparePath(from, to) = Three(x, y, z)
    BY <1>10, <2>1, <2>2, <2>3 DEF y, z
  <2>5. QED
    BY <1>7, <2>4 DEF from, to, p, q
<1>16. QED
  BY <1>14, <1>15

\* The range of two points keeps both.
THEOREM RangesKeepBoth ==
    ASSUME NEW CONSTANT ids, Readable(ids)
    PROVE  Spec => []RangesKeepTheirPoints
<1>1. CfiInv(ids) => RangesKeepTheirPoints
  <2> DEFINE start == held[1].cfi
             end == held[2].cfi
             range == GenerateRange(start, end)
             c == ParseCfi(range)
  <2> SUFFICES ASSUME CfiInv(ids), Len(held) = 2, start # Malformed, end # Malformed,
                      start.kind = "point", end.kind = "point"
               PROVE  /\ c # Malformed /\ c.kind = "range"
                      /\ CompareCfi(Joined(c, c.start), Plain(start)) = 0
                      /\ CompareCfi(Joined(c, c.end), Plain(end)) = 0
                      /\ ComparePath(c.start, c.end) = CompareCfi(Plain(start), Plain(end))
    BY Zenon DEF RangesKeepTheirPoints
  <2>1. Unescaped(ids) /\ Apart(ids)
    BY DEF Readable
  <2>2. CanonicalCfi(ids, start) /\ CanonicalCfi(ids, end)
    <3> DEFINE S == HeldCfi(ids)
    <3>1. held \in Seq(S) /\ Len(held) = 2
      BY DEF CfiInv, HeldInv
    <3> HIDE DEF S
    <3>2. held[1] \in S /\ held[2] \in S
      BY <3>1, TwoOfTwo
    <3>3. QED
      BY <3>2 DEF HeldCfi, S
  <2>3. start.kind = "point" /\ end.kind = "point"
    OBVIOUS
  <2> HIDE DEF start, end
  <2> DEFINE s == start.parent
             e == end.parent
             p == SharedPath(s, e)
             from == HalfPath(s, s, e)
             to == HalfPath(e, s, e)
  <2>4. s \in PathOf(ids) /\ e \in PathOf(ids)
    BY <2>2 DEF CanonicalCfi, CfiOf
  <2>5. RangePaths(ids, s, e) /\ range = Wrap(Joint(PrintPath(p), PrintPath(from), PrintPath(to)))
    BY <2>1, <2>2, <2>3, RangeSpelled
  <2>6. /\ p \in PathOf(ids) /\ Canonical(p) /\ from \in PathOf(ids) /\ Canonical(from)
        /\ to \in PathOf(ids) /\ Canonical(to)
    BY <2>5 DEF RangePaths
  <2>7. Plain(start) = Point(PlainOf(s)) /\ Plain(end) = Point(PlainOf(e))
    BY DEF Plain, PlainOf
  <2> DEFINE js == JoinedPath(s, s, e)
             je == JoinedPath(e, s, e)
             ps == PlainOf(s)
             pe == PlainOf(e)
  <2>8. WrittenAfter(p, from, js) /\ js \in PathOf(ids) /\ Canonical(js) /\ ComparePath(js, ps) = 0
    BY <2>1, <2>4, HalfJoined
  <2>9. WrittenAfter(p, to, je) /\ je \in PathOf(ids) /\ Canonical(je) /\ ComparePath(je, pe) = 0
    BY <2>1, <2>4, HalfJoined
  <2>10. ComparePath(from, to) = ComparePath(ps, pe)
    BY <2>1, <2>4, HalvesCompared
  <2> HIDE DEF s, e, p, from, to, js, je, ps, pe, range
  <2>11. c = RangeOf(p, from, to)
    BY <2>1, <2>5, <2>6, RangeReadBack
  <2> HIDE DEF c
  <2>12. c.kind = "range" /\ c.parent = p /\ c.start = from /\ c.end = to
    BY <2>11 DEF RangeOf
  <2>13. c # Malformed
    <3>1. c \in CfiOf(ids)
      BY <2>6, <2>11, MadeCanonical DEF CanonicalCfi
    <3>2. QED
      BY <2>1, <3>1 DEF Apart
  <2>14. Joined(c, from) = Point(js)
    <3>1. ParseCfi(Wrap(PrintPath(js))) = Point(js)
      BY <2>1, <2>8, PointReadBack
    <3>2. QED
      BY <2>8, <2>12, <3>1 DEF Joined, WrittenAfter
  <2>15. Joined(c, to) = Point(je)
    <3>1. ParseCfi(Wrap(PrintPath(je))) = Point(je)
      BY <2>1, <2>9, PointReadBack
    <3>2. QED
      BY <2>9, <2>12, <3>1 DEF Joined, WrittenAfter
  <2>16. \A x, y : CompareCfi(Point(x), Point(y)) = ComparePath(x, y)
    BY DEF CompareCfi, Point
  <2>17. Plain(start) = Point(ps) /\ Plain(end) = Point(pe)
    BY <2>7 DEF ps, pe
  <2>18. QED
    BY <2>8, <2>9, <2>10, <2>12, <2>13, <2>14, <2>15, <2>16, <2>17
<1>2. QED
  BY <1>1, ChapterIsWalked, PTL
================================================================================
