--------------------------------- MODULE Cfi ---------------------------------
(***************************************************************************)
(* cfi/model.rs and cfi/resolver.rs: canonical fragment identifiers, their  *)
(* order, the text they are written as, ranges of two points, and what a    *)
(* CFI resolves to.                                                         *)
(*                                                                          *)
(* A text is a sequence of tokens: one for each character, except that a    *)
(* side ("before", "after") is one token and so is the opening "epubcfi(".  *)
(* Temporal and spatial offsets (f64 in the code) are natural numbers or    *)
(* NaN, which is what the parser makes of "~NaN".                           *)
(***************************************************************************)
EXTENDS Integers, Sequences, SequencesExt, FiniteSetsExt

CONSTANTS
    Absent, \* None
    NaN     \* f64::NAN

ASSUME AbsentAssumption == Absent \notin Nat /\ NaN \notin Nat /\ Absent # NaN

\* A step: its index and the text of its assertion.
Step(index, assertion) == [index |-> index, assertion |-> assertion]
\* A path and the parts of its terminus; `local` is what follows the "!".
Path(steps, local, offset) ==
    [steps |-> steps, local |-> local, offset |-> offset,
     side |-> Absent, temporal |-> Absent, spatial |-> Absent]
EmptyPath == Path(<< >>, Absent, Absent)
Point(path) == [kind |-> "point", parent |-> path, start |-> path, end |-> path]
RangeOf(parent, start, end) ==
    [kind |-> "range", parent |-> parent, start |-> start, end |-> end]
\* as_deref().unwrap_or(&[])
LocalOf(path) == IF path.local = Absent THEN << >> ELSE path.local

-----------------------------------------------------------------------------
\* The order.  Less, Equal and Greater are -1, 0 and 1.
Cmp(a, b) == IF a < b THEN -1 ELSE IF a > b THEN 1 ELSE 0
\* The first comparison that is not Equal.
FirstDifference(cs) ==
    LET differs == {i \in DOMAIN cs : cs[i] # 0}
    IN IF differs = {} THEN 0 ELSE cs[CHOOSE i \in differs : \A j \in differs : i <= j]

\* In error: a path and a longer one that begins with it are level.
CompareCommonSteps(s, t) ==
    FirstDifference([i \in 1..(IF Len(s) < Len(t) THEN Len(s) ELSE Len(t)) |->
                       Cmp(s[i].index, t[i].index)])
\* Steps compare by index alone, whatever they assert.
CompareSteps(s, t) ==
    FirstDifference([i \in 1..(IF Len(s) < Len(t) THEN Len(s) ELSE Len(t)) |->
                       Cmp(s[i].index, t[i].index)] \o <<Cmp(Len(s), Len(t))>>)

\* In error: None is level with every offset.
CompareOffsetLoosely(a, b) ==
    IF a = Absent \/ b = Absent \/ a = NaN \/ b = NaN THEN 0 ELSE Cmp(a, b)
\* None comes before any offset.
CompareOffset(a, b) ==
    IF a = Absent \/ b = Absent
    THEN Cmp(IF a = Absent THEN 0 ELSE 1, IF b = Absent THEN 0 ELSE 1)
    ELSE IF a = NaN \/ b = NaN THEN 0 ELSE Cmp(a, b)
CompareSpatial(a, b) ==
    IF a = Absent \/ b = Absent
    THEN Cmp(IF a = Absent THEN 0 ELSE 1, IF b = Absent THEN 0 ELSE 1)
    ELSE FirstDifference(<<CompareOffset(a.y, b.y), CompareOffset(a.x, b.x)>>)

ComparePath(a, b) ==
    FirstDifference(<<CompareSteps(a.steps, b.steps),
                      CompareSteps(LocalOf(a), LocalOf(b)),
                      CompareOffset(a.offset, b.offset),
                      CompareOffset(a.temporal, b.temporal),
                      CompareSpatial(a.spatial, b.spatial)>>)
\* The derived order: points before ranges, ranges part by part.
CompareCfi(a, b) ==
    IF a.kind # b.kind THEN IF a.kind = "point" THEN -1 ELSE 1
    ELSE IF a.kind = "point" THEN ComparePath(a.parent, b.parent)
    ELSE FirstDifference(<<ComparePath(a.parent, b.parent), ComparePath(a.start, b.start),
                           ComparePath(a.end, b.end)>>)

\* Equality: a path that stops at its "!" is not one without it, and sides count.
SameSteps(s, t) == Len(s) = Len(t) /\ \A i \in DOMAIN s : s[i].index = t[i].index
SameNumber(a, b) == a = b /\ a # NaN
EqPath(a, b) ==
    /\ SameSteps(a.steps, b.steps)
    /\ (a.local = Absent) = (b.local = Absent) /\ SameSteps(LocalOf(a), LocalOf(b))
    /\ a.offset = b.offset /\ a.side = b.side
    /\ SameNumber(a.temporal, b.temporal)
    /\ IF a.spatial = Absent \/ b.spatial = Absent THEN a.spatial = b.spatial
       ELSE SameNumber(a.spatial.x, b.spatial.x) /\ SameNumber(a.spatial.y, b.spatial.y)
EqCfi(a, b) ==
    /\ a.kind = b.kind
    /\ EqPath(a.parent, b.parent) /\ EqPath(a.start, b.start) /\ EqPath(a.end, b.end)

-----------------------------------------------------------------------------
\* The text of a CFI.
Digit == <<"0", "1", "2", "3", "4", "5", "6", "7", "8", "9">>
Decimal[n \in Nat] ==
    IF n < 10 THEN <<Digit[n + 1]>> ELSE Append(Decimal[n \div 10], Digit[(n % 10) + 1])
Number(n) == IF n = NaN THEN <<"NaN">> ELSE Decimal[n]
\* An assertion is written as it is: nothing is escaped.
PrintStep(step) ==
    <<"/">> \o Decimal[step.index]
      \o (IF step.assertion = Absent THEN << >> ELSE <<"[">> \o step.assertion \o <<"]">>)
PrintSteps(steps) == FlattenSeq([i \in DOMAIN steps |-> PrintStep(steps[i])])
PrintOffset(offset) == IF offset = Absent THEN << >> ELSE <<":">> \o Decimal[offset]
\* In error: the side comes before the offset it belongs to.
PrintPathSideFirst(p) ==
    PrintSteps(p.steps)
      \o (IF p.local = Absent THEN << >> ELSE <<"!">> \o PrintSteps(p.local))
      \o (IF p.side = Absent THEN << >> ELSE <<":", p.side>>)
      \o PrintOffset(p.offset)
PrintPath(p) ==
    PrintSteps(p.steps)
      \o (IF p.local = Absent THEN << >> ELSE <<"!">> \o PrintSteps(p.local))
      \o PrintOffset(p.offset)
      \o (IF p.temporal = Absent THEN << >> ELSE <<"~">> \o Number(p.temporal))
      \o (IF p.spatial = Absent THEN << >>
          ELSE <<"@">> \o Number(p.spatial.x) \o <<":">> \o Number(p.spatial.y))
      \o (IF p.side = Absent THEN << >> ELSE <<":", p.side>>)
Wrap(text) == <<"epubcfi(">> \o text \o <<")">>
PrintCfi(c) ==
    Wrap(IF c.kind = "point" THEN PrintPath(c.parent)
         ELSE PrintPath(c.parent) \o <<",">> \o PrintPath(c.start) \o <<",">> \o PrintPath(c.end))

-----------------------------------------------------------------------------
\* The base of a spine item's CFIs.
SpineBase(spine_index, item_id) ==
    PrintStep(Step(6, Absent)) \o PrintStep(Step((spine_index + 1) * 2, item_id)) \o <<"!">>

\* In error: the step after the common ones is counted, too.
CommonLenPast(s, t) ==
    Max({n \in 0..Len(s) : n <= Len(t) /\ \A i \in 1..(n - 1) : s[i].index = t[i].index})
\* How many steps two lists begin with in common.
CommonLen(s, t) ==
    Max({n \in 0..Len(s) : n <= Len(t) /\ \A i \in 1..n : s[i].index = t[i].index})
After(steps, n) == SubSeq(steps, n + 1, Len(steps))

\* generate_range: the text of the range of two points.  Within one document
\* the common steps follow the "!" of the parent, and the halves have none;
\* between two, the halves have one each.  Sides, temporal and spatial offsets
\* of the points are dropped.
GenerateRange(start, end) ==
    IF start.kind # "point" \/ end.kind # "point" THEN Absent
    ELSE LET s == start.parent
             e == end.parent
             base == CommonLen(s.steps, e.steps)
             local == CommonLen(LocalOf(s), LocalOf(e))
             shared_base == PrintSteps(SubSeq(s.steps, 1, base))
             Half(p) == PrintSteps(After(LocalOf(p), local)) \o PrintOffset(p.offset)
             Full(p) == PrintSteps(After(p.steps, base)) \o <<"!">>
                          \o PrintSteps(LocalOf(p)) \o PrintOffset(p.offset)
         IN Wrap(IF base = Len(s.steps) /\ base = Len(e.steps)
                 THEN shared_base \o <<"!">> \o PrintSteps(SubSeq(LocalOf(s), 1, local))
                        \o <<",">> \o Half(s) \o <<",">> \o Half(e)
                 ELSE shared_base \o <<",">> \o Full(s) \o <<",">> \o Full(e))

-----------------------------------------------------------------------------
\* Resolving.
IsTextNode(step) == step.index % 2 # 0
\* In error: element indices are one too high.
ChildIndexFromOne(step) ==
    IF IsTextNode(step) THEN (step.index - 1) \div 2 ELSE step.index \div 2
\* child_index: 0-based among the elements, or among the texts.
ChildIndex(step) ==
    IF IsTextNode(step) THEN (step.index - 1) \div 2
    ELSE IF step.index < 2 THEN 0 ELSE step.index \div 2 - 1
ResolvedStep(step) ==
    [node_type |-> IF IsTextNode(step) THEN "text" ELSE "element",
     index |-> ChildIndex(step), id |-> step.assertion]
SpineIndex(path) == IF Len(path.steps) < 2 THEN 0 ELSE ChildIndex(path.steps[2])

ResolvePath(path, spine_index) ==
    IF LocalOf(path) = << >> THEN Absent
    ELSE LET ids == {i \in DOMAIN path.local :
                       ~IsTextNode(path.local[i]) /\ path.local[i].assertion # Absent}
         IN [spine_index |-> spine_index,
             steps |-> [i \in DOMAIN path.local |-> ResolvedStep(path.local[i])],
             offset |-> path.offset,
             is_text_node |-> IsTextNode(Last(path.local)),
             id_shortcut |-> IF ids = {} THEN Absent ELSE path.local[Max(ids)].assertion,
             side |-> path.side, temporal |-> path.temporal, spatial |-> path.spatial]

\* An end point of a range: the local steps of the parent, then those of the
\* half.  A half without a "!" has none.
Combine(parent, half) ==
    [half EXCEPT !.steps = parent.steps,
                 !.local = LocalOf(parent) \o LocalOf(half),
                 !.side = IF half.side = Absent THEN parent.side ELSE half.side]
Resolve(c) ==
    LET spine_index == SpineIndex(c.parent)
        start == IF c.kind = "point" THEN ResolvePath(c.parent, spine_index)
                 ELSE ResolvePath(Combine(c.parent, c.start), spine_index)
    IN IF start = Absent THEN Absent
       ELSE [start |-> start,
             end |-> IF c.kind = "point" THEN Absent
                     ELSE ResolvePath(Combine(c.parent, c.end), spine_index)]
=============================================================================
