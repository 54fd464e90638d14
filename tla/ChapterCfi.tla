------------------------------ MODULE ChapterCfi ------------------------------
(***************************************************************************)
(* processor/cfi.rs and what a reading system does with its results:        *)
(* traverse_and_inject gives every element of a chapter a data-cfi,         *)
(* search_node a range to every match, both by one walk over the children   *)
(* of each node; the texts are then kept, compared, combined to ranges and  *)
(* resolved (compare_cfi, generate_cfi_range and resolve_cfi of the C and   *)
(* WASM bindings, which are stateless).                                     *)
(*                                                                          *)
(* A chapter is the DOM below its html element, node 0: `children` of each  *)
(* element, `content` of each node ("element", "text" or "comment"), the    *)
(* id of elements, and the matches of the search in each text, as pairs of  *)
(* byte offsets.  Nodes are numbered in document order.                     *)
(***************************************************************************)
EXTENDS CfiParser, FiniteSets

CONSTANTS
    Chapters,  \* the chapters there may be
    Bookmarks, \* texts of CFIs from elsewhere
    MaxHeld    \* bound: texts a reading system holds at once

\* The DOM of a chapter and what there is to find in it.
IsChapter(c) ==
    LET nodes == DOMAIN c.content IN
    /\ c.spine_index \in Nat
    /\ c.content \in Seq({"element", "text", "comment"})
    /\ c.children \in [nodes \cup {0} -> Seq(nodes)]
    /\ DOMAIN c.id = nodes
    /\ c.matches \in [nodes -> Seq(Nat \X Nat)]
\* It is a tree of elements with texts and comments for leaves, numbered in
\* document order: a node before its children, and with all that is below it
\* before its next sibling.
IsNumbered(c) ==
    LET nodes == DOMAIN c.content IN
    /\ \A n \in nodes : \E p \in nodes \cup {0} : n \in ToSet(c.children[p])
    /\ \A p, q \in nodes \cup {0} :
         \A i \in DOMAIN c.children[p] : \A j \in DOMAIN c.children[q] :
           LET m == c.children[p][i]
               n == c.children[q][j]
           IN /\ p < m /\ (p # 0 => c.content[p] = "element")
              /\ m = n => p = q
              /\ p = q /\ i < j => m < n
              /\ p < n /\ n < m => p <= q
\* find_iter goes through a text from left to right; a match may be empty.
IsSearched(c) ==
    \A n \in DOMAIN c.content : \A i \in DOMAIN c.matches[n] :
      /\ c.matches[n][i][1] <= c.matches[n][i][2]
      /\ \A j \in 1..(i - 1) : c.matches[n][j][1] < c.matches[n][i][1]

ASSUME ChaptersAssumption ==
    \A c \in Chapters : IsChapter(c) /\ IsNumbered(c) /\ IsSearched(c)
ASSUME MaxHeldAssumption == MaxHeld \in Nat

VARIABLES
    chapter,
    mode,  \* "inject" or "search"
    walk,  \* the recursion: a stack of nodes being traversed
    marks, \* element -> its data-cfi
    found, \* the matches so far: node, offsets and CFI
    held   \* texts the reading system holds, and what they parse to

vars == <<chapter, mode, walk, marks, found, held>>

Base == SpineBase(chapter.spine_index, chapter.item_id)
\* One call of traverse_and_inject or search_node.
Frame(node, path) ==
    [node |-> node, rest |-> chapter.children[node], child_index |-> 0, path |-> path]
Init ==
    /\ chapter \in Chapters /\ mode \in {"inject", "search"}
    /\ walk = <<Frame(0, << >>)>>
    /\ marks = << >> /\ found = << >> /\ held = << >>

Walking == walk # << >>
Top == Head(walk)
AtChild(content) == Walking /\ Top.rest # << >> /\ chapter.content[Head(Top.rest)] = content
Skip == [Top EXCEPT !.rest = Tail(@)]

\* cfi_child_path with cfi_assertion.
ChildPath(path, index, child) == path \o PrintStep(Step(index, chapter.id[child]))
\* An element: the next even index; it is marked before it is traversed.
EnterElement ==
    /\ AtChild("element")
    /\ LET child == Head(Top.rest)
           index == Top.child_index + 2
           path == ChildPath(Top.path, index, child)
       IN /\ walk' = <<Frame(child, path), [Skip EXCEPT !.child_index = index]>> \o Tail(walk)
          /\ marks' = IF mode # "inject" THEN marks
                      ELSE [n \in DOMAIN marks \cup {child} |->
                              IF n = child THEN Wrap(Base \o path) ELSE marks[n]]
    /\ UNCHANGED <<chapter, mode, found, held>>

\* In error: the text step is that of the last element.
MatchCfiEven(match) ==
    LET text_step == PrintStep(Step(Top.child_index, Absent))
    IN Wrap(Base \o Top.path \o <<",">> \o text_step \o PrintOffset(match[1])
              \o <<",">> \o text_step \o PrintOffset(match[2]))
\* The range of a match: the element's path, then the odd step after the last
\* element child seen, with the match's offsets in this text node.
MatchCfi(match) ==
    LET text_step == PrintStep(Step(Top.child_index + 1, Absent))
    IN Wrap(Base \o Top.path \o <<",">> \o text_step \o PrintOffset(match[1])
              \o <<",">> \o text_step \o PrintOffset(match[2]))
VisitText ==
    /\ AtChild("text")
    /\ LET node == Head(Top.rest)
           matches == chapter.matches[node]
       IN /\ walk' = <<Skip>> \o Tail(walk)
          /\ found' = IF mode # "search" THEN found
                      ELSE found \o [i \in DOMAIN matches |->
                                       [node |-> node, match |-> matches[i],
                                        cfi |-> MatchCfi(matches[i])]]
    /\ UNCHANGED <<chapter, mode, marks, held>>
PassComment ==
    /\ AtChild("comment")
    /\ walk' = <<Skip>> \o Tail(walk)
    /\ UNCHANGED <<chapter, mode, marks, found, held>>
Leave ==
    /\ Walking /\ Top.rest = << >>
    /\ walk' = Tail(walk)
    /\ UNCHANGED <<chapter, mode, marks, found, held>>

\* The reading system keeps a text it was given or had, or combines two.
Texts == {marks[n] : n \in DOMAIN marks} \cup {found[i].cfi : i \in DOMAIN found} \cup Bookmarks
Read(text) == [text |-> text, cfi |-> ParseCfi(text)]
Hold ==
    /\ ~Walking /\ Len(held) < MaxHeld
    /\ \E text \in Texts : held' = Append(held, Read(text))
    /\ UNCHANGED <<chapter, mode, walk, marks, found>>
\* epub_generate_cfi_range: nothing comes of texts that are not points.
CombineHeld ==
    /\ ~Walking /\ Len(held) = 2 /\ Len(held) < MaxHeld
    /\ LET start == held[1].cfi
           end == held[2].cfi
           range == IF start = Malformed \/ end = Malformed THEN Absent
                    ELSE GenerateRange(start, end)
       IN /\ range # Absent
          /\ held' = Append(held, Read(range))
    /\ UNCHANGED <<chapter, mode, walk, marks, found>>

Next == EnterElement \/ VisitText \/ PassComment \/ Leave \/ Hold \/ CombineHeld
Spec == Init /\ [][Next]_vars

-----------------------------------------------------------------------------
Nodes == DOMAIN chapter.content
Elements == {n \in Nodes : chapter.content[n] = "element"}
Parent(n) == CHOOSE p \in Elements \cup {0} : n \in ToSet(chapter.children[p])
ChildElements(n) == ToSet(chapter.children[n]) \cap Elements
ElementsBefore(n) == Cardinality({m \in ChildElements(Parent(n)) : m < n})
\* The document walk the resolved element steps are for, external to the code:
\* where they lead to from the html element.
Follow(steps) ==
    FoldLeft(LAMBDA nodes, step : {m \in Elements : /\ Parent(m) \in nodes
                                                   /\ ElementsBefore(m) = step.index},
             {0}, steps)
Above[n \in Nat] == IF n \in Nodes THEN {n} \cup Above[Parent(n)] ELSE {}
\* The point a reader gets by writing half of a range after its parent.
Joined(c, half) == ParseCfi(Wrap(PrintPath(c.parent) \o PrintPath(half)))
Plain(c) == Point(Path(c.parent.steps, c.parent.local, c.parent.offset))

\* The type of the state: the walk is a path of the DOM downwards, and what is
\* marked or found lies before it.
TypeOK ==
    /\ mode \in {"inject", "search"} /\ Len(held) <= MaxHeld
    /\ DOMAIN marks \subseteq Elements
    /\ \A i \in 1..(Len(walk) - 1) : Parent(walk[i].node) = walk[i + 1].node
    /\ \A i \in DOMAIN walk :
         walk[i].child_index = 2 * Cardinality(ChildElements(walk[i].node) \ ToSet(walk[i].rest))

\* A data-cfi leads back to the element that carries it: parsed and resolved,
\* its spine index is the chapter's, its steps followed through the element
\* children end at the element, and its shortcut is the nearest id.  Once the
\* walk is over every element has one.
MarksReachTheirElements ==
    /\ TypeOK
    /\ mode = "inject" /\ ~Walking => DOMAIN marks = Elements
    /\ held = << >> => \A n \in DOMAIN marks :
         LET r == Resolve(ParseCfi(marks[n])).start
             named == {m \in Above[n] : chapter.id[m] # Absent}
         IN /\ r.spine_index = chapter.spine_index /\ ~r.is_text_node
            /\ Follow(r.steps) = {n}
            /\ r.id_shortcut = IF named = {} THEN Absent ELSE chapter.id[Max(named)]

\* The order of CFIs is the order of the document: of two marked elements the
\* one that starts first has the lower CFI, an ancestor before its descendants.
MarksInDocumentOrder ==
    held = << >> => \A n, m \in DOMAIN marks : n < m =>
      CompareCfi(ParseCfi(marks[n]), ParseCfi(marks[m])) = -1

\* A match's range names its text: both ends, written after the parent path,
\* parse to the element around it and an odd step that counts the elements
\* before it, with the match's offsets; the matches come in order, apart from
\* texts that only a comment parts, which share a step.  None is missed, and
\* nothing else is found.
MatchesNameTheirText ==
    /\ mode = "search" /\ ~Walking =>
         {<<found[i].node, found[i].match>> : i \in DOMAIN found} =
           UNION {{<<n, chapter.matches[n][k]>> : k \in DOMAIN chapter.matches[n]} :
                    n \in {m \in Nodes : chapter.content[m] = "text"}}
    /\ held = << >> => \A i \in DOMAIN found :
         LET c == ParseCfi(found[i].cfi)
             match == found[i].match
             At(half, offset) ==
               LET r == Resolve(Joined(c, half)).start
               IN /\ r.is_text_node /\ Follow(Front(r.steps)) = {Parent(found[i].node)}
                  /\ Last(r.steps).index = ElementsBefore(found[i].node) /\ r.offset = offset
         IN /\ c.kind = "range"
            /\ At(c.start, match[1]) /\ At(c.end, match[2])
            /\ CompareCfi(Joined(c, c.start), Joined(c, c.end)) = Cmp(match[1], match[2])
            /\ \A j \in 1..(i - 1) :
                 LET d == ParseCfi(found[j].cfi)
                     order == CompareCfi(Joined(d, d.start), Joined(c, c.start))
                 IN \/ order = -1
                    \/ /\ found[i].node # found[j].node
                       /\ SameSteps(Joined(d, d.start).parent.local, Joined(c, c.start).parent.local)

\* Writing a CFI and reading it again gives the CFI back, sides and offsets
\* included, and so its place among all others.
HeldReadBack ==
    \A i \in DOMAIN held :
      LET c == held[i].cfi IN
        i = Len(held) /\ c # Malformed =>
            /\ ParseCfi(PrintCfi(c)) # Malformed
            /\ EqCfi(ParseCfi(PrintCfi(c)), c)
            /\ CompareCfi(ParseCfi(PrintCfi(c)), c) = 0

\* CFIs are totally ordered by compare_cfi: swapping its arguments swaps the
\* answer, equal CFIs are level, and "not after" is transitive.
HeldAreOrdered ==
    LET cs == {held[i].cfi : i \in DOMAIN held} \ {Malformed}
    IN \A a, b \in cs :
         /\ CompareCfi(a, b) = -CompareCfi(b, a)
         /\ EqCfi(a, b) => CompareCfi(a, b) = 0
         /\ \A c \in cs :
              CompareCfi(a, b) <= 0 /\ CompareCfi(b, c) <= 0 => CompareCfi(a, c) <= 0

\* The range of two points is a range, and loses neither: either half written
\* after the parent reads as the point it was made of, without side, temporal
\* and spatial offset, in one document and across two; the halves compare as
\* the points do, so a list of ranges can be sorted.
RangesKeepTheirPoints ==
    Len(held) = 2 =>
    LET s == held[1].cfi
        e == held[2].cfi
        c == ParseCfi(GenerateRange(s, e))
    IN s # Malformed /\ e # Malformed /\ s.kind = "point" /\ e.kind = "point" =>
         /\ c # Malformed /\ c.kind = "range"
         /\ CompareCfi(Joined(c, c.start), Plain(s)) = 0
         /\ CompareCfi(Joined(c, c.end), Plain(e)) = 0
         /\ ComparePath(c.start, c.end) = CompareCfi(Plain(s), Plain(e))

\* What cfi/resolver.rs says of ranges: an end point is resolved from the steps
\* of the parent and those of the half, as its joined text would be.
RangesResolveToTheirPoints ==
    \A i \in DOMAIN found :
      LET c == ParseCfi(found[i].cfi) IN
        Resolve(c).start.steps = Resolve(Joined(c, c.start)).start.steps
=============================================================================
