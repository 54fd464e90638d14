--------------------------- MODULE MCPositionIndex ---------------------------
(***************************************************************************)
(* Spines of up to MaxItems items for PositionIndex.  Lengths around        *)
(* multiples of the page lengths meet every rounding case: none, less than  *)
(* a page, exactly one, one byte more, several.                             *)
(***************************************************************************)
EXTENDS PositionIndex

CONSTANT MaxItems

Reflowable(len) == [linear |-> TRUE, in_manifest |-> TRUE, fixed |-> FALSE,
                    archive_len |-> len, original_length |-> NoLength]
MCItems ==
    {Reflowable(len) : len \in {0, 2, 3, 4, 7}} \cup
    {[Reflowable(7) EXCEPT !.original_length = 4],
     [Reflowable(7) EXCEPT !.fixed = TRUE],
     [Reflowable(4) EXCEPT !.linear = FALSE],
     [Reflowable(4) EXCEPT !.in_manifest = FALSE]}

MCBooks == UNION {[1..n -> MCItems] : n \in 0..MaxItems}
MCPageLengths == {0, 2, 3}
=============================================================================
