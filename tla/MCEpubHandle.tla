---------------------------- MODULE MCEpubHandle ----------------------------
(***************************************************************************)
(* Small archives for EpubHandle: one whose default rendition is sound, as  *)
(* is the last, while the second has neither usable navigation nor usable   *)
(* positions and the third does not parse; and one that fails to parse.     *)
(***************************************************************************)
EXTENDS EpubHandle, TLC

CONSTANTS t1, t2, h1, zh, en

Plain(layout, language) == [layout |-> layout, language |-> language]

MCDefaultSize == 1024
MCSizes == {0, 512}
MCLayouts == {"reflowable", "pre-paginated"}
MCLanguages == {zh, en}

Mixed == [renditions |-> <<Plain(Absent, zh), Plain("pre-paginated", zh),
                           Plain(Absent, en), Plain("reflowable", Absent)>>,
          parses |-> {1, 2, 4}, navigable |-> {1, 4}, indexable |-> {1, 4}]
Broken == [renditions |-> <<Plain(Absent, Absent)>>,
           parses |-> {}, navigable |-> {}, indexable |-> {}]

MCFiles == {Mixed, Broken}

\* The two threads run the same code and no property tells them apart.
MCSymmetry == Permutations({t1, t2})
=============================================================================
