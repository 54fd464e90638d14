---------------------------- MODULE MCWasmSession ----------------------------
(***************************************************************************)
(* The archives of MCEpubHandle's kind, one JavaScript thread, one parser   *)
(* and one generator.                                                       *)
(***************************************************************************)
EXTENDS WasmSession

CONSTANTS js, p1, zh, en

Plain(layout, language) == [layout |-> layout, language |-> language]
MCLayouts == {"reflowable", "pre-paginated"}
MCLanguages == {zh, en}
\* Sound, without navigation or positions, unreadable, sound.
Mixed == [renditions |-> <<Plain(Absent, zh), Plain("pre-paginated", zh),
                           Plain(Absent, en), Plain("reflowable", Absent)>>,
          parses |-> {1, 2, 4}, navigable |-> {1, 4}, indexable |-> {1, 4}]
Broken == [renditions |-> <<Plain(Absent, Absent)>>,
           parses |-> {}, navigable |-> {}, indexable |-> {}]
MCFiles == {Mixed, Broken}
=============================================================================
