--------------------------- MODULE ReadingSession ---------------------------
(***************************************************************************)
(* What a session of the C and of the WASM bindings promises, without its   *)
(* caches: every answer is computed from the archive, the rendition chosen  *)
(* for the handle (the default one until the caller selects another) and,   *)
(* for positions, the size of the first index built since that choice.      *)
(* Nothing else that was called before, and no failure, can be told from an *)
(* answer.                                                                  *)
(***************************************************************************)
EXTENDS Integers, Sequences

CONSTANTS Threads, Handles, Files, NoFile, Sizes, DefaultSize

VARIABLES
    file,
    choice, \* [Handles -> {} or {rendition}]
    size,   \* [Handles -> {} or {bytes per position}]
    result  \* [Threads -> {} or {the last call and its outcome}]

vars == <<file, choice, size, result>>

Nothing == [rendition |-> 0, size |-> 0, asked |-> 0, selected |-> {}]

Answer(t, h, op, ok, about) ==
    result' = [result EXCEPT ![t] =
        {[call |-> [op |-> op, handle |-> h], ok |-> ok, about |-> about]}]

Chosen(h) == IF choice[h] = {} THEN 1 ELSE CHOOSE i \in choice[h] : TRUE
Good(h) == Chosen(h) \in 1..Len(file[h].renditions) /\ Chosen(h) \in file[h].parses
Positioned(h) == Good(h) /\ Chosen(h) \in file[h].indexable
Effective(s) == IF s = 0 THEN DefaultSize ELSE s
About(h, s, asked) ==
    [rendition |-> Chosen(h), size |-> s, asked |-> asked, selected |-> {Chosen(h)}]

Settle(h) == choice' = [choice EXCEPT ![h] = {Chosen(h)}]

Init ==
    /\ file = [h \in Handles |-> NoFile]
    /\ choice = [h \in Handles |-> {}]
    /\ size = [h \in Handles |-> {}]
    /\ result = [t \in Threads |-> {}]

Renew(t, h, op, f) ==
    /\ file' = [file EXCEPT ![h] = f]
    /\ choice' = [choice EXCEPT ![h] = {}]
    /\ size' = [size EXCEPT ![h] = {}]
    /\ Answer(t, h, op, TRUE, Nothing)

Touchless(t, h, op, ok) ==
    /\ Answer(t, h, op, ok, Nothing)
    /\ UNCHANGED <<file, choice, size>>

Ask(t, h, op, found) ==
    /\ file[h] # NoFile
    /\ Settle(h)
    /\ Answer(t, h, op, Good(h) /\ found, About(h, 0, 0))
    /\ UNCHANGED <<file, size>>

\* A choice that cannot be read is a choice too: it is answered with an error.
Select(t, h, i) ==
    /\ file[h] # NoFile
    /\ choice' = [choice EXCEPT ![h] = {i}]
    /\ size' = [size EXCEPT ![h] = {}]
    /\ Answer(t, h, "select",
              i \in 1..Len(file[h].renditions) /\ i \in file[h].parses,
              [rendition |-> i, size |-> 0, asked |-> 0, selected |-> {i}])
    /\ UNCHANGED file

Navigate(t, h) ==
    /\ file[h] # NoFile
    /\ Settle(h)
    /\ Answer(t, h, "nav", Good(h) /\ Chosen(h) \in file[h].navigable, About(h, 0, 0))
    /\ UNCHANGED <<file, size>>

Positions(t, h, s) ==
    /\ file[h] # NoFile
    /\ Settle(h)
    /\ Answer(t, h, "positions", Positioned(h), About(h, Effective(s), Effective(s)))
    /\ UNCHANGED <<file, size>>

\* The first size asked for is the size of every later answer.
Index(h, s) ==
    size' = [size EXCEPT ![h] =
                IF Positioned(h) /\ @ = {} THEN {Effective(s)} ELSE @]
SizeInForce(h) == CHOOSE s \in size'[h] : TRUE

Locations(t, h, s) ==
    /\ file[h] # NoFile
    /\ Settle(h)
    /\ Index(h, s)
    /\ Answer(t, h, "locations", Positioned(h),
              IF Positioned(h) THEN About(h, SizeInForce(h), Effective(s)) ELSE Nothing)
    /\ UNCHANGED file

Lookup(t, h, found) ==
    /\ file[h] # NoFile
    /\ Settle(h)
    /\ Index(h, 0)
    /\ Answer(t, h, "lookup", Positioned(h) /\ found,
              IF Positioned(h) THEN About(h, SizeInForce(h), SizeInForce(h)) ELSE Nothing)
    /\ UNCHANGED file

Next == \E t \in Threads, h \in Handles :
    \/ \E f \in Files : file[h] = NoFile /\ Renew(t, h, "open", f)
    \/ file[h] # NoFile /\ Renew(t, h, "free", NoFile)
    \/ \E op \in {"open", "query", "lookup"} : Touchless(t, h, op, FALSE)
    \/ Touchless(t, h, "renditions", TRUE)
    \/ \E ok \in BOOLEAN : Touchless(t, h, "bytes", ok)
    \/ Ask(t, h, "parse", TRUE)
    \/ \E found \in BOOLEAN : Ask(t, h, "query", found)
    \/ file[h] # NoFile /\ \E i \in 1..(Len(file[h].renditions) + 1) : Select(t, h, i)
    \/ Navigate(t, h)
    \/ \E s \in Sizes : Positions(t, h, s) \/ Locations(t, h, s)
    \/ \E found \in BOOLEAN : Lookup(t, h, found)

Spec == Init /\ [][Next]_vars
=============================================================================
