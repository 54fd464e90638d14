------------------------------ MODULE XmlReader ------------------------------
(***************************************************************************)
(* The event loop that parser/opf.rs, encryption.rs, navigation.rs and      *)
(* smil.rs share: read_event_into hands over the events of a document one   *)
(* by one and each parser is a state machine over them.                     *)
(*                                                                          *)
(* A package maps each of its documents to the events of that document.     *)
(* Names are local names (the parsers compare suffixes); `attr` is a        *)
(* function from the attributes present to their values; a "bad" event is   *)
(* markup that is not well-formed, which read_event_into reports as Err.  A *)
(* document cut short simply ends: quick-xml reports Eof.                   *)
(***************************************************************************)
EXTENDS Integers, Sequences

CONSTANT Absent \* an attribute, a value or a document that is not there

VARIABLES
    package, \* the documents, by stage
    stage,   \* the document being read; then "done", or "failed" for an Err
    at       \* the next event

reader == <<package, stage, at>>

Reading(s) == stage = s /\ package[s] # Absent /\ at <= Len(package[s])
Event == package[stage][at]
Sees(s, ev, names) == Reading(s) /\ Event.ev = ev /\ Event.name \in names
SeesOther(s, ev, names) == Reading(s) /\ Event.ev = ev /\ Event.name \notin names
Attr(key) == IF key \in DOMAIN Event.attr THEN Event.attr[key] ELSE Absent

Advance == at' = at + 1 /\ UNCHANGED <<package, stage>>
\* The loop is over: at Eof, with the document read; or at once.
AtEof(s) == stage = s /\ package[s] # Absent /\ at > Len(package[s])
GoTo(s) == stage' = s /\ at' = 1 /\ UNCHANGED package
\* `read_event_into(...)?`: the call fails.
Malformed(s) == Reading(s) /\ Event.ev = "bad" /\ GoTo("failed")
Missing(s) == stage = s /\ package[s] = Absent

\* Update of a map: an entry is inserted or replaced.
With(f, key, value) == [k \in DOMAIN f \cup {key} |-> IF k = key THEN value ELSE f[k]]
Lookup(f, key) == IF key \in DOMAIN f THEN f[key] ELSE Absent
=============================================================================
