------------------------------- MODULE EpubPath -------------------------------
(***************************************************************************)
(* path.rs: paths inside the package and the references that name them.     *)
(*                                                                          *)
(* A path is the sequence of its segments.  A reference, as it stands in a  *)
(* document, is [ext, path, frag]: whether its scheme makes it external,    *)
(* its segments, "." and ".." among them, and whether "#..." follows.       *)
(* What percent-decoding does to a segment, and where "?" or "#" cuts one,  *)
(* are given by the constants: everything else is about whole segments.     *)
(***************************************************************************)
EXTENDS Sequences, SequencesExt, Functions

CONSTANTS
    Decoded, \* [encoded segments -> what percent_decode makes of them]
    Cut,     \* [segments with "?" or "#" in them -> the part before it]
    SegmentEndsWith \* <<s, t>>: segment s ends with t, and is not t

DecodeSegment(s) == IF s \in DOMAIN Decoded THEN Decoded[s] ELSE s

\* ".." at the top stays there: a path never leaves the package, it is clamped.
JoinEpubPath(base, rel) ==
    FoldLeft(LAMBDA parts, seg :
                 CASE seg \in {"", "."} -> parts
                   [] seg = ".." -> IF parts = << >> THEN parts ELSE Front(parts)
                   [] OTHER -> Append(parts, seg),
             << >>, base \o rel)

\* Everything after the first "?" or "#" goes, in whichever segment it is.
StripQueryAndFragment(path) ==
    LET at == {i \in DOMAIN path : path[i] \in DOMAIN Cut}
    IN IF at = {} THEN path
       ELSE LET i == CHOOSE i \in at : \A j \in at : i <= j
            IN Append(SubSeq(path, 1, i - 1), Cut[path[i]])

NormalizePath(base, path) ==
    LET stripped == StripQueryAndFragment(path)
    IN JoinEpubPath(base, [i \in DOMAIN stripped |-> DecodeSegment(stripped[i])])

ParentDir(path) == IF path = << >> THEN path ELSE Front(path)

\* str::ends_with, on paths.
EndsWith(path, end) ==
    \/ end = << >>
    \/ /\ end # << >> /\ Len(end) <= Len(path)
       /\ LET n == Len(path) - Len(end) IN
            /\ \A i \in 2..Len(end) : path[n + i] = end[i]
            /\ path[n + 1] = end[1] \/ <<path[n + 1], end[1]>> \in SegmentEndsWith

\* A reference that stays in the document it is in: nothing before the "#".
IsFragmentOnly(ref) == ref.path = << >> /\ ref.frag
=============================================================================
