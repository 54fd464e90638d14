--------------------------- MODULE MCEpubGenerator ---------------------------
(***************************************************************************)
(* Small packages for EpubGenerator: callers name resources c1, or as the   *)
(* generator names its own documents and covers.                            *)
(***************************************************************************)
EXTENDS EpubGenerator

CONSTANTS c1, nav, ncx, cover_image, x, y, title

MCIds == {c1, nav, ncx, cover_image}
MCHrefs == {x, y}
MCMandatory == {title}
=============================================================================
