----------------------------- MODULE WasmSession -----------------------------
(***************************************************************************)
(* wasm.rs: the bindings for JavaScript.  An EpubParser holds the archive,  *)
(* the LazyBook and the position index of a C handle and drops them at the  *)
(* same calls, so the caches are those of EpubHandle; what differs is which *)
(* calls go through them.  generate_locations computes positions afresh,    *)
(* get_file_bytes and get_chapter_with_rewritten_assets read the archive    *)
(* past every cache, and a failure is an exception of the call itself:      *)
(* last_error[t] is here the exception thread t's last call ended with.     *)
(*                                                                          *)
(* An EpubGenerator keeps its EpubBuilder in an Option that every method    *)
(* takes and puts back; a method that finds None traps (unwrap), and the    *)
(* object cannot be used after that.                                        *)
(***************************************************************************)
EXTENDS EpubHandle

CONSTANT MaxCalls \* bound: calls that change one generator
ASSUME MaxCallsAssumption == MaxCalls \in Nat

VARIABLES
    builder,   \* {} once taken for good, or {the calls applied to it}
    generated, \* history: generate was called
    accepted,  \* history: the calls that returned
    trapped    \* a method ended in a trap

generator_vars == <<builder, generated, accepted, trapped>>
wasm_vars == <<vars, generator_vars>>

WasmInit ==
    /\ Init
    /\ builder = {<< >>} /\ generated = FALSE /\ accepted = << >> /\ trapped = FALSE

-----------------------------------------------------------------------------
\* The parser.  The constructor, and the free() every exported object has.
New(t, h, f) == Open(t, h, f)
FreeParser(t, h) ==
    /\ file[h] # NoFile
    /\ file' = [file EXCEPT ![h] = NoFile]
    /\ Fresh(h)
    /\ Report(t, Call("free", h), TRUE, Nothing)

\* get_file_bytes, get_file_string, get_chapter_with_rewritten_assets: read by
\* path, without a book.
GetFile(t, h, found) ==
    /\ file[h] # NoFile
    /\ Report(t, Call("bytes", h), found, Nothing)
    /\ UNCHANGED handle_vars

\* In error: positions are taken from the index, built if need be.
LocationsOfIndex(t, h, size) ==
    /\ file[h] # NoFile
    /\ EnsureIndexBuilt(h, size)
    /\ Report(t, Call("positions", h), Indexed(h),
              IF Indexed(h) THEN About(h, TheIndex(h).rendition, TheIndex(h).size, Effective(size))
              ELSE Nothing)
    /\ UNCHANGED <<file, handed>>
\* generate_locations, positions_by_reading_order: computed at the size asked
\* for, whatever index there is, and kept nowhere.
FreshLocations(t, h, size) == PositionsByReadingOrder(t, h, size)

\* generate_location_index: the positions of the index, built at the size asked
\* for if there was none.
LocationIndex(t, h, size) == GenerateLocations(t, h, size)

\* location_from_cfi, cfi_from_location: not found is an answer (-1, null),
\* only a missing index is an exception.
LookUp(t, h) == Lookup(t, h, TRUE)

ParserNext(t, h) ==
    \/ \E f \in Files : New(t, h, f)
    \/ Refused(t, h, "open")
    \/ FreeParser(t, h)
    \/ Parse(t, h)
    \/ GetRenditions(t, h)
    \/ \E i \in IndexArguments(h) : ParseByIndex(t, h, i)
    \/ \E layout \in Layouts \cup {Absent}, language \in Languages \cup {Absent} :
          ParseBestFor(t, h, layout, language)
    \/ GetNavigation(t, h)
    \/ PreferredReadingStart(t, h)
    \/ \E found \in BOOLEAN :
          \/ MediaOverlay(t, h, found)
          \/ GetResource(t, h, found)
          \/ PrepareOrSearch(t, h, found)
          \/ GetFile(t, h, found)
    \/ \E size \in Sizes : FreshLocations(t, h, size) \/ LocationIndex(t, h, size)
    \/ LookUp(t, h)

-----------------------------------------------------------------------------
\* The generator.
Idle == ~trapped
Trap ==
    /\ trapped' = TRUE
    /\ UNCHANGED <<builder, generated, accepted>>
Apply(call) ==
    /\ Len(accepted) < MaxCalls
    /\ builder' = {Append(applied, call) : applied \in builder}
    /\ accepted' = Append(accepted, call)
    /\ UNCHANGED <<generated, trapped>>

\* set_title, set_language, add_author, set_identifier, set_theme,
\* add_stylesheet, add_image, set_cover_image, add_chapter,
\* add_chapter_with_nav, add_landmark, add_page.
Set(call) ==
    /\ Idle
    /\ IF builder = {} THEN Trap ELSE Apply(call)

\* In error: the builder is taken before the argument is read.
TakeThenRead(call, readable) ==
    /\ Idle
    /\ IF builder = {} THEN Trap
       ELSE IF readable THEN Apply(call)
       ELSE builder' = {} /\ UNCHANGED <<generated, accepted, trapped>>
\* set_toc, set_metadata: an argument that cannot be read is an exception, and
\* the builder has not been taken then.
SetFromJs(call, readable) ==
    /\ Idle
    /\ IF ~readable THEN UNCHANGED generator_vars
       ELSE IF builder = {} THEN Trap ELSE Apply(call)

\* validate only borrows the builder.
Validate == Idle /\ IF builder = {} THEN Trap ELSE UNCHANGED generator_vars
\* generate takes it for good, also when it fails.
Generate ==
    /\ Idle
    /\ IF builder = {} THEN Trap
       ELSE builder' = {} /\ generated' = TRUE /\ UNCHANGED <<accepted, trapped>>

GeneratorNext ==
    \/ \E call \in {"title", "chapter"} : Set(call)
    \/ \E call \in {"toc", "metadata"}, readable \in BOOLEAN : SetFromJs(call, readable)
    \/ Validate
    \/ Generate

WasmNext ==
    \/ (\E t \in Threads, h \in Handles : ParserNext(t, h)) /\ UNCHANGED generator_vars
    \/ GeneratorNext /\ UNCHANGED vars
WasmSpec == WasmInit /\ [][WasmNext]_wasm_vars

-----------------------------------------------------------------------------
\* The type of the state, with the index and the memo that only a parsed book has.
WasmTypeOK ==
    /\ book \in [Handles -> LazyBooks]
    /\ \A h \in Handles : book[h].state = "Unparsed" =>
         nav_cache[h] = {} /\ position_index[h] = {} /\ handed[h] = {}
    /\ \A h \in Handles : \A x \in position_index[h] :
         x.rendition \in file[h].parses /\ x.size \in Nat \ {0}
    /\ Cardinality(builder) <= 1 /\ Len(accepted) <= MaxCalls

\* The positions array of generate_location_index stays the one the lookups
\* index into until another rendition is selected, whatever sizes
\* generate_locations was asked for in between.
LookupsMatchLocationIndex ==
    \A h \in Handles : handed[h] # {} => position_index[h] = handed[h]

\* The builder is lost to nothing but generate: until then it holds every call
\* that returned, in order, and no method traps, an argument of set_toc or
\* set_metadata that cannot be read included.
BuilderLostOnlyToGenerate ==
    IF generated THEN builder = {} ELSE builder = {accepted} /\ ~trapped

\* The exported objects keep their state over calls that fail or trap.
WasmConsistent == WasmTypeOK /\ LookupsMatchLocationIndex /\ BuilderLostOnlyToGenerate

\* A parser of the WASM bindings implements the session a C handle implements.
ParserIsSession == Session!Spec
=============================================================================
