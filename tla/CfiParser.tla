------------------------------ MODULE CfiParser ------------------------------
(***************************************************************************)
(* cfi/parser.rs: a CFI from its text.  Three scanners read the same text   *)
(* with three notions of "inside an assertion": the range splitter counts   *)
(* brackets, the terminus scan knows only in and out, and the "!" that      *)
(* parts package path and local path is looked for everywhere.              *)
(***************************************************************************)
EXTENDS Cfi

CONSTANT Malformed \* EpubError::InvalidFormat

ASSUME MalformedAssumption == Malformed \notin Nat \cup {Absent, NaN}

\* split_cfi_top_level: the parts between commas outside brackets.
KeepInPart(acc, c) == [acc EXCEPT !.last = Append(@, c)]
SplitStep(acc, c) ==
    CASE acc.escaped -> [KeepInPart(acc, c) EXCEPT !.escaped = FALSE]
      [] ~acc.escaped /\ c = "^" -> [KeepInPart(acc, c) EXCEPT !.escaped = TRUE]
      [] ~acc.escaped /\ c = "[" -> [KeepInPart(acc, c) EXCEPT !.depth = @ + 1]
      [] ~acc.escaped /\ c = "]" ->
           [KeepInPart(acc, c) EXCEPT !.depth = IF @ = 0 THEN 0 ELSE @ - 1]
      [] ~acc.escaped /\ c = "," /\ acc.depth = 0 ->
           [acc EXCEPT !.parts = Append(@, acc.last), !.last = << >>]
      [] OTHER -> KeepInPart(acc, c)
AllParts(acc) == Append(acc.parts, acc.last)
SplitTopLevel(s) ==
    AllParts(FoldLeft(SplitStep, [parts |-> << >>, last |-> << >>, depth |-> 0,
                                  escaped |-> FALSE], s))

\* The position of the first ":", "~" or "@" outside an assertion, 0 if none.
TerminusStep(acc, c) ==
    LET next == [acc EXCEPT !.at = @ + 1] IN
    CASE acc.found # 0 -> acc
      [] acc.found = 0 /\ acc.escaped -> [next EXCEPT !.escaped = FALSE]
      [] acc.found = 0 /\ ~acc.escaped /\ c = "^" -> [next EXCEPT !.escaped = TRUE]
      [] acc.found = 0 /\ ~acc.escaped /\ c = "[" -> [next EXCEPT !.inside = TRUE]
      [] acc.found = 0 /\ ~acc.escaped /\ c = "]" -> [next EXCEPT !.inside = FALSE]
      [] acc.found = 0 /\ ~acc.escaped /\ ~acc.inside /\ c \in {":", "~", "@"} ->
           [next EXCEPT !.found = acc.at]
      [] OTHER -> next
TerminusAt(s) ==
    FoldLeft(TerminusStep, [found |-> 0, at |-> 1, escaped |-> FALSE, inside |-> FALSE], s).found

\* str::parse::<u32>, for numbers within its width.
Digits == {Digit[i] : i \in DOMAIN Digit}
ParseNat(s) ==
    IF s = << >> \/ ~(ToSet(s) \subseteq Digits) THEN Malformed
    ELSE FoldLeft(LAMBDA n, d : 10 * n + (CHOOSE i \in DOMAIN Digit : Digit[i] = d) - 1, 0, s)
\* str::parse::<f64> takes "NaN" for a number.
ParseFloat(s) == IF s = <<"NaN">> THEN NaN ELSE ParseNat(s)

\* parse_steps: one scan; a "/" outside an assertion ends a step, an escaped
\* character is kept as it is, and a step with neither index nor assertion is
\* skipped.
NoStep == [index |-> << >>, assertion |-> << >>, has |-> FALSE, inside |-> FALSE,
           escaped |-> FALSE]
KeepInStep(st, c) ==
    IF st.inside THEN [st EXCEPT !.assertion = Append(@, c)] ELSE [st EXCEPT !.index = Append(@, c)]
Finished(done, step) ==
    IF step.index # << >> \/ step.has THEN Append(done, step) ELSE done
StepsStep(acc, c) ==
    CASE acc.step.escaped -> [acc EXCEPT !.step = [KeepInStep(@, c) EXCEPT !.escaped = FALSE]]
      [] ~acc.step.escaped /\ c = "^" -> [acc EXCEPT !.step.escaped = TRUE]
      [] ~acc.step.escaped /\ c = "/" /\ ~acc.step.inside ->
           [done |-> Finished(acc.done, acc.step), step |-> NoStep]
      [] ~acc.step.escaped /\ c = "[" /\ ~acc.step.inside -> [acc EXCEPT !.step.inside = TRUE]
      [] ~acc.step.escaped /\ c = "]" /\ acc.step.inside ->
           [acc EXCEPT !.step.inside = FALSE, !.step.has = TRUE]
      [] OTHER -> [acc EXCEPT !.step = KeepInStep(@, c)]
StepsScanned(acc) == Finished(acc.done, acc.step)
StepsRead(read) ==
    [i \in DOMAIN read |-> Step(ParseNat(read[i].index),
                                IF read[i].has THEN read[i].assertion ELSE Absent)]
WellFormed(steps) ==
    IF \E i \in DOMAIN steps : steps[i].index = Malformed THEN Malformed ELSE steps
ParseSteps(s) ==
    WellFormed(StepsRead(StepsScanned(
        FoldLeft(StepsStep, [done |-> << >>, step |-> NoStep],
                 IF s # << >> /\ s[1] = "/" THEN Tail(s) ELSE s))))

FirstAt(s, c) == SelectInSeq(s, LAMBDA d : d = c)
LastAt(s, c) == SelectLastInSeq(s, LAMBDA d : d = c)
Before(s, i) == IF i = 0 THEN s ELSE SubSeq(s, 1, i - 1)
Behind(s, i) == IF i = 0 THEN << >> ELSE SubSeq(s, i + 1, Len(s))

SpatialPoint(x, y) == IF x = Malformed \/ y = Malformed THEN Malformed ELSE [x |-> x, y |-> y]
SpatialParted(s, colon) == SpatialPoint(ParseFloat(Before(s, colon)), ParseFloat(Behind(s, colon)))
ParseSpatial(s) == SpatialParted(s, FirstAt(s, ":"))

\* The terminus: ":" offset and side, "~" seconds with a spatial offset or
\* without, or "@" alone.
NoTerminus == [offset |-> Absent, side |-> Absent, temporal |-> Absent, spatial |-> Absent]
OffsetTerminus(rest, colon) ==
    IF colon # 0 /\ Behind(rest, colon) \in {<<"before">>, <<"after">>}
    THEN [NoTerminus EXCEPT !.offset = ParseNat(Before(rest, colon)), !.side = Last(rest)]
    ELSE [NoTerminus EXCEPT !.offset = ParseNat(rest)]
TemporalTerminus(rest, at) ==
    [NoTerminus EXCEPT !.temporal = ParseFloat(Before(rest, at)),
                       !.spatial = IF at = 0 THEN Absent ELSE ParseSpatial(Behind(rest, at))]
ParseTerminus(mark, rest) ==
    CASE mark = ":" -> OffsetTerminus(rest, LastAt(rest, ":"))
      [] mark = "~" -> TemporalTerminus(rest, FirstAt(rest, "@"))
      [] mark = "@" -> [NoTerminus EXCEPT !.spatial = ParseSpatial(rest)]

\* parse_steps_and_offset, the steps as a path without "!".
PathWithTerminus(steps, end) ==
    IF steps = Malformed \/ end.offset = Malformed \/ end.temporal = Malformed
         \/ end.spatial = Malformed
    THEN Malformed
    ELSE [Path(steps, Absent, end.offset) EXCEPT
            !.side = end.side, !.temporal = end.temporal, !.spatial = end.spatial]
TerminalParted(s, mark) ==
    PathWithTerminus(ParseSteps(Before(s, mark)),
                     IF mark = 0 THEN NoTerminus ELSE ParseTerminus(s[mark], Behind(s, mark)))
ParseTerminal(s) == TerminalParted(s, TerminusAt(s))

\* parse_path: package path and local path, parted by the only "!".
PathWithLocal(base, rest) ==
    IF base = Malformed \/ rest = Malformed THEN Malformed
    ELSE [rest EXCEPT !.steps = base.steps, !.local = rest.steps]
PathParted(parts) ==
    CASE Len(parts) = 1 -> parts[1]
      [] Len(parts) = 2 -> PathWithLocal(parts[1], parts[2])
      [] OTHER -> Malformed
ParsePath(s) ==
    LET bang == FirstAt(s, "!") IN
    PathParted(
        [i \in 1..(IF bang = 0 THEN 1 ELSE IF FirstAt(Behind(s, bang), "!") = 0 THEN 2 ELSE 3) |->
           ParseTerminal(IF i = 1 THEN Before(s, bang) ELSE Behind(s, bang))])

\* from_str: one part is a point, three are a range.
CfiOfPaths(paths) ==
    CASE \E i \in DOMAIN paths : paths[i] = Malformed -> Malformed
      [] Len(paths) = 1 /\ paths[1] # Malformed -> Point(paths[1])
      [] Len(paths) = 3 /\ (\A i \in 1..3 : paths[i] # Malformed) ->
           RangeOf(paths[1], paths[2], paths[3])
      [] OTHER -> Malformed
PathsOf(parts) == [i \in DOMAIN parts |-> ParsePath(parts[i])]
ParseCfi(text) ==
    IF Len(text) < 2 \/ Head(text) # "epubcfi(" \/ Last(text) # ")" THEN Malformed
    ELSE CfiOfPaths(PathsOf(SplitTopLevel(SubSeq(text, 2, Len(text) - 1))))
=============================================================================
