--------------------------- MODULE StreamRewriting ---------------------------
(***************************************************************************)
(* processor/html.rs, rewrite_links_stream and inject_head_content, reading *)
(* from crypto.rs, DeobfuscatingReader.                                     *)
(*                                                                          *)
(* The loop reads into a buffer, hands what it got to the HTML rewriter, and *)
(* the rewriter calls back with pieces of output as it sees fit: during one *)
(* write any number of times, and with what it still holds when it ends.    *)
(* The callback cannot fail, so a failing write to the sink is put aside in *)
(* write_error, which is looked at before the next read and at the end.     *)
(*                                                                          *)
(* A byte is its position and the key byte it was combined with; no element *)
(* is changed, so that input and output can be compared.                    *)
(***************************************************************************)
EXTENDS Integers, Sequences, SequencesExt, FiniteSets

CONSTANTS
    SourceLengths,      \* lengths of the stream
    ObfuscationLength,  \* 1040 or 1024 in the code
    KeyLength,          \* 20 or 16
    BufferLength,       \* 8192
    Plain               \* no key byte

ASSUME SourceLengthsAssumption == SourceLengths \subseteq Nat
ASSUME KeyAssumption == ObfuscationLength \in Nat /\ KeyLength \in Nat \ {0}

VARIABLES
    source_length,
    current_offset, \* DeobfuscatingReader: how much was read
    streaming,      \* "idle" | "loop" | "write" | "end" | "ok" | "error"
    received,       \* bytes handed to the rewriter so far
    held,           \* those it has not put out yet
    output,         \* what the sink took
    write_error,    \* {} or {the failed write}: shared with the callback
    faults          \* history: what failed, in order

stream_vars == <<source_length, current_offset, streaming, received, held,
                 output, write_error, faults>>

-----------------------------------------------------------------------------
\* In error: the key starts over with each read.
DeobfuscatedPerRead(offset, n) ==
    [i \in 1..n |->
        LET pos == offset + i - 1 IN
          [pos |-> pos,
           key |-> IF pos < ObfuscationLength THEN (i - 1) % KeyLength ELSE Plain]]
\* Read: the first ObfuscationLength bytes of the stream, counted over all
\* reads, are combined with the key.
Deobfuscated(offset, n) ==
    [i \in 1..n |->
        LET pos == offset + i - 1 IN
          [pos |-> pos,
           key |-> IF pos < ObfuscationLength THEN pos % KeyLength ELSE Plain]]

StreamInit ==
    /\ source_length \in SourceLengths
    /\ current_offset = 0 /\ streaming = "idle"
    /\ received = << >> /\ held = << >> /\ output = << >>
    /\ write_error = {} /\ faults = << >>

StartStream ==
    /\ streaming = "idle"
    /\ streaming' = "loop"
    /\ UNCHANGED <<source_length, current_offset, received, held, output,
                   write_error, faults>>

\* A read returns any number of bytes up to the buffer's length.
ReadChunk ==
    /\ streaming = "loop" /\ write_error = {}
    /\ \E n \in 1..BufferLength :
         /\ current_offset + n <= source_length
         /\ LET bytes == Deobfuscated(current_offset, n) IN
              /\ received' = received \o bytes
              /\ held' = held \o bytes
         /\ current_offset' = current_offset + n
    /\ streaming' = "write"
    /\ UNCHANGED <<source_length, output, write_error, faults>>

\* `?` on the reader: what is in the rewriter is dropped.
ReadFails ==
    /\ streaming = "loop" /\ write_error = {}
    /\ streaming' = "error"
    /\ faults' = Append(faults, "read")
    /\ UNCHANGED <<source_length, current_offset, received, held, output,
                   write_error>>

\* The rewriter gives up, in write or in end.
RewriterFails ==
    /\ streaming \in {"write", "end"}
    /\ streaming' = "error"
    /\ faults' = Append(faults, "rewriter")
    /\ UNCHANGED <<source_length, current_offset, received, held, output,
                   write_error>>

\* The callback with the next k bytes.  A sink that failed is called again for
\* the pieces that follow in the same write, and may then succeed.
Put(k) ==
    /\ held' = SubSeq(held, k + 1, Len(held))
    /\ \/ /\ output' = output \o SubSeq(held, 1, k)
          /\ UNCHANGED <<write_error, faults>>
       \/ /\ \E n \in 0..(k - 1) : output' = output \o SubSeq(held, 1, n)
          /\ write_error' = {Len(faults)}
          /\ faults' = Append(faults, "sink")

PutOut ==
    /\ streaming \in {"write", "end"}
    /\ \E k \in 1..Len(held) : Put(k)
    /\ UNCHANGED <<source_length, current_offset, streaming, received>>

\* In error: what the rewriter holds goes with the buffer.
WriteReturnsCleared ==
    /\ streaming = "write"
    /\ streaming' = "loop" /\ held' = << >>
    /\ UNCHANGED <<source_length, current_offset, received, output,
                   write_error, faults>>
WriteReturns ==
    /\ streaming = "write"
    /\ streaming' = "loop"
    /\ UNCHANGED <<source_length, current_offset, received, held, output,
                   write_error, faults>>

\* read returns 0.
EndOfSource ==
    /\ streaming = "loop" /\ write_error = {}
    /\ current_offset = source_length
    /\ streaming' = "end"
    /\ UNCHANGED <<source_length, current_offset, received, held, output,
                   write_error, faults>>

\* Break: the rewriter is not ended.
SinkErrorSeen ==
    /\ streaming = "loop" /\ write_error # {}
    /\ streaming' = "error"
    /\ UNCHANGED <<source_length, current_offset, received, held, output,
                   write_error, faults>>

EndReturns ==
    /\ streaming = "end" /\ held = << >>
    /\ streaming' = IF write_error # {} THEN "error" ELSE "ok"
    /\ UNCHANGED <<source_length, current_offset, received, held, output,
                   write_error, faults>>

StreamNext ==
    \/ StartStream \/ ReadChunk \/ ReadFails \/ RewriterFails \/ PutOut
    \/ WriteReturns \/ EndOfSource \/ SinkErrorSeen \/ EndReturns

StreamSpec == StreamInit /\ [][StreamNext]_stream_vars

StreamOver == streaming \in {"ok", "error"}

-----------------------------------------------------------------------------
\* However the reads and the rewriter cut the stream into pieces, a call that
\* reports success has put out every byte once, in order, and with the key byte
\* of its own position in the file or none (html.rs: rewrite_links_stream;
\* crypto.rs: DeobfuscatingReader::read).
SuccessIsComplete ==
    streaming = "ok" =>
        output = [i \in 1..source_length |->
                    [pos |-> i - 1,
                     key |-> IF i <= ObfuscationLength THEN (i - 1) % KeyLength
                             ELSE Plain]]

\* A call that fails does so because the source, the rewriter or the sink did
\* (the early break and the three uses of `?`), and until the sink fails it has
\* a prefix of what was read.
FailureHasACause ==
    /\ streaming = "error" => faults # << >>
    /\ "sink" \notin Range(faults) => IsPrefix(output, received)
=============================================================================
