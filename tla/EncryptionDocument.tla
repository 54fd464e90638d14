-------------------------- MODULE EncryptionDocument --------------------------
(***************************************************************************)
(* parser/encryption.rs: META-INF/encryption.xml to the map from ZIP paths  *)
(* to encryption metadata.                                                  *)
(*                                                                          *)
(* The parts of an EncryptedData element are collected one by one and       *)
(* committed at its end.  No error leaves this parser: a missing document,  *)
(* and whatever follows malformed markup, contributes nothing.              *)
(***************************************************************************)
EXTENDS XmlReader

CONSTANTS
    LengthOf \* the OriginalLength texts that read as a number, with that number
ASSUME LengthAssumption ==
    /\ LengthOf \in [DOMAIN LengthOf -> Nat]
    /\ Absent \notin DOMAIN LengthOf \cup Nat
    /\ Absent \notin {"Idpf", "Adobe", "AesCbc", "Unknown"}

VARIABLES
    enc,        \* locals of parse_encryption
    encryptions \* book.encryptions

encVars == <<enc, encryptions>>

EmptyEnc == [algorithm |-> Absent, original_length |-> Absent, uri |-> Absent]

\* ObfuscationAlgorithm::from_algorithm_uri, on families of URIs.
AlgorithmOfUri(uri) == IF uri \in {"Idpf", "Adobe", "AesCbc"} THEN uri ELSE "Unknown"

EncTag(names) == Sees("encryption", "start", names) \/ Sees("encryption", "empty", names)
EncryptionMethod ==
    /\ EncTag({"EncryptionMethod"})
    /\ enc' = [enc EXCEPT !.algorithm =
                 IF Attr("Algorithm") = Absent THEN @ ELSE AlgorithmOfUri(Attr("Algorithm"))]
    /\ Advance /\ UNCHANGED encryptions
CipherReference ==
    /\ EncTag({"CipherReference"})
    /\ enc' = [enc EXCEPT !.uri = IF Attr("URI") = Absent THEN @ ELSE Attr("URI")]
    /\ Advance /\ UNCHANGED encryptions
Compression ==
    /\ EncTag({"Compression"})
    /\ enc' = [enc EXCEPT !.original_length =
                 IF Attr("OriginalLength") = Absent THEN @
                 ELSE Lookup(LengthOf, Attr("OriginalLength"))]
    /\ Advance /\ UNCHANGED encryptions
EncOther ==
    /\ \/ SeesOther("encryption", "start", {"EncryptionMethod", "CipherReference", "Compression"})
       \/ SeesOther("encryption", "empty", {"EncryptionMethod", "CipherReference", "Compression"})
       \/ SeesOther("encryption", "end", {"EncryptedData"})
       \/ Reading("encryption") /\ Event.ev \in {"text", "ref"}
    /\ Advance /\ UNCHANGED encVars

\* An entry needs a URI, and an algorithm or a length; what was collected is
\* dropped either way.
Committed ==
    IF enc.uri = Absent \/ (enc.algorithm = Absent /\ enc.original_length = Absent)
    THEN encryptions
    ELSE With(encryptions, enc.uri,
              [algorithm |-> IF enc.algorithm = Absent THEN "Unknown" ELSE enc.algorithm,
               original_length |-> enc.original_length])
\* In error: the length of an entry is kept for the next.
EndEncryptedDataKeepingLength ==
    /\ Sees("encryption", "end", {"EncryptedData"})
    /\ encryptions' = Committed
    /\ enc' = [EmptyEnc EXCEPT !.original_length = enc.original_length]
    /\ Advance
EndEncryptedData ==
    /\ Sees("encryption", "end", {"EncryptedData"})
    /\ encryptions' = Committed
    /\ enc' = EmptyEnc
    /\ Advance

\* Eof, malformed markup and a missing document all end the loop the same way.
EncryptionRead ==
    /\ \/ AtEof("encryption") \/ Missing("encryption")
       \/ Reading("encryption") /\ Event.ev = "bad"
    /\ GoTo("nav") /\ UNCHANGED encVars

EncryptionNext ==
    EncryptionMethod \/ CipherReference \/ Compression \/ EncOther
      \/ EndEncryptedData \/ EncryptionRead
=============================================================================
