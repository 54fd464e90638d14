---------------------------- MODULE ResourceReader ----------------------------
(***************************************************************************)
(* What EpubArchive promises about resource bytes, without its cache: a     *)
(* read of an entry for a parsed book returns what processing the entry     *)
(* for that book with the decryptor installed at that moment gives, or an   *)
(* error.  Eviction, hits and the order of earlier reads cannot be told.    *)
(***************************************************************************)
CONSTANTS Paths, Books, Decryptors, NoDecryptor, Processed(_, _, _)

VARIABLES decryptor, parsed, reply

Init ==
    /\ decryptor = NoDecryptor
    /\ parsed = {}
    /\ reply = {}

Read(b, p) ==
    /\ b \in parsed
    /\ \E bytes \in {{}} \cup {{x} : x \in Processed(b, p, decryptor)} :
          reply' = {[book |-> b, path |-> p, bytes |-> bytes]}
    /\ UNCHANGED <<decryptor, parsed>>

Install(d) == decryptor' = d /\ UNCHANGED <<parsed, reply>>

Parse(b) == parsed' = parsed \cup {b} /\ UNCHANGED <<decryptor, reply>>

Next ==
    \/ \E b \in Books, p \in Paths : Read(b, p)
    \/ \E b \in Books : Parse(b)
    \/ \E d \in Decryptors \cup {NoDecryptor} : Install(d)

Spec == Init /\ [][Next]_<<decryptor, parsed, reply>>
=============================================================================
