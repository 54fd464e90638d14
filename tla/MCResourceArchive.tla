-------------------------- MODULE MCResourceArchive --------------------------
(***************************************************************************)
(* Small containers for ResourceArchive.  Lengths are in units of 1 MiB     *)
(* scaled down: an entry over MCFileLimit bypasses the cache, two or three  *)
(* entries fill it, and a decryptor may inflate an entry past the whole     *)
(* cache (content encryption is applied after compression).                 *)
(***************************************************************************)
EXTENDS ResourceArchive

CONSTANTS text, font, drm, big, b1, b2, b3, id1, id2, d1, d2

MCPaths == {text, font, drm, big}
MCBooks == {b1, b2, b3}
MCTwoBooks == {b1, b2}
MCDecryptors == {d1, d2}
MCFileLimit == 2
MCMaxCacheSize == 3

\* entry_length fails for text: it is treated as empty, though 2 units long.
MCEntryLength == (text :> 0) @@ (font :> 1) @@ (drm :> 1) @@ (big :> 3)
MCRawLen == (text :> 2) @@ (font :> 1) @@ (drm :> 1) @@ (big :> 3)
MCEncryption == (text :> "none") @@ (font :> "font") @@ (drm :> "content")
                  @@ (big :> "content")
\* d1 sometimes inflates drm past the cache; d2 sometimes declines.
MCAnswers ==
    d1 :> [p \in MCPaths |-> IF p = drm THEN {2, 4} ELSE {3}] @@
    d2 :> [p \in MCPaths |-> IF p = drm THEN {1, Declined} ELSE {Declined}]

\* Renditions that share an identifier, or two with identifiers of their own.
MCOneIdentifier == [b \in MCBooks |-> id1]
MCIdentifier == (b1 :> id1) @@ (b2 :> id2)

\* b1 has a navigation document, b2 none, and b3's does not parse.
MCNavPath == (b1 :> text) @@ (b2 :> NoPath) @@ (b3 :> font)
MCMalformedNav == {b3}
MCNoneMalformed == {}
MCTwoNavPath == (b1 :> text) @@ (b2 :> NoPath)
=============================================================================
