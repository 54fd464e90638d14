--------------------------- MODULE ResourceArchive ---------------------------
(***************************************************************************)
(* parser/mod.rs: struct EpubArchive, its LRU cache of decrypted            *)
(* resources, its content decryptor and its memoized navigation document.   *)
(*                                                                          *)
(* Every public operation takes &mut self, so calls never overlap; but one  *)
(* call is not one step.  A cache miss reads and decrypts the entry, then   *)
(* loops, evicting the oldest entries one at a time, and only then inserts. *)
(* The variable `fetched` holds that call's local state between the steps.  *)
(*                                                                          *)
(* Bytes are abstracted to where they come from: the ZIP path, what was     *)
(* done to them (nothing, XOR with an identifier's key, a decryptor's       *)
(* plaintext), under which key, and how many there are.                     *)
(***************************************************************************)
EXTENDS Integers, Sequences, FiniteSets, Functions, SequencesExt

CONSTANTS
    Paths,        \* ZIP paths of the container's entries
    Books,        \* renditions: the EpubBook values parse_rendition can return
    Decryptors,   \* the closures a host may install
    NoDecryptor, NoPath, NoKey, Declined,
    EntryLength,  \* provider.entry_length(p), 0 when it fails (unwrap_or(0))
    RawLen,       \* number of bytes read_to_end delivers for p
    Encryption,   \* [Paths -> {"none", "font", "content"}]: encryption.xml
    Identifier,   \* [Books -> keys]: metadata.identifier, the font key's seed
    Answers,      \* [Decryptors -> [Paths -> SUBSET (Nat \cup {Declined})]]
    NavPath,      \* [Books -> Paths \cup {NoPath}]: the nav document's entry
    MalformedNav, \* books whose navigation file is read but does not parse
    FileLimit,    \* max_cache_size in read_zip_entry: 2 MiB
    MaxCacheSize  \* max_cache_size_bytes: 16 MiB

ASSUME LimitsAssumption == FileLimit \in Nat /\ MaxCacheSize \in Nat
ASSUME LengthsAssumption ==
    /\ EntryLength \in [Paths -> Nat]
    /\ RawLen \in [Paths -> Nat]
    /\ Encryption \in [Paths -> {"none", "font", "content"}]
ASSUME AnswersAssumption ==
    /\ Declined \notin Nat
    /\ Answers \in [Decryptors -> [Paths -> SUBSET (Nat \cup {Declined})]]
    /\ NoDecryptor \notin Decryptors
ASSUME BooksAssumption ==
    /\ Identifier \in [Books -> Range(Identifier)]
    /\ NavPath \in [Books -> Paths \cup {NoPath}]
    /\ NoPath \notin Paths
    /\ MalformedNav \subseteq Books

VARIABLES
    cache,              \* path -> bytes
    cache_order,        \* least recently used first
    current_cache_size,
    content_decryptor,
    nav_cache,          \* {} or {nav}
    fetched,            \* {} or {the miss being inserted}: locals of the call
    parsed,             \* books returned so far: callers may pass any of them
    reply,              \* {} or {what the last resource read returned}
    nav_reply,          \* {} or {what the last get_navigation returned}
    recent              \* history: cached reads since the last clear, newest last

vars == <<cache, cache_order, current_cache_size, content_decryptor, nav_cache,
          fetched, parsed, reply, nav_reply, recent>>

Keys == Range(Identifier) \cup Decryptors \cup {NoKey}
Bytes == [path : Paths, how : {"raw", "font", "plain"}, key : Keys, len : Nat]
\* A value that may be absent (Option, Result) is a set with at most one member.
\* A navigation document: the book it was built for and the bytes parsed.
NavDocs == [book : Books, bytes : SUBSET Bytes]
Uses == {"read", "nav"}
Fetches == [use : Uses, book : Books, bytes : Bytes]
Replies == [book : Books, path : Paths, bytes : SUBSET Bytes]
NavReplies == [book : Books, nav : SUBSET NavDocs]

Raw(p) == [path |-> p, how |-> "raw", key |-> NoKey, len |-> RawLen[p]]

-----------------------------------------------------------------------------
\* What process_encrypted_bytes may return for entry p read on behalf of book
\* b with decryptor d installed.  The hook is FnMut: its answer for one path
\* need not be the same twice, so Answers gives the set of its answers.
Processed(b, p, d) ==
    CASE Encryption[p] = "none" -> {Raw(p)}
      [] Encryption[p] = "font" ->
            {[path |-> p, how |-> "font", key |-> Identifier[b], len |-> RawLen[p]]}
      [] Encryption[p] = "content" ->
            IF d = NoDecryptor THEN {Raw(p)}
            ELSE {IF n = Declined THEN Raw(p)
                  ELSE [path |-> p, how |-> "plain", key |-> d, len |-> n]
                    : n \in Answers[d][p]}

\* A hit moves the key from wherever it is to the back of the queue; an insert
\* pushes it to the back.
MoveToBack(s, p) ==
    IF \E i \in DOMAIN s : s[i] = p
    THEN Append(RemoveAt(s, CHOOSE i \in DOMAIN s : s[i] = p), p)
    ELSE Append(s, p)

\* The call that wanted the bytes returns: a resource read hands them out;
\* get_navigation parses them and memoizes the document if they parse.
Return(use, b, bytes) ==
    \/ /\ use = "read"
       /\ reply' = {[book |-> b, path |-> bytes.path, bytes |-> {bytes}]}
       /\ UNCHANGED <<nav_cache, nav_reply>>
    \/ /\ use = "nav" /\ b \notin MalformedNav
       /\ LET nav == [book |-> b, bytes |-> {bytes}] IN
            /\ nav_cache' = {nav}
            /\ nav_reply' = {[book |-> b, nav |-> {nav}]}
       /\ UNCHANGED reply
    \/ /\ use = "nav" /\ b \in MalformedNav
       /\ nav_reply' = {[book |-> b, nav |-> {}]}
       /\ UNCHANGED <<nav_cache, reply>>

\* A call may start a read of p for book b: a plain read of any entry, or
\* load_navigation's read of b's own navigation file when nothing is memoized.
Wants(use, b, p) ==
    /\ fetched = {}
    /\ b \in parsed
    /\ use = "nav" => nav_cache = {} /\ p = NavPath[b]

-----------------------------------------------------------------------------
Init ==
    /\ cache = << >> /\ cache_order = << >> /\ current_cache_size = 0
    /\ content_decryptor = NoDecryptor
    /\ nav_cache = {} /\ fetched = {} /\ parsed = {}
    /\ reply = {} /\ nav_reply = {} /\ recent = << >>

\* In error: first in, first out.
HitInPlace(use, b, p) ==
    /\ Wants(use, b, p)
    /\ p \in DOMAIN cache
    /\ recent' = MoveToBack(recent, p)
    /\ Return(use, b, cache[p])
    /\ UNCHANGED <<cache, cache_order, current_cache_size, content_decryptor,
                   fetched, parsed>>
ReadHit(use, b, p) ==
    /\ Wants(use, b, p)
    /\ p \in DOMAIN cache
    /\ cache_order' = MoveToBack(cache_order, p)
    /\ recent' = MoveToBack(recent, p)
    /\ Return(use, b, cache[p])
    /\ UNCHANGED <<cache, current_cache_size, content_decryptor, fetched, parsed>>

\* The entry is small enough to be cached: it is read and decrypted before
\* any room is made for it.
ReadMiss(use, b, p) ==
    /\ Wants(use, b, p)
    /\ p \notin DOMAIN cache
    /\ EntryLength[p] <= FileLimit
    /\ \E bytes \in Processed(b, p, content_decryptor) :
          fetched' = {[use |-> use, book |-> b, bytes |-> bytes]}
    /\ UNCHANGED <<cache, cache_order, current_cache_size, content_decryptor,
                   nav_cache, parsed, reply, nav_reply, recent>>

\* In error: the entry about to be inserted is not counted.
NeedsRoomAlready(f) ==
    current_cache_size > MaxCacheSize /\ cache_order # << >>
NeedsRoom(f) ==
    /\ current_cache_size + f.bytes.len > MaxCacheSize
    /\ cache_order # << >>

\* Errors this loop could have, for the checks to find: stopping short of the
\* last entry, subtracting the wrong length.
EvictUnlessLast(f) ==
    /\ f \in fetched
    /\ current_cache_size + f.bytes.len > MaxCacheSize /\ Len(cache_order) > 1
    /\ cache_order' = Tail(cache_order)
    /\ cache' = [p \in DOMAIN cache \ {Head(cache_order)} |-> cache[p]]
    /\ current_cache_size' = current_cache_size - cache[Head(cache_order)].len
    /\ UNCHANGED <<content_decryptor, nav_cache, fetched, parsed, reply,
                   nav_reply, recent>>
\* One iteration of the eviction loop.
EvictOldest(f) ==
    /\ f \in fetched
    /\ NeedsRoom(f)
    /\ cache_order' = Tail(cache_order)
    /\ cache' = [p \in DOMAIN cache \ {Head(cache_order)} |-> cache[p]]
    /\ current_cache_size' = current_cache_size - cache[Head(cache_order)].len
    /\ UNCHANGED <<content_decryptor, nav_cache, fetched, parsed, reply,
                   nav_reply, recent>>

InsertFetched(f) ==
    /\ f \in fetched
    /\ ~NeedsRoom(f)
    /\ current_cache_size' = current_cache_size + f.bytes.len
    /\ cache' = [p \in DOMAIN cache \cup {f.bytes.path} |->
                    IF p = f.bytes.path THEN f.bytes ELSE cache[p]]
    /\ cache_order' = Append(cache_order, f.bytes.path)
    /\ recent' = MoveToBack(recent, f.bytes.path)
    /\ fetched' = {}
    /\ Return(f.use, f.book, f.bytes)
    /\ UNCHANGED <<content_decryptor, parsed>>

\* An entry over the file limit is never cached: encrypted ones are decrypted
\* on every read, others are streamed.
ReadBypass(use, b, p) ==
    /\ Wants(use, b, p)
    /\ p \notin DOMAIN cache
    /\ EntryLength[p] > FileLimit
    /\ \E bytes \in Processed(b, p, content_decryptor) : Return(use, b, bytes)
    /\ UNCHANGED <<cache, cache_order, current_cache_size, content_decryptor,
                   fetched, parsed, recent>>

\* read_file or read_to_end fails: the error returns before any eviction.
ReadFailed(use, b, p) ==
    /\ Wants(use, b, p)
    /\ p \notin DOMAIN cache
    /\ IF use = "read"
       THEN reply' = {[book |-> b, path |-> p, bytes |-> {}]} /\ UNCHANGED nav_reply
       ELSE nav_reply' = {[book |-> b, nav |-> {}]} /\ UNCHANGED reply
    /\ UNCHANGED <<cache, cache_order, current_cache_size, content_decryptor,
                   nav_cache, fetched, parsed, recent>>

\* get_navigation when a document is memoized: whatever book is passed.
NavigationMemoized(b) ==
    /\ fetched = {} /\ b \in parsed
    /\ nav_cache # {}
    /\ nav_reply' = {[book |-> b, nav |-> nav_cache]}
    /\ UNCHANGED <<cache, cache_order, current_cache_size, content_decryptor,
                   nav_cache, fetched, parsed, reply, recent>>

\* load_navigation of a book with neither a nav item nor an NCX: the default,
\* empty document, memoized like any other.
NavigationAbsent(b) ==
    /\ fetched = {} /\ b \in parsed
    /\ nav_cache = {} /\ NavPath[b] = NoPath
    /\ LET nav == [book |-> b, bytes |-> {}] IN
         nav_cache' = {nav} /\ nav_reply' = {[book |-> b, nav |-> {nav}]}
    /\ UNCHANGED <<cache, cache_order, current_cache_size, content_decryptor,
                   fetched, parsed, reply, recent>>

\* In error: the queue is forgotten.
ClearKeepingQueue ==
    /\ cache' = << >> /\ current_cache_size' = 0
    /\ recent' = << >> /\ UNCHANGED cache_order
clear_resource_cache ==
    /\ cache' = << >> /\ cache_order' = << >> /\ current_cache_size' = 0
    /\ recent' = << >>

\* In error: what the old decryptor made stays cached.
SwapDecryptor(d) ==
    /\ fetched = {}
    /\ content_decryptor' = d
    /\ UNCHANGED <<cache, cache_order, current_cache_size, nav_cache, fetched,
                   parsed, reply, nav_reply, recent>>
\* set_content_decryptor(d), and clear_content_decryptor with d = NoDecryptor.
SetDecryptor(d) ==
    /\ fetched = {}
    /\ content_decryptor' = d
    /\ clear_resource_cache
    /\ UNCHANGED <<nav_cache, fetched, parsed, reply, nav_reply>>

\* A parse that fails returns by `?` before the assignment to nav_cache: it
\* changes nothing, and needs no action.
ParseRendition(b) ==
    /\ fetched = {}
    /\ parsed' = parsed \cup {b}
    /\ nav_cache' = {}
    /\ UNCHANGED <<cache, cache_order, current_cache_size, content_decryptor,
                   fetched, reply, nav_reply, recent>>

Next ==
    \/ \E use \in Uses, b \in Books, p \in Paths :
          \/ ReadHit(use, b, p)
          \/ ReadMiss(use, b, p)
          \/ ReadBypass(use, b, p)
          \/ ReadFailed(use, b, p)
    \/ \E f \in fetched : EvictOldest(f) \/ InsertFetched(f)
    \/ \E b \in Books :
          \/ NavigationMemoized(b)
          \/ NavigationAbsent(b)
          \/ ParseRendition(b)
    \/ \E d \in Decryptors \cup {NoDecryptor} : SetDecryptor(d)

\* The loop of a call that has started runs on: the code is synchronous.
Fairness == WF_vars(\E f \in fetched : EvictOldest(f) \/ InsertFetched(f))

Spec == Init /\ [][Next]_vars /\ Fairness
-----------------------------------------------------------------------------
\* Type invariant.
TypeOK ==
    /\ DOMAIN cache \subseteq Paths
    /\ cache \in [DOMAIN cache -> Bytes]
    /\ cache_order \in Seq(Paths)
    /\ current_cache_size \in Nat
    /\ content_decryptor \in Decryptors \cup {NoDecryptor}
    /\ nav_cache \in SUBSET NavDocs
    /\ fetched \in SUBSET Fetches
    /\ parsed \in SUBSET Books
    /\ reply \in SUBSET Replies
    /\ nav_reply \in SUBSET NavReplies
    /\ recent \in Seq(Paths)

\* The map and the eviction queue describe the same entries, each once: an
\* entry outside the queue could never be evicted, a key queued twice would
\* evict an entry that was just used.
QueueMatchesCache ==
    /\ IsInjective(cache_order)
    /\ Range(cache_order) = DOMAIN cache
    /\ \A p \in DOMAIN cache : cache[p].path = p

\* The counter that decides evictions is the size of what is cached, in every
\* state of the loop too: there are running totals over the eviction queue,
\* each adding the length of one cached entry, that end in the counter.  So
\* `current_cache_size -= old_bytes.len()` never wraps below zero.
RunningTotals(sum) ==
    /\ sum[0] = 0
    /\ sum[Len(cache_order)] = current_cache_size
    /\ \A i \in 1..Len(cache_order) : sum[i] = sum[i - 1] + cache[cache_order[i]].len
    /\ \A i, j \in 0..Len(cache_order) : i <= j => sum[i] <= sum[j]
SizeIsTotal ==
    \E sum \in [0..Len(cache_order) -> 0..current_cache_size] : RunningTotals(sum)

\* The cache is over its limit only when one entry alone is: no mix of reads,
\* hits and evictions leaves two entries whose sum is over.
OverLimitOnlyAlone ==
    current_cache_size > MaxCacheSize => Len(cache_order) = 1

\* Eviction is by last use: what is left in the cache is what was read last,
\* in that order, since the cache was last cleared.
KeepsMostRecent ==
    /\ Len(cache_order) <= Len(recent)
    /\ cache_order =
          SubSeq(recent, Len(recent) - Len(cache_order) + 1, Len(recent))

\* Everything cached, and everything about to be, is what reading it now, with
\* the decryptor installed now, could give to some parsed book: nothing made
\* by a replaced or removed decryptor survives it.
CacheCoherent ==
    /\ \A p \in DOMAIN cache :
          \E b \in parsed : cache[p] \in Processed(b, p, content_decryptor)
    /\ \A f \in fetched :
          /\ f.book \in parsed
          /\ f.bytes \in Processed(f.book, f.bytes.path, content_decryptor)

\* Between any two steps of any call map and queue hold the same entries, of
\* the types the code gives them, and all of them are of the decryptor in force.
CacheConsistent == TypeOK /\ QueueMatchesCache /\ CacheCoherent

\* The counter is exact, so that what it decides is: the cache is full of more
\* than one entry only within its limit.
SizeAccounted == SizeIsTotal /\ OverLimitOnlyAlone

\* A read that has to make room returns: the eviction loop ends.
FetchReturns == fetched # {} ~> fetched = {}

\* prepare_chapter's documentation (parser/reading.rs): font obfuscation "is
\* already reversed" in what the read functions return, that is, undone with
\* the key of the book being read.
FontsReversedForBook ==
    \A r \in reply : \A x \in r.bytes :
        x.how = "font" => x.key = Identifier[r.book]

-----------------------------------------------------------------------------
\* Every book of the container declares one unique identifier: the case of a
\* container with one rendition.
OneIdentifier == \A a, b \in Books : Identifier[a] = Identifier[b]

\* What the archive promises its readers: reads without a cache.
Reader == INSTANCE ResourceReader WITH decryptor <- content_decryptor

ReaderSpec == Reader!Spec
=============================================================================
