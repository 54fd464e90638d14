----------------------------- MODULE SessionProofs -----------------------------
(***************************************************************************)
(* Proofs about EpubHandle and WasmSession, for every set of threads,       *)
(* handles and archives, and every number of generator calls.  Most calls   *)
(* of a parser are steps of a C handle, so what is shown of handles carries *)
(* over; what is left are the calls C does not have, and the generator.     *)
(***************************************************************************)
EXTENDS WasmSession, FiniteSetTheorems, WellFoundedInduction, TLAPS

-----------------------------------------------------------------------------
(***************************************************************************)
(* The choice of a rendition                                                *)
(***************************************************************************)
NatLess == OpToRel(<, Nat)

LEMMA NatLessIsLess ==
    ASSUME NEW x \in Nat, NEW y \in Nat
    PROVE  (<<x, y>> \in NatLess) <=> x < y
BY DEF NatLess, OpToRel

LEMMA NatLessWellFounded == IsWellFoundedOn(NatLess, Nat)
BY NatLessThanWellFounded, Zenon DEF NatLess

\* A non-empty set of naturals has a smallest element.
LEMMA Smallest ==
    ASSUME NEW T \in SUBSET Nat, T # {}
    PROVE  \E x \in T : \A y \in T : x <= y
<1>1. PICK x \in T : \A y \in T : ~ (<<y, x>> \in NatLess)
  BY NatLessWellFounded, WFMin, Zenon
<1>2. ASSUME NEW y \in T
      PROVE  x <= y
  <2>1. x \in Nat /\ y \in Nat
    OBVIOUS
  <2>2. ~ (y < x)
    BY <1>1, <2>1, NatLessIsLess, Zenon
  <2>3. QED
    BY <2>1, <2>2
<1>3. QED
  BY <1>2

\* A non-empty set of naturals up to n has a largest element.
LEMMA Largest ==
    ASSUME NEW n \in Nat, NEW S \in SUBSET (0..n), S # {}
    PROVE  \E x \in S : \A y \in S : y <= x
<1> DEFINE T == {k \in 0..n : n - k \in S}
<1>1. T \in SUBSET Nat /\ T # {}
  <2>1. PICK z \in S : TRUE
    OBVIOUS
  <2>2. z \in 0..n
    OBVIOUS
  <2>3. n - z \in 0..n /\ n - (n - z) = z
    BY <2>2
  <2>4. n - z \in T
    BY <2>1, <2>3
  <2>5. T \in SUBSET Nat
    OBVIOUS
  <2> HIDE DEF T
  <2>6. QED
    BY <2>4, <2>5
<1>2. PICK k \in T : \A y \in T : k <= y
  <2> HIDE DEF T
  <2>1. QED
    BY <1>1, Smallest
<1>3. ASSUME NEW y \in S
      PROVE  y <= n - k
  <2>1. y \in 0..n
    OBVIOUS
  <2>2. n - y \in 0..n /\ n - (n - y) = y
    BY <2>1
  <2>3. n - y \in T
    BY <2>2
  <2>4. k <= n - y
    BY <1>2, <2>3
  <2>5. QED
    BY <2>1, <2>4
<1>4. n - k \in S
  OBVIOUS
<1>5. QED
  BY <1>3, <1>4

\* Of finitely many scores there is a best one, and a last one among the best.
LEMMA LastBest ==
    ASSUME NEW n \in Nat \ {0}, NEW m \in Nat, NEW score \in [1..n -> 0..m]
    PROVE  \E i \in 1..n : \A j \in 1..n :
              score[j] < score[i] \/ (score[j] = score[i] /\ j <= i)
<1> DEFINE Scores == {score[i] : i \in 1..n}
<1>1. Scores \in SUBSET (0..m) /\ Scores # {}
  <2>1. score[1] \in Scores
    OBVIOUS
  <2>2. QED
    BY <2>1
<1>2. PICK top \in Scores : \A s \in Scores : s <= top
  <2> HIDE DEF Scores
  <2>1. QED
    BY <1>1, Largest
<1>3. top \in 0..m
  BY <1>1
<1> DEFINE Tops == {i \in 1..n : score[i] = top}
<1>4. Tops \in SUBSET (0..n) /\ Tops # {}
  <2>1. \E i \in 1..n : score[i] = top
    BY <1>2
  <2>2. QED
    BY <2>1
<1>5. PICK i \in Tops : \A j \in Tops : j <= i
  <2> HIDE DEF Tops
  <2>1. QED
    BY <1>4, Largest
<1>6. ASSUME NEW j \in 1..n
      PROVE  score[j] < score[i] \/ (score[j] = score[i] /\ j <= i)
  <2>1. score[j] \in Nat /\ score[j] <= top /\ score[i] = top
    BY <1>2, <1>3, <1>5
  <2>2. CASE score[j] = top
    BY <1>5, <2>1, <2>2
  <2>3. CASE score[j] # top
    BY <1>3, <2>1, <2>3
  <2>4. QED
    BY <2>2, <2>3
<1>7. QED
  BY <1>5, <1>6

LEMMA FileType ==
    ASSUME NEW f \in Files
    PROVE  /\ Len(f.renditions) \in Nat \ {0}
           /\ DOMAIN f.renditions = 1..Len(f.renditions)
<1>1. f.renditions \in Seq([layout : Layouts \cup {Absent},
                            language : Languages \cup {Absent}])
  <2>1. f \in FileRecords
    BY FilesAssumption, Zenon
  <2>2. QED
    BY <2>1 DEF FileRecords
<1>2. Len(f.renditions) > 0
  BY FilesAssumption, Zenon
<1>3. QED
  BY <1>1, <1>2

\* What parse_best_for chooses: a rendition of the best score if any scores,
\* else the default.
LEMMA BestForChoice ==
    ASSUME NEW f \in Files, NEW layout, NEW language
    PROVE  \E best \in 1..Len(f.renditions) :
              /\ \A j \in 1..Len(f.renditions) :
                    Score(f.renditions[j], layout, language)
                      <= Score(f.renditions[best], layout, language)
              /\ BestFor(f, layout, language) =
                    IF Score(f.renditions[best], layout, language) > 0 THEN best ELSE 1
<1> DEFINE n == Len(f.renditions)
           score == [i \in DOMAIN f.renditions |->
                       Score(f.renditions[i], layout, language)]
           best == CHOOSE i \in DOMAIN score : \A j \in DOMAIN score :
                      score[j] < score[i] \/ (score[j] = score[i] /\ j <= i)
<1>1. BestFor(f, layout, language) = IF score[best] > 0 THEN best ELSE 1
  BY Zenon DEF BestFor
<1>2. n \in Nat \ {0} /\ DOMAIN f.renditions = 1..n
  BY FileType
<1>3. score \in [1..n -> 0..3] /\ DOMAIN score = 1..n
  BY <1>2 DEF Score
<1>4. \A i \in 1..n : score[i] = Score(f.renditions[i], layout, language)
  BY <1>2
<1> HIDE DEF n, score
<1>5. /\ best \in 1..n
      /\ \A j \in 1..n : score[j] < score[best] \/ (score[j] = score[best] /\ j <= best)
  <2>1. \E i \in 1..n : \A j \in 1..n :
            score[j] < score[i] \/ (score[j] = score[i] /\ j <= i)
    BY <1>2, <1>3, LastBest
  <2>2. QED
    BY <1>3, <2>1
<1> HIDE DEF best
<1>6. \A j \in 1..n : score[j] <= score[best]
  BY <1>3, <1>5
<1>7. QED
  BY <1>1, <1>4, <1>5, <1>6 DEF n

LEMMA BestForInRange ==
    ASSUME NEW f \in Files, NEW layout, NEW language
    PROVE  BestFor(f, layout, language) \in 1..Len(f.renditions)
<1>1. Len(f.renditions) \in Nat \ {0}
  BY FileType
<1>2. PICK best \in 1..Len(f.renditions) :
          BestFor(f, layout, language) =
             IF Score(f.renditions[best], layout, language) > 0 THEN best ELSE 1
  BY BestForChoice
<1>3. QED
  BY <1>1, <1>2

\* Weights 2 and 1 order the criteria as the documentation does: a best score
\* is reached by a rendition that matches both criteria if one does, else the
\* layout, else the language, else nothing.
LEMMA BestForStrategy ==
    ASSUME NEW f \in Files, NEW layout, NEW language
    PROVE  LET all == DOMAIN f.renditions
               byLayout == {i \in all : LayoutMatches(f.renditions[i], layout)}
               byLanguage == {i \in all : LanguageMatches(f.renditions[i], language)}
               choices == IF byLayout \cap byLanguage # {} THEN byLayout \cap byLanguage
                          ELSE IF byLayout # {} THEN byLayout
                          ELSE IF byLanguage # {} THEN byLanguage ELSE {1}
           IN BestFor(f, layout, language) \in choices
<1> DEFINE n == Len(f.renditions)
           lay(i) == LayoutMatches(f.renditions[i], layout)
           lan(i) == LanguageMatches(f.renditions[i], language)
           score(i) == (IF lay(i) THEN 2 ELSE 0) + (IF lan(i) THEN 1 ELSE 0)
<1>1. DOMAIN f.renditions = 1..n
  BY FileType
<1>2. \A i \in 1..n : lay(i) \in BOOLEAN /\ lan(i) \in BOOLEAN
  BY DEF LayoutMatches, LanguageMatches
<1>3. PICK best \in 1..n :
          /\ \A j \in 1..n : score(j) <= score(best)
          /\ BestFor(f, layout, language) = IF score(best) > 0 THEN best ELSE 1
  BY BestForChoice DEF Score
<1> HIDE DEF n, lay, lan
<1>4. (\E j \in 1..n : lay(j) /\ lan(j)) => lay(best) /\ lan(best)
  BY <1>2, <1>3
<1>5. (\E j \in 1..n : lay(j)) => lay(best)
  BY <1>2, <1>3
<1>6. ~ (\E j \in 1..n : lay(j)) /\ (\E j \in 1..n : lan(j)) => lan(best)
  BY <1>2, <1>3
<1>7. lay(best) \/ lan(best) => BestFor(f, layout, language) = best
  BY <1>2, <1>3
<1>8. ~ lay(best) /\ ~ lan(best) => BestFor(f, layout, language) = 1
  BY <1>2, <1>3
<1> DEFINE byLayout == {i \in 1..n : lay(i)}
           byLanguage == {i \in 1..n : lan(i)}
<1>9. BestFor(f, layout, language) \in
        IF byLayout \cap byLanguage # {} THEN byLayout \cap byLanguage
        ELSE IF byLayout # {} THEN byLayout
        ELSE IF byLanguage # {} THEN byLanguage ELSE {1}
  <2>1. CASE byLayout \cap byLanguage # {}
    BY <1>3, <1>4, <1>7, <2>1
  <2>2. CASE byLayout \cap byLanguage = {} /\ byLayout # {}
    BY <1>3, <1>5, <1>7, <2>2
  <2>3. CASE byLayout = {} /\ byLanguage # {}
    BY <1>3, <1>6, <1>7, <2>3
  <2>4. CASE byLayout = {} /\ byLanguage = {}
    BY <1>3, <1>8, <2>4
  <2>5. QED
    BY <2>1, <2>2, <2>3, <2>4
<1>10. QED
  BY <1>1, <1>9 DEF n, lay, lan

-----------------------------------------------------------------------------
(***************************************************************************)
(* The inductive invariant                                                  *)
(***************************************************************************)
Abouts == [rendition : Nat, size : Nat, asked : Nat, selected : SUBSET Nat]
Results == [call : Calls, ok : BOOLEAN, about : Abouts]
ResultType == result \in [Threads -> SUBSET Results]

\* What a handle holds follows from the file and the rendition last tried.
\* Nothing was tried: nothing was selected, parsed or indexed.
BookInv(h) ==
    IF book[h].state = "Unparsed"
    THEN book[h] = Unparsed /\ selected[h] = {} /\ lazy_parses[h] = 0
    ELSE /\ file[h] # NoFile
         /\ book[h] = Outcome(file[h], book[h].rendition)
         /\ selected[h] = {book[h].rendition}
         /\ lazy_parses[h] <= 1
\* The index, if any, is of a ready book that can be given positions.
IndexInv(h) ==
    \A x \in position_index[h] :
        /\ book[h].state = "Ready"
        /\ x.rendition = book[h].rendition
        /\ x.rendition \in file[h].indexable
        /\ position_index[h] = {x}
\* A ready book's memo is its own, and of a document that loads.
NavInv(h) ==
    book[h].state = "Ready" =>
        nav_cache[h] \subseteq {book[h].rendition} \cap file[h].navigable
HandedInv(h) == handed[h] # {} => position_index[h] = handed[h]

HandleInv(h) == BookInv(h) /\ IndexInv(h) /\ NavInv(h) /\ HandedInv(h)

SessionInv ==
    /\ TypeOK
    /\ ResultType
    /\ \A h \in Handles : HandleInv(h)
    /\ AnswersFromSelection
    /\ ErrorIsOwn

\* The types of what one handle holds.
HandleType(h) ==
    /\ file[h] \in Files \cup {NoFile}
    /\ book[h] \in LazyBooks
    /\ nav_cache[h] \in SUBSET Renditions
    /\ position_index[h] \in SUBSET Indexes
    /\ selected[h] \in SUBSET Renditions
    /\ lazy_parses[h] \in Nat
    /\ handed[h] \in SUBSET Indexes
\* A step that touches no handle but h.
Touches(h) ==
    /\ file' = [file EXCEPT ![h] = file'[h]]
    /\ book' = [book EXCEPT ![h] = book'[h]]
    /\ nav_cache' = [nav_cache EXCEPT ![h] = nav_cache'[h]]
    /\ position_index' = [position_index EXCEPT ![h] = position_index'[h]]
    /\ selected' = [selected EXCEPT ![h] = selected'[h]]
    /\ lazy_parses' = [lazy_parses EXCEPT ![h] = lazy_parses'[h]]
    /\ handed' = [handed EXCEPT ![h] = handed'[h]]

\* Such a step keeps what is said of all handles if it keeps what is said of h.
LEMMA TouchesKeeps ==
    ASSUME TypeOK, \A k \in Handles : HandleInv(k),
           NEW h \in Handles, Touches(h), HandleType(h)', HandleInv(h)',
           last_error' \in [Threads -> SUBSET Calls]
    PROVE  TypeOK' /\ \A k \in Handles : HandleInv(k)'
<1>1. TypeOK'
  BY DEF TypeOK, Touches, HandleType
<1>2. ASSUME NEW k \in Handles
      PROVE  HandleInv(k)'
  <2>1. CASE k = h
    BY <2>1
  <2>2. CASE k # h
    <3>1. /\ file'[k] = file[k] /\ book'[k] = book[k] /\ nav_cache'[k] = nav_cache[k]
          /\ position_index'[k] = position_index[k] /\ selected'[k] = selected[k]
          /\ lazy_parses'[k] = lazy_parses[k] /\ handed'[k] = handed[k]
      BY <2>2 DEF TypeOK, Touches
    <3>2. HandleInv(k)
      OBVIOUS
    <3>3. BookInv(k)'
      BY <3>1, <3>2 DEF HandleInv, BookInv
    <3>4. IndexInv(k)' /\ NavInv(k)' /\ HandedInv(k)'
      BY <3>1, <3>2 DEF HandleInv, IndexInv, NavInv, HandedInv
    <3>5. QED
      BY <3>3, <3>4 DEF HandleInv
  <2>3. QED
    BY <2>1, <2>2
<1>3. QED
  BY <1>1, <1>2

\* What the boundary does to a thread's error slot and to the history.
LEMMA ReportKeeps ==
    ASSUME TypeOK, ResultType, AnswersFromSelection, ErrorIsOwn,
           NEW t \in Threads, NEW call \in Calls, NEW ok \in BOOLEAN, NEW about \in Abouts,
           ok /\ about # Nothing => about.selected = {about.rendition},
           Report(t, call, ok, about)
    PROVE  /\ last_error' \in [Threads -> SUBSET Calls]
           /\ ResultType' /\ AnswersFromSelection' /\ ErrorIsOwn'
<1> DEFINE r == [call |-> call, ok |-> ok, about |-> about]
<1>1. r \in Results /\ r.call = call /\ r.ok = ok /\ r.about = about
  BY DEF Results
<1>2. /\ last_error' = [last_error EXCEPT ![t] = IF ok THEN {} ELSE {call}]
      /\ result' = [result EXCEPT ![t] = {r}]
  BY DEF Report
<1> HIDE DEF r
<1>3. last_error' \in [Threads -> SUBSET Calls]
  BY <1>2 DEF TypeOK
<1>4. ResultType'
  BY <1>1, <1>2 DEF ResultType
<1>5. result'[t] = {r} /\ last_error'[t] = IF ok THEN {} ELSE {call}
  BY <1>2 DEF TypeOK, ResultType
<1>6. \A u \in Threads : u # t => result'[u] = result[u] /\ last_error'[u] = last_error[u]
  BY <1>2 DEF TypeOK, ResultType
<1>7. AnswersFromSelection'
  BY <1>1, <1>5, <1>6 DEF AnswersFromSelection
<1>8. ErrorIsOwn'
  BY <1>1, <1>5, <1>6 DEF ErrorIsOwn
<1>9. QED
  BY <1>3, <1>4, <1>7, <1>8

LEMMA ReadTypeOK ==
    ASSUME TypeOK, NEW h \in Handles
    PROVE  HandleType(h)
BY DEF TypeOK, HandleType

LEMMA FileSets ==
    ASSUME NEW f \in Files
    PROVE  f \in FileRecords /\ f # NoFile
BY FilesAssumption, Zenon

LEMMA OutcomeType ==
    ASSUME NEW f, NEW i \in Renditions
    PROVE  /\ Outcome(f, i) \in LazyBooks
           /\ Outcome(f, i).state \in {"Ready", "Failed"}
           /\ Outcome(f, i).rendition = i
           /\ Outcome(f, i) = Outcome(f, Outcome(f, i).rendition)
BY DEF Outcome, LazyBooks

LEMMA CallsType ==
    ASSUME NEW h \in Handles
    PROVE  \A op \in {"open", "free", "parse", "select", "renditions", "query",
                      "nav", "positions", "locations", "lookup", "bytes"} :
              Call(op, h) \in Calls /\ Call(op, h).op = op
BY DEF Call, Calls

\* After ensure_parsed the handle holds an outcome of its file, and what its
\* other fields hold is of that outcome.
LEMMA Ensured ==
    ASSUME TypeOK, NEW h \in Handles, HandleInv(h), file[h] # NoFile
    PROVE  LET e == EnsuredBook(h) IN
           /\ e \in LazyBooks
           /\ e.state # "Unparsed"
           /\ e = Outcome(file[h], e.rendition)
           /\ e.rendition \in Renditions
           /\ EnsuredNav(h) \in SUBSET Renditions
           /\ Ready(h) => EnsuredNav(h) \subseteq {e.rendition} \cap file[h].navigable
           /\ \A x \in position_index[h] :
                 /\ Ready(h)
                 /\ x.rendition = e.rendition
                 /\ x.rendition \in file[h].indexable
                 /\ position_index[h] = {x}
<1> DEFINE e == EnsuredBook(h)
<1>1. HandleType(h)
  BY ReadTypeOK
<1>2. CASE NeedsParse(h)
  <2>1. e = Outcome(file[h], 1)
    BY <1>2 DEF EnsuredBook
  <2>2. e \in LazyBooks /\ e.state \in {"Ready", "Failed"} /\ e.rendition = 1
    BY <2>1, OutcomeType DEF Renditions
  <2>3. EnsuredNav(h) \in SUBSET Renditions /\ (Ready(h) => EnsuredNav(h) = {})
    BY <1>1, <1>2, <2>1 DEF EnsuredNav, NavAfterParse, Ready, HandleType
  <2>4. position_index[h] = {}
    BY <1>2 DEF NeedsParse, HandleInv, IndexInv
  <2>5. QED
    BY <2>1, <2>2, <2>3, <2>4 DEF Renditions
<1>3. CASE ~ NeedsParse(h)
  <2>1. e = book[h] /\ EnsuredNav(h) = nav_cache[h] /\ book[h].state # "Unparsed"
    BY <1>3 DEF EnsuredBook, EnsuredNav, NeedsParse
  <2>2. e \in LazyBooks /\ e.rendition \in Renditions
    BY <1>1, <2>1 DEF HandleType, LazyBooks
  <2>3. e = Outcome(file[h], e.rendition)
    BY <2>1 DEF HandleInv, BookInv
  <2>4. EnsuredNav(h) \in SUBSET Renditions
    BY <1>1, <2>1 DEF HandleType
  <2>5. Ready(h) <=> book[h].state = "Ready"
    BY <2>1 DEF Ready
  <2>6. Ready(h) => EnsuredNav(h) \subseteq {e.rendition} \cap file[h].navigable
    BY <2>1, <2>5 DEF HandleInv, NavInv
  <2>7. \A x \in position_index[h] :
            /\ Ready(h) /\ x.rendition = e.rendition
            /\ x.rendition \in file[h].indexable /\ position_index[h] = {x}
    BY <2>1, <2>5 DEF HandleInv, IndexInv
  <2>8. QED
    BY <2>1, <2>2, <2>3, <2>4, <2>6, <2>7
<1>4. QED
  BY <1>2, <1>3

\* ensure_parsed keeps what is said of the book; the selection it records is
\* the rendition the handle then holds.
LEMMA EnsureParsedKeeps ==
    ASSUME TypeOK, NEW h \in Handles, HandleInv(h), file[h] # NoFile,
           file' = file, EnsureParsed(h)
    PROVE  /\ book'[h] = EnsuredBook(h) /\ BookInv(h)'
           /\ selected'[h] = {EnsuredBook(h).rendition}
           /\ selected'[h] \in SUBSET Renditions /\ lazy_parses'[h] \in Nat
           /\ book' = [book EXCEPT ![h] = book'[h]]
           /\ selected' = [selected EXCEPT ![h] = selected'[h]]
           /\ lazy_parses' = [lazy_parses EXCEPT ![h] = lazy_parses'[h]]
<1> DEFINE e == EnsuredBook(h)
<1>1. /\ e \in LazyBooks /\ e.state # "Unparsed"
      /\ e = Outcome(file[h], e.rendition) /\ e.rendition \in Renditions
  BY Ensured, Zenon
<1>2. HandleType(h)
  BY ReadTypeOK
<1>3. book'[h] = e /\ book' = [book EXCEPT ![h] = book'[h]]
  BY DEF EnsureParsed, TypeOK
<1>4. CASE NeedsParse(h)
  <2>1. e.rendition = 1 /\ lazy_parses[h] = 0
    BY <1>4 DEF EnsuredBook, Outcome, NeedsParse, HandleInv, BookInv
  <2>2. /\ selected' = [selected EXCEPT ![h] = {1}]
        /\ lazy_parses' = [lazy_parses EXCEPT ![h] = lazy_parses[h] + 1]
    BY <1>4 DEF EnsureParsed
  <2>3. selected'[h] = {1} /\ lazy_parses'[h] = 1
    BY <2>1, <2>2 DEF TypeOK
  <2>4. /\ selected' = [selected EXCEPT ![h] = selected'[h]]
        /\ lazy_parses' = [lazy_parses EXCEPT ![h] = lazy_parses'[h]]
    BY <2>1, <2>2, <2>3
  <2>5. BookInv(h)'
    BY <1>1, <1>3, <2>1, <2>3 DEF BookInv
  <2>6. QED
    BY <1>3, <2>1, <2>3, <2>4, <2>5 DEF Renditions
<1>5. CASE ~ NeedsParse(h)
  <2>1. selected' = selected /\ lazy_parses' = lazy_parses
    BY <1>5 DEF EnsureParsed
  <2>2. e = book[h] /\ book[h].state # "Unparsed"
    BY <1>5 DEF EnsuredBook, NeedsParse
  <2>3. selected[h] = {e.rendition} /\ lazy_parses[h] <= 1
    BY <2>2 DEF HandleInv, BookInv
  <2>4. BookInv(h)'
    BY <1>1, <1>3, <2>1, <2>3 DEF BookInv
  <2>5. /\ selected' = [selected EXCEPT ![h] = selected'[h]]
        /\ lazy_parses' = [lazy_parses EXCEPT ![h] = lazy_parses'[h]]
    BY <2>1 DEF TypeOK
  <2>6. QED
    BY <1>2, <1>3, <2>1, <2>3, <2>4, <2>5 DEF HandleType
<1>6. QED
  BY <1>4, <1>5

\* A call that touches h only, keeps what is said of it and reports an answer
\* made from the selected rendition.
LEMMA CallKeeps ==
    ASSUME SessionInv, NEW t \in Threads, NEW h \in Handles,
           Touches(h), HandleType(h)', HandleInv(h)',
           NEW call \in Calls, NEW ok \in BOOLEAN, NEW about \in Abouts,
           ok /\ about # Nothing => about.selected = {about.rendition},
           Report(t, call, ok, about)
    PROVE  SessionInv'
<1>1. /\ last_error' \in [Threads -> SUBSET Calls]
      /\ ResultType' /\ AnswersFromSelection' /\ ErrorIsOwn'
  BY ReportKeeps DEF SessionInv
<1>2. TypeOK' /\ \A k \in Handles : HandleInv(k)'
  BY <1>1, TouchesKeeps DEF SessionInv
<1>3. QED
  BY <1>1, <1>2 DEF SessionInv

LEMMA NothingType == Nothing \in Abouts
BY DEF Nothing, Abouts

LEMMA AboutType ==
    ASSUME NEW h \in Handles, NEW r \in Renditions, NEW s \in Nat, NEW a \in Nat,
           selected'[h] = {r}
    PROVE  /\ About(h, r, s, a) \in Abouts
           /\ About(h, r, s, a).selected = {About(h, r, s, a).rendition}
BY DEF About, Abouts, Renditions

LEMMA UnchangedTouches ==
    ASSUME TypeOK, NEW h \in Handles, HandleInv(h), UNCHANGED handle_vars
    PROVE  Touches(h) /\ HandleType(h)' /\ HandleInv(h)'
<1>1. /\ file' = file /\ book' = book /\ nav_cache' = nav_cache
      /\ position_index' = position_index /\ selected' = selected
      /\ lazy_parses' = lazy_parses /\ handed' = handed
  BY DEF handle_vars
<1>2. Touches(h)
  BY <1>1 DEF Touches, TypeOK
<1>3. HandleType(h)'
  BY <1>1, ReadTypeOK DEF HandleType
<1>4. HandleInv(h)'
  BY <1>1 DEF HandleInv, BookInv, IndexInv, NavInv, HandedInv
<1>5. QED
  BY <1>2, <1>3, <1>4

LEMMA FreshKeeps ==
    ASSUME TypeOK, NEW h \in Handles, NEW f \in Files \cup {NoFile},
           file' = [file EXCEPT ![h] = f], Fresh(h)
    PROVE  Touches(h) /\ HandleType(h)' /\ HandleInv(h)'
<1>1. /\ file'[h] = f /\ book'[h] = Unparsed /\ nav_cache'[h] = {}
      /\ position_index'[h] = {} /\ selected'[h] = {}
      /\ lazy_parses'[h] = 0 /\ handed'[h] = {}
  BY DEF Fresh, TypeOK
<1>2. Touches(h)
  BY <1>1 DEF Fresh, Touches
<1>3. Unparsed \in LazyBooks /\ Unparsed.state = "Unparsed"
  BY DEF Unparsed, LazyBooks, Renditions
<1>4. HandleType(h)'
  BY <1>1, <1>3 DEF HandleType
<1>5. HandleInv(h)'
  BY <1>1, <1>3 DEF HandleInv, BookInv, IndexInv, NavInv, HandedInv
<1>6. QED
  BY <1>2, <1>4, <1>5

LEMMA OpenKeeps ==
    ASSUME SessionInv, NEW t \in Threads, NEW h \in Handles, NEW f \in Files, Open(t, h, f)
    PROVE  SessionInv'
<1>1. Touches(h) /\ HandleType(h)' /\ HandleInv(h)'
  BY FreshKeeps DEF Open, SessionInv
<1>2. Report(t, Call("open", h), TRUE, Nothing)
  BY DEF Open
<1>3. QED
  BY <1>1, <1>2, CallKeeps, CallsType, NothingType

LEMMA FreeKeeps ==
    ASSUME SessionInv, NEW t \in Threads, NEW h \in Handles, Free(t, h)
    PROVE  SessionInv'
<1>1. Touches(h) /\ HandleType(h)' /\ HandleInv(h)'
  BY FreshKeeps DEF Free, SessionInv
<1>2. last_error' = last_error
  BY DEF Free
<1>3. TypeOK' /\ \A k \in Handles : HandleInv(k)'
  <2>1. last_error' \in [Threads -> SUBSET Calls]
    BY <1>2 DEF SessionInv, TypeOK
  <2>2. QED
    BY <1>1, <2>1, TouchesKeeps DEF SessionInv
<1> DEFINE r == [call |-> Call("free", h), ok |-> TRUE, about |-> Nothing]
<1>4. r \in Results /\ r.call.op = "free" /\ r.about = Nothing
  BY CallsType, NothingType DEF Results
<1>5. result' = [result EXCEPT ![t] = {r}]
  BY DEF Free
<1> HIDE DEF r
<1>6. ResultType'
  BY <1>4, <1>5 DEF SessionInv, ResultType
<1>7. result'[t] = {r} /\ \A u \in Threads : u # t => result'[u] = result[u]
  BY <1>5 DEF SessionInv, ResultType
<1>8. AnswersFromSelection'
  BY <1>4, <1>7 DEF SessionInv, AnswersFromSelection
<1>9. ErrorIsOwn'
  BY <1>2, <1>4, <1>7 DEF SessionInv, ErrorIsOwn
<1>10. QED
  BY <1>3, <1>6, <1>8, <1>9 DEF SessionInv

\* Refused, GetRenditions and, of the WASM bindings, GetFile.
LEMMA TouchlessKeeps ==
    ASSUME SessionInv, NEW t \in Threads, NEW h \in Handles,
           NEW op \in {"open", "query", "lookup", "renditions", "bytes"}, NEW ok \in BOOLEAN,
           Report(t, Call(op, h), ok, Nothing), UNCHANGED handle_vars
    PROVE  SessionInv'
<1>1. Touches(h) /\ HandleType(h)' /\ HandleInv(h)'
  BY UnchangedTouches DEF SessionInv
<1>2. Call(op, h) \in Calls
  BY CallsType
<1>3. QED
  BY <1>1, <1>2, CallKeeps, NothingType

\* A call that ensures the book and then leaves `nav`, `index` and `given` in
\* the handle, each of the ensured book.
LEMMA EnsuredKeeps ==
    ASSUME TypeOK, NEW h \in Handles, HandleInv(h), file[h] # NoFile,
           file' = file, EnsureParsed(h),
           NEW nav \in SUBSET Renditions,
           Ready(h) => nav \subseteq {EnsuredBook(h).rendition} \cap file[h].navigable,
           nav_cache' = [nav_cache EXCEPT ![h] = nav],
           NEW index \in SUBSET Indexes,
           \A x \in index : /\ Ready(h) /\ x.rendition = EnsuredBook(h).rendition
                            /\ x.rendition \in file[h].indexable /\ index = {x},
           position_index' = [position_index EXCEPT ![h] = index],
           NEW given \in SUBSET Indexes, given # {} => index = given,
           handed' = [handed EXCEPT ![h] = given]
    PROVE  Touches(h) /\ HandleType(h)' /\ HandleInv(h)'
<1>1. /\ book'[h] = EnsuredBook(h) /\ BookInv(h)'
      /\ selected'[h] \in SUBSET Renditions /\ lazy_parses'[h] \in Nat
      /\ book' = [book EXCEPT ![h] = book'[h]]
      /\ selected' = [selected EXCEPT ![h] = selected'[h]]
      /\ lazy_parses' = [lazy_parses EXCEPT ![h] = lazy_parses'[h]]
  BY EnsureParsedKeeps, Zenon
<1>2. nav_cache'[h] = nav /\ position_index'[h] = index /\ handed'[h] = given
  BY DEF TypeOK
<1>3. Touches(h)
  <2>1. file' = [file EXCEPT ![h] = file'[h]]
    BY DEF TypeOK
  <2>2. /\ nav_cache' = [nav_cache EXCEPT ![h] = nav_cache'[h]]
        /\ position_index' = [position_index EXCEPT ![h] = position_index'[h]]
        /\ handed' = [handed EXCEPT ![h] = handed'[h]]
    BY <1>2
  <2>3. QED
    BY <1>1, <2>1, <2>2, Zenon DEF Touches
<1>4. HandleType(h)'
  <2>1. EnsuredBook(h) \in LazyBooks
    BY Ensured, Zenon
  <2>2. file[h] \in Files \cup {NoFile}
    BY DEF TypeOK
  <2>3. QED
    BY <1>1, <1>2, <2>1, <2>2 DEF HandleType
<1>5. HandleInv(h)'
  <2>1. book'[h].state = "Ready" <=> Ready(h)
    BY <1>1 DEF Ready
  <2>2. IndexInv(h)'
    BY <1>1, <1>2, <2>1 DEF IndexInv
  <2>3. NavInv(h)'
    BY <1>1, <1>2, <2>1 DEF NavInv
  <2>4. HandedInv(h)'
    BY <1>2 DEF HandedInv
  <2>5. QED
    BY <1>1, <2>2, <2>3, <2>4 DEF HandleInv
<1>6. QED
  BY <1>3, <1>4, <1>5

LEMMA NavOfType ==
    ASSUME TypeOK, NEW h \in Handles, HandleInv(h), file[h] # NoFile
    PROVE  /\ NavOf(h) \in SUBSET Renditions
           /\ Ready(h) => NavOf(h) \subseteq {EnsuredBook(h).rendition} \cap file[h].navigable
<1>1. /\ EnsuredBook(h).rendition \in Renditions
      /\ EnsuredNav(h) \in SUBSET Renditions
      /\ Ready(h) => EnsuredNav(h) \subseteq {EnsuredBook(h).rendition} \cap file[h].navigable
  BY Ensured, Zenon
<1>2. QED
  BY <1>1 DEF NavOf

LEMMA EffectiveType ==
    ASSUME NEW size \in Sizes \cup {0}
    PROVE  Effective(size) \in Nat \ {0}
BY SizesAssumption DEF Effective

LEMMA IndexOfType ==
    ASSUME TypeOK, NEW h \in Handles, HandleInv(h), file[h] # NoFile,
           NEW size \in Sizes \cup {0}
    PROVE  /\ IndexOf(h, size) \in SUBSET Indexes
           /\ \A x \in IndexOf(h, size) :
                 /\ Ready(h) /\ x.rendition = EnsuredBook(h).rendition
                 /\ x.rendition \in file[h].indexable /\ IndexOf(h, size) = {x}
           /\ position_index[h] # {} => IndexOf(h, size) = position_index[h]
<1>1. /\ EnsuredBook(h).rendition \in Renditions
      /\ \A x \in position_index[h] :
            /\ Ready(h) /\ x.rendition = EnsuredBook(h).rendition
            /\ x.rendition \in file[h].indexable /\ position_index[h] = {x}
  BY Ensured, Zenon
<1>2. position_index[h] \in SUBSET Indexes
  BY DEF TypeOK
<1> DEFINE new == [rendition |-> EnsuredBook(h).rendition, size |-> Effective(size)]
<1>3. new \in Indexes /\ new.rendition = EnsuredBook(h).rendition
  BY <1>1, EffectiveType DEF Indexes
<1>4. CASE NeedsIndex(h, size)
  <2>1. Ready(h) /\ position_index[h] = {}
    BY <1>4 DEF NeedsIndex
  <2>2. IndexOf(h, size) = IF new.rendition \in file[h].indexable THEN {new} ELSE {}
    BY <1>3, <1>4 DEF IndexOf
  <2> HIDE DEF new
  <2>3. QED
    BY <1>3, <2>1, <2>2
<1>5. CASE ~ NeedsIndex(h, size)
  <2>1. IndexOf(h, size) = position_index[h]
    BY <1>5 DEF IndexOf
  <2>2. QED
    BY <1>1, <1>2, <2>1
<1>6. QED
  BY <1>4, <1>5

LEMMA QueryKeeps ==
    ASSUME SessionInv, NEW t \in Threads, NEW h \in Handles,
           NEW op \in {"parse", "query"}, NEW found \in BOOLEAN, Query(t, h, op, found)
    PROVE  SessionInv'
<1>1. TypeOK /\ HandleInv(h)
  BY DEF SessionInv
<1>2. /\ file[h] # NoFile /\ EnsureParsed(h)
      /\ nav_cache' = [nav_cache EXCEPT ![h] = EnsuredNav(h)]
      /\ Report(t, Call(op, h), Ready(h) /\ found, About(h, EnsuredBook(h).rendition, 0, 0))
      /\ file' = file /\ position_index' = position_index /\ handed' = handed
  BY DEF Query
<1>3. /\ EnsuredBook(h).rendition \in Renditions
      /\ EnsuredNav(h) \in SUBSET Renditions
      /\ Ready(h) => EnsuredNav(h) \subseteq {EnsuredBook(h).rendition} \cap file[h].navigable
      /\ \A x \in position_index[h] :
            /\ Ready(h) /\ x.rendition = EnsuredBook(h).rendition
            /\ x.rendition \in file[h].indexable /\ position_index[h] = {x}
  BY <1>1, <1>2, Ensured, Zenon
<1>4. /\ position_index' = [position_index EXCEPT ![h] = position_index[h]]
      /\ handed' = [handed EXCEPT ![h] = handed[h]]
      /\ position_index[h] \in SUBSET Indexes /\ handed[h] \in SUBSET Indexes
      /\ handed[h] # {} => position_index[h] = handed[h]
  BY <1>1, <1>2 DEF TypeOK, HandleInv, HandedInv
<1>5. Touches(h) /\ HandleType(h)' /\ HandleInv(h)'
  BY <1>1, <1>2, <1>3, <1>4, EnsuredKeeps, Zenon
<1>6. selected'[h] = {EnsuredBook(h).rendition}
  BY <1>1, <1>2, EnsureParsedKeeps, Zenon
<1> DEFINE about == About(h, EnsuredBook(h).rendition, 0, 0)
<1>7. about \in Abouts /\ about.selected = {about.rendition}
  BY <1>3, <1>6, AboutType
<1>8. Call(op, h) \in Calls /\ (Ready(h) /\ found) \in BOOLEAN
  BY CallsType DEF Ready
<1> HIDE DEF about
<1>9. QED
  BY <1>2, <1>5, <1>7, <1>8, CallKeeps, Zenon DEF about

\* Whichever cache it came through, the navigation document is the ensured
\* book's.
LEMMA NavAnswer ==
    ASSUME TypeOK, NEW h \in Handles, HandleInv(h), file[h] # NoFile
    PROVE  LET nav == IF Ready(h) THEN NavOf(h) ELSE {}
           IN (IF nav # {} THEN CHOOSE r \in nav : TRUE ELSE EnsuredBook(h).rendition)
                = EnsuredBook(h).rendition
<1> DEFINE nav == IF Ready(h) THEN NavOf(h) ELSE {}
<1>1. nav \subseteq {EnsuredBook(h).rendition}
  BY NavOfType, Zenon
<1> HIDE DEF nav
<1>2. nav # {} => (CHOOSE r \in nav : TRUE) = EnsuredBook(h).rendition
  <2>1. nav # {} => (CHOOSE r \in nav : TRUE) \in nav
    OBVIOUS
  <2>2. QED
    BY <1>1, <2>1
<1>3. QED
  BY <1>2 DEF nav

LEMMA AskNavigationKeeps ==
    ASSUME SessionInv, NEW t \in Threads, NEW h \in Handles,
           NEW op \in {"nav", "query"}, AskNavigation(t, h, op)
    PROVE  SessionInv'
<1> DEFINE nav == IF Ready(h) THEN NavOf(h) ELSE {}
           memo == IF Ready(h) THEN NavOf(h) ELSE EnsuredNav(h)
           ok == Ready(h) /\ (op = "nav" => nav # {})
           about == About(h, EnsuredBook(h).rendition, 0, 0)
<1>1. TypeOK /\ HandleInv(h)
  BY DEF SessionInv
<1>2. /\ file[h] # NoFile /\ EnsureParsed(h)
      /\ nav_cache' = [nav_cache EXCEPT ![h] = memo]
      /\ file' = file /\ position_index' = position_index /\ handed' = handed
  BY DEF AskNavigation
<1>3. Report(t, Call(op, h), ok, about)
  <2>1. (IF nav # {} THEN CHOOSE r \in nav : TRUE ELSE EnsuredBook(h).rendition)
           = EnsuredBook(h).rendition
    BY <1>1, <1>2, NavAnswer, Zenon
  <2>2. Report(t, Call(op, h), ok,
               About(h, IF nav # {} THEN CHOOSE r \in nav : TRUE
                        ELSE EnsuredBook(h).rendition, 0, 0))
    BY Zenon DEF AskNavigation
  <2>3. QED
    BY <2>1, <2>2, Zenon
<1>4. /\ EnsuredBook(h).rendition \in Renditions
      /\ \A x \in position_index[h] :
            /\ Ready(h) /\ x.rendition = EnsuredBook(h).rendition
            /\ x.rendition \in file[h].indexable /\ position_index[h] = {x}
  BY <1>1, <1>2, Ensured, Zenon
<1>5. /\ memo \in SUBSET Renditions
      /\ Ready(h) => memo \subseteq {EnsuredBook(h).rendition} \cap file[h].navigable
  BY <1>1, <1>2, NavOfType, Ensured, Zenon
<1>6. /\ position_index' = [position_index EXCEPT ![h] = position_index[h]]
      /\ handed' = [handed EXCEPT ![h] = handed[h]]
      /\ position_index[h] \in SUBSET Indexes /\ handed[h] \in SUBSET Indexes
      /\ handed[h] # {} => position_index[h] = handed[h]
  BY <1>1, <1>2 DEF TypeOK, HandleInv, HandedInv
<1> HIDE DEF memo
<1>7. Touches(h) /\ HandleType(h)' /\ HandleInv(h)'
  BY <1>1, <1>2, <1>4, <1>5, <1>6, EnsuredKeeps, Zenon
<1>8. selected'[h] = {EnsuredBook(h).rendition}
  BY <1>1, <1>2, EnsureParsedKeeps, Zenon
<1>9. about \in Abouts /\ about.selected = {about.rendition}
  BY <1>4, <1>8, AboutType
<1>10. Call(op, h) \in Calls /\ ok \in BOOLEAN
  BY CallsType DEF Ready
<1> HIDE DEF about, ok
<1>11. QED
  BY <1>3, <1>7, <1>9, <1>10, CallKeeps, Zenon

LEMMA PositionsKeeps ==
    ASSUME SessionInv, NEW t \in Threads, NEW h \in Handles, NEW size \in Sizes,
           PositionsByReadingOrder(t, h, size)
    PROVE  SessionInv'
<1> DEFINE memo == IF Ready(h) THEN NavOf(h) ELSE EnsuredNav(h)
           ok == Ready(h) /\ EnsuredBook(h).rendition \in file[h].indexable
           about == About(h, EnsuredBook(h).rendition, Effective(size), Effective(size))
<1>1. TypeOK /\ HandleInv(h)
  BY DEF SessionInv
<1>2. /\ file[h] # NoFile /\ EnsureParsed(h)
      /\ nav_cache' = [nav_cache EXCEPT ![h] = memo]
      /\ Report(t, Call("positions", h), ok, about)
      /\ file' = file /\ position_index' = position_index /\ handed' = handed
  BY Zenon DEF PositionsByReadingOrder
<1>3. /\ EnsuredBook(h).rendition \in Renditions
      /\ \A x \in position_index[h] :
            /\ Ready(h) /\ x.rendition = EnsuredBook(h).rendition
            /\ x.rendition \in file[h].indexable /\ position_index[h] = {x}
  BY <1>1, <1>2, Ensured, Zenon
<1>4. /\ memo \in SUBSET Renditions
      /\ Ready(h) => memo \subseteq {EnsuredBook(h).rendition} \cap file[h].navigable
  BY <1>1, <1>2, NavOfType, Ensured, Zenon
<1>5. /\ position_index' = [position_index EXCEPT ![h] = position_index[h]]
      /\ handed' = [handed EXCEPT ![h] = handed[h]]
      /\ position_index[h] \in SUBSET Indexes /\ handed[h] \in SUBSET Indexes
      /\ handed[h] # {} => position_index[h] = handed[h]
  BY <1>1, <1>2 DEF TypeOK, HandleInv, HandedInv
<1> HIDE DEF memo
<1>6. Touches(h) /\ HandleType(h)' /\ HandleInv(h)'
  BY <1>1, <1>2, <1>3, <1>4, <1>5, EnsuredKeeps, Zenon
<1>7. selected'[h] = {EnsuredBook(h).rendition}
  BY <1>1, <1>2, EnsureParsedKeeps, Zenon
<1>8. about \in Abouts /\ about.selected = {about.rendition}
  <2>1. Effective(size) \in Nat
    BY EffectiveType
  <2>2. QED
    BY <1>3, <1>7, <2>1, AboutType
<1>9. Call("positions", h) \in Calls /\ ok \in BOOLEAN
  BY CallsType DEF Ready
<1> HIDE DEF about, ok
<1>10. QED
  BY <1>2, <1>6, <1>8, <1>9, CallKeeps, Zenon

LEMMA SelectKeeps ==
    ASSUME SessionInv, NEW t \in Threads, NEW h \in Handles, NEW i \in Renditions,
           file[h] # NoFile, SelectRendition(t, h, i)
    PROVE  SessionInv'
<1> DEFINE o == Outcome(file[h], i)
           about == About(h, i, 0, 0)
<1>1. TypeOK /\ HandleInv(h) /\ HandleType(h)
  BY ReadTypeOK DEF SessionInv
<1>2. /\ book' = [book EXCEPT ![h] = o]
      /\ position_index' = [position_index EXCEPT ![h] = {}]
      /\ nav_cache' = [nav_cache EXCEPT ![h] = NavAfterParse(h, i)]
      /\ selected' = [selected EXCEPT ![h] = {i}]
      /\ handed' = [handed EXCEPT ![h] = {}]
      /\ file' = file /\ lazy_parses' = lazy_parses
      /\ Report(t, Call("select", h), o.state = "Ready", about)
  BY DEF SelectRendition, StoreParsedBook
<1>3. /\ o \in LazyBooks /\ o.state \in {"Ready", "Failed"}
      /\ o.rendition = i /\ o = Outcome(file[h], o.rendition)
  BY OutcomeType
<1>4. /\ NavAfterParse(h, i) \in SUBSET Renditions
      /\ o.state = "Ready" => NavAfterParse(h, i) = {}
  BY <1>1 DEF NavAfterParse, HandleType
<1>5. lazy_parses[h] <= 1
  BY <1>1 DEF HandleInv, BookInv
<1> HIDE DEF o
<1>6. /\ file'[h] = file[h] /\ book'[h] = o /\ position_index'[h] = {}
      /\ nav_cache'[h] = NavAfterParse(h, i) /\ selected'[h] = {i}
      /\ handed'[h] = {} /\ lazy_parses'[h] = lazy_parses[h]
  BY <1>1, <1>2 DEF TypeOK
<1>7. Touches(h)
  <2>1. /\ file' = [file EXCEPT ![h] = file'[h]]
        /\ lazy_parses' = [lazy_parses EXCEPT ![h] = lazy_parses'[h]]
    BY <1>1, <1>2 DEF TypeOK
  <2>2. QED
    BY <1>2, <1>6, <2>1, Zenon DEF Touches
<1>8. HandleType(h)'
  BY <1>1, <1>3, <1>4, <1>6 DEF HandleType
<1>9. HandleInv(h)'
  <2>1. BookInv(h)'
    BY <1>3, <1>5, <1>6 DEF BookInv
  <2>2. IndexInv(h)' /\ NavInv(h)' /\ HandedInv(h)'
    BY <1>4, <1>6 DEF IndexInv, NavInv, HandedInv
  <2>3. QED
    BY <2>1, <2>2 DEF HandleInv
<1>10. about \in Abouts /\ about.selected = {about.rendition}
  BY <1>6, AboutType
<1>11. Call("select", h) \in Calls /\ (o.state = "Ready") \in BOOLEAN
  BY CallsType
<1> HIDE DEF about
<1>12. QED
  BY <1>2, <1>7, <1>8, <1>9, <1>10, <1>11, CallKeeps, Zenon

LEMMA ArgumentsType ==
    ASSUME TypeOK, NEW h \in Handles, file[h] # NoFile
    PROVE  IndexArguments(h) = 1..(Len(file[h].renditions) + 1) /\ IndexArguments(h) \subseteq Renditions
<1>1. file[h] \in Files
  BY DEF TypeOK
<1>2. Len(file[h].renditions) \in Nat
  BY <1>1, FileType
<1>3. QED
  BY <1>2 DEF IndexArguments, Renditions

LEMMA ParseByIndexKeeps ==
    ASSUME SessionInv, NEW t \in Threads, NEW h \in Handles,
           NEW i \in IndexArguments(h), ParseByIndex(t, h, i)
    PROVE  SessionInv'
<1>1. file[h] # NoFile /\ SelectRendition(t, h, i)
  BY DEF ParseByIndex
<1>2. i \in Renditions
  BY <1>1, ArgumentsType DEF SessionInv
<1>3. QED
  BY <1>1, <1>2, SelectKeeps

LEMMA ParseBestForKeeps ==
    ASSUME SessionInv, NEW t \in Threads, NEW h \in Handles, NEW layout, NEW language,
           ParseBestFor(t, h, layout, language)
    PROVE  SessionInv'
<1>1. /\ file[h] # NoFile
      /\ SelectRendition(t, h, BestFor(file[h], layout, language))
  BY DEF ParseBestFor
<1>2. file[h] \in Files
  BY <1>1 DEF SessionInv, TypeOK
<1>3. BestFor(file[h], layout, language) \in Renditions
  <2>1. BestFor(file[h], layout, language) \in 1..Len(file[h].renditions)
    BY <1>2, BestForInRange
  <2>2. Len(file[h].renditions) \in Nat
    BY <1>2, FileType
  <2>3. QED
    BY <2>1, <2>2 DEF Renditions
<1>4. QED
  BY <1>1, <1>3, SelectKeeps

\* What a call of ensure_index_built leaves in the handle.
LEMMA IndexBuilt ==
    ASSUME TypeOK, NEW h \in Handles, HandleInv(h), file[h] # NoFile,
           NEW size \in Sizes \cup {0}, file' = file, EnsureIndexBuilt(h, size),
           handed' = handed \/ handed' = [handed EXCEPT ![h] =
                                  IF Indexed(h) THEN position_index'[h] ELSE handed[h]]
    PROVE  /\ Touches(h) /\ HandleType(h)' /\ HandleInv(h)'
           /\ position_index'[h] = IndexOf(h, size)
           /\ selected'[h] = {EnsuredBook(h).rendition}
           /\ EnsuredBook(h).rendition \in Renditions
           /\ Indexed(h) => /\ TheIndex(h).rendition = EnsuredBook(h).rendition
                            /\ TheIndex(h).size \in Nat
<1> DEFINE memo == IF NeedsIndex(h, size) THEN NavOf(h) ELSE EnsuredNav(h)
           given == handed'[h]
           index == IndexOf(h, size)
<1>1. /\ EnsureParsed(h)
      /\ nav_cache' = [nav_cache EXCEPT ![h] = memo]
      /\ position_index' = [position_index EXCEPT ![h] = index]
  BY DEF EnsureIndexBuilt
<1>2. EnsuredBook(h).rendition \in Renditions
  BY Ensured, Zenon
<1>3. /\ memo \in SUBSET Renditions
      /\ Ready(h) => memo \subseteq {EnsuredBook(h).rendition} \cap file[h].navigable
  BY NavOfType, Ensured, Zenon
<1>4. /\ index \in SUBSET Indexes
      /\ \A x \in index : /\ Ready(h) /\ x.rendition = EnsuredBook(h).rendition
                           /\ x.rendition \in file[h].indexable /\ index = {x}
      /\ position_index[h] # {} => index = position_index[h]
  BY IndexOfType, Zenon
<1> HIDE DEF memo, index
<1>5. position_index'[h] = index
  BY <1>1 DEF TypeOK
<1>6. handed[h] \in SUBSET Indexes /\ (handed[h] # {} => position_index[h] = handed[h])
  BY DEF TypeOK, HandleInv, HandedInv
<1>7. given = handed[h] \/ given = index
  BY <1>5 DEF TypeOK, Indexed
<1>8. handed' = [handed EXCEPT ![h] = given]
  BY DEF TypeOK
<1> HIDE DEF given
<1>9. given \in SUBSET Indexes /\ (given # {} => index = given)
  BY <1>4, <1>6, <1>7
<1>10. Touches(h) /\ HandleType(h)' /\ HandleInv(h)'
  BY <1>1, <1>3, <1>4, <1>8, <1>9, EnsuredKeeps, Zenon
<1>11. selected'[h] = {EnsuredBook(h).rendition}
  BY <1>1, EnsureParsedKeeps, Zenon
<1>12. ASSUME Indexed(h)
       PROVE  /\ TheIndex(h).rendition = EnsuredBook(h).rendition
              /\ TheIndex(h).size \in Nat
  <2>1. TheIndex(h) \in index
    BY <1>5, <1>12 DEF Indexed, TheIndex
  <2>2. QED
    BY <1>4, <2>1 DEF Indexes
<1>13. QED
  BY <1>2, <1>5, <1>10, <1>11, <1>12 DEF index

LEMMA GenerateLocationsKeeps ==
    ASSUME SessionInv, NEW t \in Threads, NEW h \in Handles, NEW size \in Sizes,
           GenerateLocations(t, h, size)
    PROVE  SessionInv'
<1> DEFINE full == About(h, TheIndex(h).rendition, TheIndex(h).size, Effective(size))
           about == IF Indexed(h) THEN full ELSE Nothing
           ok == Indexed(h)
<1>1. TypeOK /\ HandleInv(h)
  BY DEF SessionInv
<1>2. /\ file[h] # NoFile /\ EnsureIndexBuilt(h, size) /\ file' = file
      /\ handed' = [handed EXCEPT ![h] = IF Indexed(h) THEN position_index'[h] ELSE handed[h]]
      /\ Report(t, Call("locations", h), ok, about)
  BY DEF GenerateLocations
<1>3. /\ Touches(h) /\ HandleType(h)' /\ HandleInv(h)'
      /\ selected'[h] = {EnsuredBook(h).rendition}
      /\ EnsuredBook(h).rendition \in Renditions
      /\ Indexed(h) => /\ TheIndex(h).rendition = EnsuredBook(h).rendition
                       /\ TheIndex(h).size \in Nat
  BY <1>1, <1>2, IndexBuilt
<1>4. Effective(size) \in Nat
  BY EffectiveType
<1>5. Indexed(h) => full \in Abouts /\ full.selected = {full.rendition}
  BY <1>3, <1>4, AboutType
<1> HIDE DEF full
<1>6. about \in Abouts /\ (ok /\ about # Nothing => about.selected = {about.rendition})
  BY <1>5, NothingType
<1>7. Call("locations", h) \in Calls /\ ok \in BOOLEAN
  BY CallsType DEF Indexed, Ready
<1> HIDE DEF about, ok
<1>8. QED
  BY <1>2, <1>3, <1>6, <1>7, CallKeeps, Zenon

LEMMA LookupKeeps ==
    ASSUME SessionInv, NEW t \in Threads, NEW h \in Handles, NEW found \in BOOLEAN,
           Lookup(t, h, found)
    PROVE  SessionInv'
<1> DEFINE full == About(h, TheIndex(h).rendition, TheIndex(h).size, TheIndex(h).size)
           about == IF Indexed(h) THEN full ELSE Nothing
           ok == Indexed(h) /\ found
<1>1. TypeOK /\ HandleInv(h)
  BY DEF SessionInv
<1>2. /\ file[h] # NoFile /\ EnsureIndexBuilt(h, 0) /\ file' = file /\ handed' = handed
      /\ Report(t, Call("lookup", h), ok, about)
  BY DEF Lookup
<1>3. /\ Touches(h) /\ HandleType(h)' /\ HandleInv(h)'
      /\ selected'[h] = {EnsuredBook(h).rendition}
      /\ EnsuredBook(h).rendition \in Renditions
      /\ Indexed(h) => /\ TheIndex(h).rendition = EnsuredBook(h).rendition
                       /\ TheIndex(h).size \in Nat
  BY <1>1, <1>2, IndexBuilt
<1>4. Indexed(h) => full \in Abouts /\ full.selected = {full.rendition}
  BY <1>3, AboutType
<1> HIDE DEF full
<1>5. about \in Abouts /\ (ok /\ about # Nothing => about.selected = {about.rendition})
  BY <1>4, NothingType
<1>6. Call("lookup", h) \in Calls /\ ok \in BOOLEAN
  BY CallsType DEF Indexed, Ready
<1> HIDE DEF about, ok
<1>7. QED
  BY <1>2, <1>3, <1>5, <1>6, CallKeeps, Zenon

-----------------------------------------------------------------------------
LEMMA InitHolds == Init => SessionInv
<1> SUFFICES ASSUME Init PROVE SessionInv
  OBVIOUS
<1>1. Unparsed \in LazyBooks /\ Unparsed.state = "Unparsed"
  BY DEF Unparsed, LazyBooks, Renditions
<1>2. TypeOK
  BY <1>1 DEF Init, TypeOK
<1>3. ResultType /\ AnswersFromSelection /\ ErrorIsOwn
  BY DEF Init, ResultType, AnswersFromSelection, ErrorIsOwn
<1>4. \A h \in Handles : HandleInv(h)
  BY <1>1 DEF Init, HandleInv, BookInv, IndexInv, NavInv, HandedInv
<1>5. QED
  BY <1>2, <1>3, <1>4 DEF SessionInv

LEMMA StutterKeeps ==
    ASSUME SessionInv, UNCHANGED vars
    PROVE  SessionInv'
<1>1. UNCHANGED handle_vars /\ last_error' = last_error /\ result' = result
  BY DEF vars, handle_vars
<1>2. TypeOK' /\ ResultType' /\ AnswersFromSelection' /\ ErrorIsOwn'
  BY <1>1 DEF SessionInv, handle_vars, TypeOK, ResultType, AnswersFromSelection, ErrorIsOwn
<1>3. \A h \in Handles : HandleInv(h)'
  BY <1>1, UnchangedTouches DEF SessionInv
<1>4. QED
  BY <1>2, <1>3 DEF SessionInv

LEMMA NextKeeps ==
    ASSUME SessionInv, [Next]_vars
    PROVE  SessionInv'
<1>1. ASSUME NEW t \in Threads, NEW h \in Handles, NEW f \in Files, Open(t, h, f)
      PROVE  SessionInv'
  BY <1>1, OpenKeeps
<1>2. ASSUME NEW t \in Threads, NEW h \in Handles,
             NEW op \in {"open", "query", "lookup"}, Refused(t, h, op)
      PROVE  SessionInv'
  BY <1>2, TouchlessKeeps DEF Refused
<1>3. ASSUME NEW t \in Threads, NEW h \in Handles, Free(t, h)
      PROVE  SessionInv'
  BY <1>3, FreeKeeps
<1>4. ASSUME NEW t \in Threads, NEW h \in Handles, Parse(t, h)
      PROVE  SessionInv'
  BY <1>4, QueryKeeps DEF Parse
<1>5. ASSUME NEW t \in Threads, NEW h \in Handles, NEW found \in BOOLEAN,
             \/ MediaOverlay(t, h, found) \/ GetResource(t, h, found)
             \/ ReadChapter(t, h, found) \/ PrepareOrSearch(t, h, found)
      PROVE  SessionInv'
  BY <1>5, QueryKeeps DEF MediaOverlay, GetResource, ReadChapter, PrepareOrSearch
<1>6. ASSUME NEW t \in Threads, NEW h \in Handles, NEW found \in BOOLEAN, Lookup(t, h, found)
      PROVE  SessionInv'
  BY <1>6, LookupKeeps
<1>7. ASSUME NEW t \in Threads, NEW h \in Handles, GetRenditions(t, h)
      PROVE  SessionInv'
  BY <1>7, TouchlessKeeps DEF GetRenditions
<1>8. ASSUME NEW t \in Threads, NEW h \in Handles, NEW i \in IndexArguments(h),
             ParseByIndex(t, h, i)
      PROVE  SessionInv'
  BY <1>8, ParseByIndexKeeps
<1>9. ASSUME NEW t \in Threads, NEW h \in Handles, NEW layout, NEW language,
             ParseBestFor(t, h, layout, language)
      PROVE  SessionInv'
  BY <1>9, ParseBestForKeeps
<1>10. ASSUME NEW t \in Threads, NEW h \in Handles,
              GetNavigation(t, h) \/ PreferredReadingStart(t, h)
       PROVE  SessionInv'
  BY <1>10, AskNavigationKeeps DEF GetNavigation, PreferredReadingStart
<1>11. ASSUME NEW t \in Threads, NEW h \in Handles, NEW size \in Sizes,
              PositionsByReadingOrder(t, h, size)
       PROVE  SessionInv'
  BY <1>11, PositionsKeeps
<1>12. ASSUME NEW t \in Threads, NEW h \in Handles, NEW size \in Sizes,
              GenerateLocations(t, h, size)
       PROVE  SessionInv'
  BY <1>12, GenerateLocationsKeeps
<1>13. CASE UNCHANGED vars
  BY <1>13, StutterKeeps
<1>14. QED
  BY <1>1, <1>2, <1>3, <1>4, <1>5, <1>6, <1>7, <1>8, <1>9, <1>10, <1>11, <1>12, <1>13
     DEF Next

\* The invariant of the sessions, for every set of threads, handles and archives.
THEOREM SessionInvariant == Spec => []SessionInv
<1>1. SessionInv /\ [Next]_vars => SessionInv'
  BY NextKeeps
<1>2. QED
  BY InitHolds, <1>1, PTL DEF Spec

\* Type correctness.
THEOREM SessionTypes == Spec => []TypeOK
<1>1. SessionInv => TypeOK
  BY DEF SessionInv
<1>2. QED
  BY SessionInvariant, <1>1, PTL

\* Switching rendition, or failing to, never leaves an index of the rendition
\* before it (reset_book, store_parsed_book).
THEOREM IndexCurrent == Spec => []IndexOfCurrentBook
<1>1. SessionInv => IndexOfCurrentBook
  BY DEF SessionInv, HandleInv, IndexInv, IndexOfCurrentBook
<1>2. QED
  BY SessionInvariant, <1>1, PTL

\* The navigation memo is a ready book's own, though failed switches keep it.
THEOREM NavCurrent == Spec => []NavOfCurrentBook
<1>1. SessionInv => NavOfCurrentBook
  BY DEF SessionInv, HandleInv, NavInv, NavOfCurrentBook
<1>2. QED
  BY SessionInvariant, <1>1, PTL

\* Every answer is made from the rendition the caller last selected.
THEOREM AnswersSelected == Spec => []AnswersFromSelection
<1>1. SessionInv => AnswersFromSelection
  BY DEF SessionInv
<1>2. QED
  BY SessionInvariant, <1>1, PTL

\* The OPF is parsed implicitly at most once per handle (LazyBook).
THEOREM ParsedOnce == Spec => []LazyParseOnce
<1>1. ASSUME SessionInv, NEW h \in Handles
      PROVE  lazy_parses[h] <= 1
  <2>1. HandleInv(h)
    BY <1>1 DEF SessionInv
  <2>2. QED
    BY <2>1 DEF HandleInv, BookInv
<1>2. SessionInv => LazyParseOnce
  BY <1>1 DEF LazyParseOnce
<1>3. QED
  BY SessionInvariant, <1>2, PTL

\* Lookups answer from the positions array the caller was given.
THEOREM LookupsMatchLocations == Spec => []HandedOutMatchesIndex
<1>1. SessionInv => HandedOutMatchesIndex
  BY DEF SessionInv, HandleInv, HandedInv, HandedOutMatchesIndex
<1>2. QED
  BY SessionInvariant, <1>1, PTL

\* The caches of a handle agree with each other, with the selection and with
\* what was handed out.
THEOREM SessionStaysConsistent == Spec => []SessionConsistent
<1>1. QED
  BY SessionTypes, IndexCurrent, NavCurrent, LookupsMatchLocations, ParsedOnce, PTL
     DEF SessionConsistent

\* A thread's error slot speaks of its own last call (catch_ffi_result).
THEOREM ErrorsOwn == Spec => []ErrorIsOwn
<1>1. SessionInv => ErrorIsOwn
  BY DEF SessionInv
<1>2. QED
  BY SessionInvariant, <1>1, PTL

\* parse_best_for follows its documented order of criteria for every list of
\* renditions, of any length.
THEOREM BestForStrategyHolds == Spec => []BestForFollowsStrategy
<1>1. ASSUME SessionInv
      PROVE  BestForFollowsStrategy
  <2>1. \A h \in Handles : file[h] # NoFile => file[h] \in Files
    BY <1>1 DEF SessionInv, TypeOK
  <2>2. QED
    BY <2>1, BestForStrategy, Zenon DEF BestForFollowsStrategy
<1>2. QED
  BY SessionInvariant, <1>1, PTL

-----------------------------------------------------------------------------
(***************************************************************************)
(* The handle implements the session without caches                         *)
(***************************************************************************)
choice_bar == [h \in Handles |->
                 IF book[h].state = "Unparsed" THEN {} ELSE {book[h].rendition}]
size_bar == [h \in Handles |-> {x.size : x \in position_index[h]}]

\* Seen through the mapping, ensure_parsed settles the choice, and the book is
\* ready exactly when the chosen rendition can be read.
LEMMA MapsEnsured ==
    ASSUME TypeOK, NEW h \in Handles, HandleInv(h), file[h] # NoFile
    PROVE  /\ Session!Chosen(h) = EnsuredBook(h).rendition
           /\ Session!Good(h) = Ready(h)
<1>1. choice_bar[h] = IF book[h].state = "Unparsed" THEN {} ELSE {book[h].rendition}
  BY DEF choice_bar
<1>2. Session!Chosen(h) = IF choice_bar[h] = {} THEN 1 ELSE CHOOSE i \in choice_bar[h] : TRUE
  BY Zenon DEF Session!Chosen, choice_bar
<1>3. Session!Chosen(h) = EnsuredBook(h).rendition
  BY <1>1, <1>2 DEF EnsuredBook, NeedsParse, Outcome
<1> DEFINE r == EnsuredBook(h).rendition
<1>4. EnsuredBook(h) = Outcome(file[h], r)
  BY Ensured, Zenon
<1>5. Ready(h) <=> r \in 1..Len(file[h].renditions) /\ r \in file[h].parses
  BY <1>4 DEF Ready, Outcome
<1>6. Session!Good(h) <=> r \in 1..Len(file[h].renditions) /\ r \in file[h].parses
  BY <1>3 DEF Session!Good
<1>7. QED
  BY <1>3, <1>5, <1>6 DEF Ready, Session!Good

LEMMA MapsSettle ==
    ASSUME TypeOK, NEW h \in Handles, HandleInv(h), file[h] # NoFile,
           file' = file, EnsureParsed(h)
    PROVE  /\ Session!Settle(h)
           /\ \A s, a : Session!About(h, s, a) = About(h, EnsuredBook(h).rendition, s, a)
<1> DEFINE e == EnsuredBook(h)
<1>1. e.state # "Unparsed" /\ Session!Chosen(h) = e.rendition
  BY Ensured, MapsEnsured, Zenon
<1>2. book' = [book EXCEPT ![h] = e]
  BY DEF EnsureParsed
<1>3. choice_bar' = [choice_bar EXCEPT ![h] = {e.rendition}]
  <2> HIDE DEF e
  <2>1. book'[h] = e /\ \A k \in Handles : k # h => book'[k] = book[k]
    BY <1>2 DEF TypeOK
  <2>2. QED
    BY <1>1, <2>1 DEF choice_bar
<1>4. Session!Settle(h)
  BY <1>1, <1>3, Zenon DEF Session!Settle, choice_bar
<1>5. selected'[h] = {e.rendition}
  BY EnsureParsedKeeps, Zenon
<1>6. \A s, a : Session!About(h, s, a) = About(h, e.rendition, s, a)
  BY <1>1, <1>5 DEF Session!About, About
<1>7. QED
  BY <1>4, <1>6

LEMMA MapsAnswer ==
    ASSUME NEW t \in Threads, NEW h \in Handles, NEW op, NEW ok, NEW about,
           Report(t, Call(op, h), ok, about)
    PROVE  Session!Answer(t, h, op, ok, about)
BY Zenon DEF Report, Call, Session!Answer

LEMMA MapsSize ==
    ASSUME position_index' = position_index
    PROVE  size_bar' = size_bar
BY DEF size_bar

LEMMA MapsQuery ==
    ASSUME SessionInv, NEW t \in Threads, NEW h \in Handles, NEW op, NEW found \in BOOLEAN,
           Query(t, h, op, found)
    PROVE  Session!Ask(t, h, op, found)
<1>1. TypeOK /\ HandleInv(h)
  BY DEF SessionInv
<1>2. /\ file[h] # NoFile /\ EnsureParsed(h) /\ file' = file
      /\ position_index' = position_index
      /\ Report(t, Call(op, h), Ready(h) /\ found, About(h, EnsuredBook(h).rendition, 0, 0))
  BY DEF Query
<1>3. /\ Session!Settle(h) /\ Session!Good(h) = Ready(h)
      /\ Session!About(h, 0, 0) = About(h, EnsuredBook(h).rendition, 0, 0)
  BY <1>1, <1>2, MapsSettle, MapsEnsured, Zenon
<1>4. Session!Answer(t, h, op, Session!Good(h) /\ found, Session!About(h, 0, 0))
  BY <1>2, <1>3, MapsAnswer, Zenon
<1>5. size_bar' = size_bar
  BY <1>2, MapsSize
<1>6. QED
  BY <1>2, <1>3, <1>4, <1>5, Zenon DEF Session!Ask, size_bar

LEMMA MapsNavigation ==
    ASSUME SessionInv, NEW t \in Threads, NEW h \in Handles, NEW op \in {"nav", "query"},
           AskNavigation(t, h, op)
    PROVE  IF op = "nav" THEN Session!Navigate(t, h) ELSE Session!Ask(t, h, op, TRUE)
<1> DEFINE nav == IF Ready(h) THEN NavOf(h) ELSE {}
           r == EnsuredBook(h).rendition
<1>1. TypeOK /\ HandleInv(h)
  BY DEF SessionInv
<1>2. /\ file[h] # NoFile /\ EnsureParsed(h) /\ file' = file
      /\ position_index' = position_index
      /\ Report(t, Call(op, h), Ready(h) /\ (op = "nav" => nav # {}),
                About(h, IF nav # {} THEN CHOOSE x \in nav : TRUE ELSE r, 0, 0))
  BY Zenon DEF AskNavigation
<1>3. (IF nav # {} THEN CHOOSE x \in nav : TRUE ELSE r) = r
  BY <1>1, <1>2, NavAnswer, Zenon
<1>4. /\ Session!Settle(h) /\ Session!Good(h) = Ready(h) /\ Session!Chosen(h) = r
      /\ Session!About(h, 0, 0) = About(h, r, 0, 0)
  BY <1>1, <1>2, MapsSettle, MapsEnsured, Zenon
<1>5. Ready(h) => (nav # {} <=> r \in file[h].navigable)
  <2>1. Ready(h) => NavOf(h) \subseteq {r} \cap file[h].navigable
    BY <1>1, <1>2, NavOfType, Zenon
  <2>2. Ready(h) /\ r \in file[h].navigable => NavOf(h) # {}
    BY DEF NavOf
  <2> HIDE DEF r
  <2>3. QED
    BY <2>1, <2>2
<1>6. size_bar' = size_bar
  BY <1>2, MapsSize
<1> DEFINE about == About(h, r, 0, 0)
<1>7. Report(t, Call(op, h), Ready(h) /\ (op = "nav" => nav # {}), about)
  BY <1>2, <1>3, Zenon
<1>8. CASE op = "nav"
  <2>1. (Ready(h) /\ (op = "nav" => nav # {}))
          = (Session!Good(h) /\ Session!Chosen(h) \in file[h].navigable)
    <3> HIDE DEF nav, r
    <3>1. QED
      BY <1>4, <1>5, <1>8 DEF Ready
  <2>2. Session!Answer(t, h, "nav", Session!Good(h) /\ Session!Chosen(h) \in file[h].navigable,
                       Session!About(h, 0, 0))
    BY <1>4, <1>7, <1>8, <2>1, MapsAnswer, Zenon
  <2>3. QED
    BY <1>2, <1>4, <1>6, <1>8, <2>2, Zenon DEF Session!Navigate, size_bar
<1>9. CASE op # "nav"
  <2>1. (Ready(h) /\ (op = "nav" => nav # {})) = (Session!Good(h) /\ TRUE)
    BY <1>4, <1>9 DEF Ready
  <2>2. Session!Answer(t, h, op, Session!Good(h) /\ TRUE, Session!About(h, 0, 0))
    BY <1>4, <1>7, <2>1, MapsAnswer, Zenon
  <2>3. QED
    BY <1>2, <1>4, <1>6, <1>9, <2>2, Zenon DEF Session!Ask, size_bar
<1>10. QED
  BY <1>8, <1>9

\* Whether positions can be had of the chosen rendition.
LEMMA MapsPositioned ==
    ASSUME TypeOK, NEW h \in Handles, HandleInv(h), file[h] # NoFile
    PROVE  Session!Positioned(h) = (Ready(h) /\ EnsuredBook(h).rendition \in file[h].indexable)
<1>1. Session!Good(h) = Ready(h) /\ Session!Chosen(h) = EnsuredBook(h).rendition
  BY MapsEnsured, Zenon
<1>2. QED
  BY <1>1 DEF Session!Positioned, Ready

LEMMA MapsEffective ==
    ASSUME NEW s
    PROVE  Session!Effective(s) = Effective(s)
BY Zenon DEF Session!Effective, Effective

LEMMA MapsPositions ==
    ASSUME SessionInv, NEW t \in Threads, NEW h \in Handles, NEW s \in Sizes,
           PositionsByReadingOrder(t, h, s)
    PROVE  Session!Positions(t, h, s)
<1> DEFINE r == EnsuredBook(h).rendition
<1>1. TypeOK /\ HandleInv(h)
  BY DEF SessionInv
<1>2. /\ file[h] # NoFile /\ EnsureParsed(h) /\ file' = file
      /\ position_index' = position_index
      /\ Report(t, Call("positions", h), Ready(h) /\ r \in file[h].indexable,
                About(h, r, Effective(s), Effective(s)))
  BY Zenon DEF PositionsByReadingOrder
<1>3. /\ Session!Settle(h)
      /\ Session!About(h, Effective(s), Effective(s)) = About(h, r, Effective(s), Effective(s))
      /\ Session!Positioned(h) = (Ready(h) /\ r \in file[h].indexable)
      /\ Session!Effective(s) = Effective(s)
  BY <1>1, <1>2, MapsSettle, MapsPositioned, MapsEffective, Zenon
<1>4. Session!Answer(t, h, "positions", Session!Positioned(h),
                     Session!About(h, Session!Effective(s), Session!Effective(s)))
  BY <1>2, <1>3, MapsAnswer, Zenon
<1>5. size_bar' = size_bar
  BY <1>2, MapsSize
<1>6. QED
  BY <1>2, <1>3, <1>4, <1>5, Zenon DEF Session!Positions, size_bar

\* ensure_index_built, seen through the mapping: the first size stays in force.
LEMMA MapsIndex ==
    ASSUME TypeOK, NEW h \in Handles, HandleInv(h), file[h] # NoFile,
           NEW s \in Sizes \cup {0}, EnsureIndexBuilt(h, s)
    PROVE  /\ Session!Index(h, s)
           /\ Session!Positioned(h) = Indexed(h)
           /\ Indexed(h) => Session!SizeInForce(h) = TheIndex(h).size
<1> DEFINE r == EnsuredBook(h).rendition
           old == position_index[h]
           index == position_index'[h]
           canBe == Ready(h) /\ r \in file[h].indexable
           new == [rendition |-> r, size |-> Effective(s)]
<1>1. position_index' = [position_index EXCEPT ![h] = IndexOf(h, s)] /\ index = IndexOf(h, s)
  BY DEF EnsureIndexBuilt, TypeOK
<1>2. \A x \in old : /\ Ready(h) /\ x.rendition = r
                     /\ x.rendition \in file[h].indexable /\ old = {x}
  BY Ensured, Zenon
<1>3. old # {} => canBe /\ index = old
  BY <1>1, <1>2 DEF IndexOf, NeedsIndex
<1>4. old = {} => index = IF canBe THEN {new} ELSE {}
  BY <1>1 DEF IndexOf, NeedsIndex
<1>5. Session!Positioned(h) = canBe
  BY MapsPositioned, Zenon
<1>6. size_bar[h] = {x.size : x \in old} /\ size_bar'[h] = {x.size : x \in index}
  BY DEF size_bar
<1>7. new.size = Effective(s)
  OBVIOUS
<1> HIDE DEF new, canBe, index, old
<1>8. size_bar'[h] = IF canBe /\ size_bar[h] = {} THEN {Effective(s)} ELSE size_bar[h]
  <2>1. CASE old = {}
    <3>1. size_bar[h] = {}
      BY <1>6, <2>1
    <3>2. CASE canBe
      <4>1. index = {new}
        BY <1>4, <2>1, <3>2
      <4>2. size_bar'[h] = {Effective(s)}
        BY <1>6, <1>7, <4>1
      <4>3. QED
        BY <3>1, <3>2, <4>2
    <3>3. CASE ~ canBe
      BY <1>4, <1>6, <2>1, <3>1, <3>3
    <3>4. QED
      BY <3>2, <3>3
  <2>2. CASE old # {}
    <3>1. size_bar[h] # {} /\ size_bar'[h] = size_bar[h]
      BY <1>3, <1>6, <2>2
    <3>2. QED
      BY <3>1
  <2>3. QED
    BY <2>1, <2>2
<1>9. \A k \in Handles : k # h => size_bar'[k] = size_bar[k]
  BY <1>1 DEF size_bar, TypeOK
<1>10. size_bar' = [size_bar EXCEPT ![h] =
                      IF Session!Positioned(h) /\ @ = {} THEN {Session!Effective(s)} ELSE @]
  <2>1. Session!Effective(s) = Effective(s)
    BY MapsEffective
  <2>2. size_bar' = [size_bar EXCEPT ![h] = size_bar'[h]]
    BY <1>9 DEF size_bar
  <2>3. size_bar'[h] = IF Session!Positioned(h) /\ size_bar[h] = {}
                       THEN {Session!Effective(s)} ELSE size_bar[h]
    BY <1>5, <1>8, <2>1
  <2>4. QED
    BY <2>2, <2>3
<1>11. Session!Index(h, s)
  BY <1>10, Zenon DEF Session!Index, size_bar
<1>12. Indexed(h) <=> canBe
  <2>1. Indexed(h) <=> Ready(h) /\ index # {}
    BY DEF Indexed, index
  <2>2. canBe => Ready(h)
    BY DEF canBe
  <2>3. canBe => index # {}
    BY <1>3, <1>4
  <2>4. index # {} => canBe
    BY <1>3, <1>4
  <2>5. QED
    BY <2>1, <2>2, <2>3, <2>4
<1>13. Session!Positioned(h) = Indexed(h)
  BY <1>5, <1>12 DEF Indexed, canBe, Ready
<1>14. ASSUME Indexed(h)
       PROVE  Session!SizeInForce(h) = TheIndex(h).size
  <2>1. PICK x : index = {x}
    <3>1. CASE old = {}
      BY <1>4, <1>12, <1>14, <3>1
    <3>2. CASE old # {}
      BY <1>2, <1>3, <3>2
    <3>3. QED
      BY <3>1, <3>2
  <2>2. TheIndex(h) = x
    BY <2>1 DEF TheIndex, index
  <2>3. size_bar'[h] = {x.size}
    BY <1>6, <2>1
  <2>4. Session!SizeInForce(h) = CHOOSE z \in size_bar'[h] : TRUE
    BY Zenon DEF Session!SizeInForce, size_bar
  <2>5. QED
    BY <2>2, <2>3, <2>4
<1>15. QED
  BY <1>11, <1>13, <1>14

LEMMA MapsLocations ==
    ASSUME SessionInv, NEW t \in Threads, NEW h \in Handles, NEW s \in Sizes,
           GenerateLocations(t, h, s)
    PROVE  Session!Locations(t, h, s)
<1> DEFINE about == IF Indexed(h)
                    THEN About(h, TheIndex(h).rendition, TheIndex(h).size, Effective(s))
                    ELSE Nothing
           about_bar == IF Session!Positioned(h)
                        THEN Session!About(h, Session!SizeInForce(h), Session!Effective(s))
                        ELSE Session!Nothing
<1>1. TypeOK /\ HandleInv(h)
  BY DEF SessionInv
<1>2. /\ file[h] # NoFile /\ EnsureIndexBuilt(h, s) /\ file' = file /\ EnsureParsed(h)
      /\ handed' = [handed EXCEPT ![h] = IF Indexed(h) THEN position_index'[h] ELSE handed[h]]
      /\ Report(t, Call("locations", h), Indexed(h), about)
  BY DEF GenerateLocations, EnsureIndexBuilt
<1>3. /\ Session!Index(h, s)
      /\ Session!Positioned(h) = Indexed(h)
      /\ Indexed(h) => Session!SizeInForce(h) = TheIndex(h).size
  BY <1>1, <1>2, MapsIndex
<1>4. /\ Session!Settle(h)
      /\ \A z, a : Session!About(h, z, a) = About(h, EnsuredBook(h).rendition, z, a)
  BY <1>1, <1>2, MapsSettle, Zenon
<1>5. Indexed(h) => TheIndex(h).rendition = EnsuredBook(h).rendition
  BY <1>1, <1>2, IndexBuilt
<1>6. Session!Effective(s) = Effective(s) /\ Session!Nothing = Nothing
  BY MapsEffective DEF Session!Nothing, Nothing
<1>7. about_bar = about
  BY <1>3, <1>4, <1>5, <1>6, Zenon
<1>8. Session!Answer(t, h, "locations", Session!Positioned(h), about_bar)
  <2> HIDE DEF about, about_bar
  <2>1. QED
    BY <1>2, <1>3, <1>7, MapsAnswer, Zenon
<1>9. QED
  BY <1>2, <1>3, <1>4, <1>8, Zenon DEF Session!Locations

LEMMA MapsLookup ==
    ASSUME SessionInv, NEW t \in Threads, NEW h \in Handles, NEW found \in BOOLEAN,
           Lookup(t, h, found)
    PROVE  Session!Lookup(t, h, found)
<1> DEFINE about == IF Indexed(h)
                    THEN About(h, TheIndex(h).rendition, TheIndex(h).size, TheIndex(h).size)
                    ELSE Nothing
           about_bar == IF Session!Positioned(h)
                        THEN Session!About(h, Session!SizeInForce(h), Session!SizeInForce(h))
                        ELSE Session!Nothing
<1>1. TypeOK /\ HandleInv(h)
  BY DEF SessionInv
<1>2. /\ file[h] # NoFile /\ EnsureIndexBuilt(h, 0) /\ file' = file /\ EnsureParsed(h)
      /\ handed' = handed
      /\ Report(t, Call("lookup", h), Indexed(h) /\ found, about)
  BY DEF Lookup, EnsureIndexBuilt
<1>3. /\ Session!Index(h, 0)
      /\ Session!Positioned(h) = Indexed(h)
      /\ Indexed(h) => Session!SizeInForce(h) = TheIndex(h).size
  BY <1>1, <1>2, MapsIndex
<1>4. /\ Session!Settle(h)
      /\ \A z, a : Session!About(h, z, a) = About(h, EnsuredBook(h).rendition, z, a)
  BY <1>1, <1>2, MapsSettle, Zenon
<1>5. Indexed(h) => TheIndex(h).rendition = EnsuredBook(h).rendition
  BY <1>1, <1>2, IndexBuilt
<1>6. Session!Nothing = Nothing
  BY DEF Session!Nothing, Nothing
<1>7. about_bar = about
  BY <1>3, <1>4, <1>5, <1>6, Zenon
<1>8. Session!Answer(t, h, "lookup", Session!Positioned(h) /\ found, about_bar)
  <2> HIDE DEF about, about_bar
  <2>1. QED
    BY <1>2, <1>3, <1>7, MapsAnswer, Zenon
<1>9. QED
  BY <1>2, <1>3, <1>4, <1>8, Zenon DEF Session!Lookup

LEMMA MapsSelect ==
    ASSUME SessionInv, NEW t \in Threads, NEW h \in Handles, NEW i \in Renditions,
           file[h] # NoFile, SelectRendition(t, h, i)
    PROVE  Session!Select(t, h, i)
<1> DEFINE o == Outcome(file[h], i)
<1>1. TypeOK
  BY DEF SessionInv
<1>2. /\ book' = [book EXCEPT ![h] = o]
      /\ position_index' = [position_index EXCEPT ![h] = {}]
      /\ selected' = [selected EXCEPT ![h] = {i}]
      /\ file' = file
      /\ Report(t, Call("select", h), o.state = "Ready", About(h, i, 0, 0))
  BY DEF SelectRendition, StoreParsedBook
<1>3. /\ o.state \in {"Ready", "Failed"} /\ o.rendition = i
      /\ o.state = "Ready" <=> i \in 1..Len(file[h].renditions) /\ i \in file[h].parses
  BY DEF Outcome
<1> HIDE DEF o
<1>4. choice_bar' = [choice_bar EXCEPT ![h] = {i}]
  <2>1. book'[h] = o /\ \A k \in Handles : k # h => book'[k] = book[k]
    BY <1>1, <1>2 DEF TypeOK
  <2>2. QED
    BY <1>3, <2>1 DEF choice_bar
<1>5. size_bar' = [size_bar EXCEPT ![h] = {}]
  <2>1. position_index'[h] = {} /\ \A k \in Handles : k # h => position_index'[k] = position_index[k]
    BY <1>1, <1>2 DEF TypeOK
  <2>2. QED
    BY <2>1 DEF size_bar
<1>6. About(h, i, 0, 0) = [rendition |-> i, size |-> 0, asked |-> 0, selected |-> {i}]
  BY <1>1, <1>2 DEF TypeOK, About
<1>7. Session!Answer(t, h, "select", i \in 1..Len(file[h].renditions) /\ i \in file[h].parses,
                     [rendition |-> i, size |-> 0, asked |-> 0, selected |-> {i}])
  <2>1. (o.state = "Ready")
          = (i \in 1..Len(file[h].renditions) /\ i \in file[h].parses)
    BY <1>3
  <2>2. QED
    BY <1>2, <1>6, <2>1, MapsAnswer, Zenon
<1>8. QED
  BY <1>2, <1>4, <1>5, <1>7, Zenon DEF Session!Select, choice_bar, size_bar

LEMMA MapsRenew ==
    ASSUME SessionInv, NEW t \in Threads, NEW h \in Handles, NEW f, NEW op,
           file' = [file EXCEPT ![h] = f], Fresh(h),
           result' = [result EXCEPT ![t] =
                        {[call |-> Call(op, h), ok |-> TRUE, about |-> Nothing]}]
    PROVE  Session!Renew(t, h, op, f)
<1>1. /\ book' = [book EXCEPT ![h] = Unparsed]
      /\ position_index' = [position_index EXCEPT ![h] = {}]
  BY DEF Fresh
<1>2. /\ book'[h] = Unparsed /\ position_index'[h] = {}
      /\ \A k \in Handles : k # h => book'[k] = book[k] /\ position_index'[k] = position_index[k]
  BY <1>1 DEF SessionInv, TypeOK
<1>3. choice_bar' = [choice_bar EXCEPT ![h] = {}]
  <2>1. book'[h].state = "Unparsed"
    BY <1>2 DEF Unparsed
  <2>2. QED
    BY <1>2, <2>1 DEF choice_bar
<1>4. size_bar' = [size_bar EXCEPT ![h] = {}]
  BY <1>2 DEF size_bar
<1>5. Session!Answer(t, h, op, TRUE, Session!Nothing)
  BY Zenon DEF Session!Answer, Call, Session!Nothing, Nothing
<1>6. QED
  BY <1>3, <1>4, <1>5, Zenon DEF Session!Renew, choice_bar, size_bar

LEMMA MapsTouchless ==
    ASSUME NEW t \in Threads, NEW h \in Handles, NEW op, NEW ok,
           Report(t, Call(op, h), ok, Nothing), UNCHANGED handle_vars
    PROVE  Session!Touchless(t, h, op, ok)
<1>1. file' = file /\ book' = book /\ position_index' = position_index
  BY DEF handle_vars
<1>2. choice_bar' = choice_bar /\ size_bar' = size_bar
  BY <1>1 DEF choice_bar, size_bar
<1>3. Session!Answer(t, h, op, ok, Session!Nothing)
  BY MapsAnswer, Zenon DEF Session!Nothing, Nothing
<1>4. QED
  BY <1>1, <1>2, <1>3, Zenon DEF Session!Touchless, choice_bar, size_bar

\* Every step of a handle is a step of the session, or none.
LEMMA SessionStep ==
    ASSUME SessionInv, [Next]_vars
    PROVE  [Session!Next]_(Session!vars)
<1>1. ASSUME NEW t \in Threads, NEW h \in Handles, NEW f \in Files, Open(t, h, f)
      PROVE  Session!Next
  <2>1. /\ file[h] = NoFile /\ file' = [file EXCEPT ![h] = f] /\ Fresh(h)
        /\ result' = [result EXCEPT ![t] =
                        {[call |-> Call("open", h), ok |-> TRUE, about |-> Nothing]}]
    BY <1>1, Zenon DEF Open, Report
  <2>2. Session!Renew(t, h, "open", f)
    BY <2>1, MapsRenew, Zenon
  <2>3. QED
    BY <2>1, <2>2, Zenon DEF Session!Next
<1>2. ASSUME NEW t \in Threads, NEW h \in Handles,
             NEW op \in {"open", "query", "lookup"}, Refused(t, h, op)
      PROVE  Session!Next
  <2>1. Session!Touchless(t, h, op, FALSE)
    BY <1>2, MapsTouchless, Zenon DEF Refused
  <2>2. QED
    BY <2>1, Zenon DEF Session!Next
<1>3. ASSUME NEW t \in Threads, NEW h \in Handles, Free(t, h)
      PROVE  Session!Next
  <2>1. Session!Renew(t, h, "free", NoFile) /\ file[h] # NoFile
    BY <1>3, MapsRenew, Zenon DEF Free
  <2>2. QED
    BY <2>1, Zenon DEF Session!Next
<1>4. ASSUME NEW t \in Threads, NEW h \in Handles, Parse(t, h)
      PROVE  Session!Next
  <2>1. Session!Ask(t, h, "parse", TRUE)
    BY <1>4, MapsQuery DEF Parse
  <2>2. QED
    BY <2>1, Zenon DEF Session!Next
<1>5. ASSUME NEW t \in Threads, NEW h \in Handles, NEW found \in BOOLEAN,
             \/ MediaOverlay(t, h, found) \/ GetResource(t, h, found)
             \/ ReadChapter(t, h, found) \/ PrepareOrSearch(t, h, found)
      PROVE  Session!Next
  <2>1. Session!Ask(t, h, "query", found)
    BY <1>5, MapsQuery DEF MediaOverlay, GetResource, ReadChapter, PrepareOrSearch
  <2>2. QED
    BY <2>1, Zenon DEF Session!Next
<1>6. ASSUME NEW t \in Threads, NEW h \in Handles, NEW found \in BOOLEAN, Lookup(t, h, found)
      PROVE  Session!Next
  <2>1. Session!Lookup(t, h, found)
    BY <1>6, MapsLookup
  <2>2. QED
    BY <2>1, Zenon DEF Session!Next
<1>7. ASSUME NEW t \in Threads, NEW h \in Handles, GetRenditions(t, h)
      PROVE  Session!Next
  <2>1. Session!Touchless(t, h, "renditions", TRUE)
    BY <1>7, MapsTouchless, Zenon DEF GetRenditions
  <2>2. QED
    BY <2>1, Zenon DEF Session!Next
<1>8. ASSUME NEW t \in Threads, NEW h \in Handles, file[h] # NoFile,
             NEW i \in 1..(Len(file[h].renditions) + 1), SelectRendition(t, h, i)
      PROVE  Session!Next
  <2>1. i \in Renditions
    BY <1>8, ArgumentsType DEF SessionInv
  <2>2. Session!Select(t, h, i)
    BY <1>8, <2>1, MapsSelect
  <2>3. QED
    BY <1>8, <2>2, Zenon DEF Session!Next
<1>9. ASSUME NEW t \in Threads, NEW h \in Handles, NEW i \in IndexArguments(h),
             ParseByIndex(t, h, i)
      PROVE  Session!Next
  <2>1. file[h] # NoFile /\ SelectRendition(t, h, i)
    BY <1>9 DEF ParseByIndex
  <2>2. i \in 1..(Len(file[h].renditions) + 1)
    BY <1>9, <2>1, ArgumentsType DEF SessionInv
  <2>3. QED
    BY <1>8, <2>1, <2>2, Zenon
<1>10. ASSUME NEW t \in Threads, NEW h \in Handles, NEW layout, NEW language,
              ParseBestFor(t, h, layout, language)
       PROVE  Session!Next
  <2> DEFINE i == BestFor(file[h], layout, language)
  <2>1. file[h] # NoFile /\ SelectRendition(t, h, i)
    BY <1>10 DEF ParseBestFor
  <2>2. file[h] \in Files
    BY <2>1 DEF SessionInv, TypeOK
  <2>3. i \in 1..Len(file[h].renditions) /\ Len(file[h].renditions) \in Nat
    BY <2>2, BestForInRange, FileType
  <2> HIDE DEF i
  <2>4. i \in 1..(Len(file[h].renditions) + 1)
    BY <2>3
  <2>5. QED
    BY <1>8, <2>1, <2>4, Zenon
<1>11. ASSUME NEW t \in Threads, NEW h \in Handles, GetNavigation(t, h)
       PROVE  Session!Next
  <2>1. Session!Navigate(t, h)
    BY <1>11, MapsNavigation DEF GetNavigation
  <2>2. QED
    BY <2>1, Zenon DEF Session!Next
<1>12. ASSUME NEW t \in Threads, NEW h \in Handles, PreferredReadingStart(t, h)
       PROVE  Session!Next
  <2>1. Session!Ask(t, h, "query", TRUE)
    BY <1>12, MapsNavigation DEF PreferredReadingStart
  <2>2. TRUE \in BOOLEAN
    OBVIOUS
  <2>3. QED
    BY <2>1, <2>2, Zenon DEF Session!Next
<1>13. ASSUME NEW t \in Threads, NEW h \in Handles, NEW s \in Sizes,
              PositionsByReadingOrder(t, h, s) \/ GenerateLocations(t, h, s)
       PROVE  Session!Next
  <2>1. Session!Positions(t, h, s) \/ Session!Locations(t, h, s)
    BY <1>13, MapsPositions, MapsLocations
  <2>2. QED
    BY <2>1, Zenon DEF Session!Next
<1>14. ASSUME UNCHANGED vars
       PROVE  UNCHANGED Session!vars
  <2>1. file' = file /\ book' = book /\ position_index' = position_index /\ result' = result
    BY <1>14 DEF vars
  <2>2. choice_bar' = choice_bar /\ size_bar' = size_bar
    BY <2>1 DEF choice_bar, size_bar
  <2>3. QED
    BY <2>1, <2>2, Zenon DEF Session!vars, choice_bar, size_bar
<1>15. QED
  BY <1>1, <1>2, <1>3, <1>4, <1>5, <1>6, <1>7, <1>9, <1>10, <1>11, <1>12, <1>13, <1>14
     DEF Next

\* With any threads, handles and archives, the caches of a handle cannot be told
\* from a session that computes every answer afresh.
THEOREM ImplementsSession == Spec => SessionSpec
<1>1. Init => Session!Init
  <2>1. Init => /\ file = [h \in Handles |-> NoFile]
                /\ choice_bar = [h \in Handles |-> {}]
                /\ size_bar = [h \in Handles |-> {}]
                /\ result = [t \in Threads |-> {}]
    BY DEF Init, choice_bar, size_bar, Unparsed
  <2>2. QED
    BY <2>1, Zenon DEF Session!Init, choice_bar, size_bar
<1>2. SessionInv /\ [Next]_vars => [Session!Next]_(Session!vars)
  BY SessionStep
<1>3. QED
  BY SessionInvariant, <1>1, <1>2, PTL DEF Spec, SessionSpec, Session!Spec

-----------------------------------------------------------------------------
(***************************************************************************)
(* The bindings for JavaScript                                              *)
(***************************************************************************)
\* A parser that has tried no rendition holds no navigation document either.
MemoInv == \A h \in Handles : book[h].state = "Unparsed" => nav_cache[h] = {}

\* The calls of a generator are counted, and only generate takes its builder.
BuilderInv ==
    /\ generated \in BOOLEAN /\ trapped \in BOOLEAN
    /\ accepted \in Seq({"title", "chapter", "toc", "metadata"})
    /\ Len(accepted) <= MaxCalls
    /\ BuilderLostOnlyToGenerate

WasmInv == SessionInv /\ MemoInv /\ BuilderInv

-----------------------------------------------------------------------------
\* Every call of a parser is a step of a handle, but for free() and the reads
\* by path.
LEMMA ParserSteps ==
    ASSUME NEW t \in Threads, NEW h \in Handles, ParserNext(t, h)
    PROVE  \/ Next
           \/ FreeParser(t, h)
           \/ \E found \in BOOLEAN : GetFile(t, h, found)
<1>1. ASSUME NEW f \in Files, New(t, h, f) PROVE Next
  BY <1>1, Zenon DEF New, Next
<1>2. ASSUME Refused(t, h, "open") PROVE Next
  <2>1. "open" \in {"open", "query", "lookup"}
    OBVIOUS
  <2>2. QED
    BY <1>2, <2>1, Zenon DEF Next
<1>3. ASSUME Parse(t, h) \/ GetRenditions(t, h) \/ GetNavigation(t, h)
               \/ PreferredReadingStart(t, h)
      PROVE  Next
  BY <1>3, Zenon DEF Next
<1>4. ASSUME NEW i \in IndexArguments(h), ParseByIndex(t, h, i) PROVE Next
  BY <1>4, Zenon DEF Next
<1>5. ASSUME NEW layout \in Layouts \cup {Absent}, NEW language \in Languages \cup {Absent},
             ParseBestFor(t, h, layout, language)
      PROVE  Next
  BY <1>5, Zenon DEF Next
<1>6. ASSUME NEW found \in BOOLEAN,
             MediaOverlay(t, h, found) \/ GetResource(t, h, found)
               \/ PrepareOrSearch(t, h, found)
      PROVE  Next
  BY <1>6, Zenon DEF Next
<1>7. ASSUME NEW size \in Sizes, FreshLocations(t, h, size) \/ LocationIndex(t, h, size)
      PROVE  Next
  BY <1>7, Zenon DEF Next, FreshLocations, LocationIndex
<1>8. ASSUME LookUp(t, h) PROVE Next
  <2>1. TRUE \in BOOLEAN
    OBVIOUS
  <2>2. QED
    BY <1>8, <2>1, Zenon DEF Next, LookUp
<1>9. QED
  BY <1>1, <1>2, <1>3, <1>4, <1>5, <1>6, <1>7, <1>8 DEF ParserNext

LEMMA FreeParserKeeps ==
    ASSUME SessionInv, NEW t \in Threads, NEW h \in Handles, FreeParser(t, h)
    PROVE  SessionInv'
<1>1. Touches(h) /\ HandleType(h)' /\ HandleInv(h)'
  BY FreshKeeps DEF FreeParser, SessionInv
<1>2. Report(t, Call("free", h), TRUE, Nothing)
  BY DEF FreeParser
<1>3. QED
  BY <1>1, <1>2, CallKeeps, CallsType, NothingType

LEMMA GetFileKeeps ==
    ASSUME SessionInv, NEW t \in Threads, NEW h \in Handles, NEW found \in BOOLEAN,
           GetFile(t, h, found)
    PROVE  SessionInv'
<1>1. Report(t, Call("bytes", h), found, Nothing) /\ UNCHANGED handle_vars
  BY DEF GetFile
<1>2. "bytes" \in {"open", "query", "lookup", "renditions", "bytes"}
  OBVIOUS
<1>3. QED
  BY <1>1, <1>2, TouchlessKeeps

LEMMA ParserKeeps ==
    ASSUME SessionInv, NEW t \in Threads, NEW h \in Handles, ParserNext(t, h)
    PROVE  SessionInv'
<1>1. CASE Next
  BY <1>1, NextKeeps
<1>2. CASE FreeParser(t, h)
  BY <1>2, FreeParserKeeps
<1>3. ASSUME NEW found \in BOOLEAN, GetFile(t, h, found) PROVE SessionInv'
  BY <1>3, GetFileKeeps
<1>4. QED
  BY ParserSteps, <1>1, <1>2, <1>3

-----------------------------------------------------------------------------
\* A step that touches the book and the memo of h alone.
LEMMA MemoOfOne ==
    ASSUME TypeOK, MemoInv, NEW h \in Handles, NEW b, NEW n,
           book' = [book EXCEPT ![h] = b], nav_cache' = [nav_cache EXCEPT ![h] = n],
           b.state = "Unparsed" => n = {}
    PROVE  MemoInv'
<1>1. book'[h] = b /\ nav_cache'[h] = n
  BY DEF TypeOK
<1>2. \A k \in Handles : k # h => book'[k] = book[k] /\ nav_cache'[k] = nav_cache[k]
  BY DEF TypeOK
<1>3. QED
  BY <1>1, <1>2 DEF MemoInv

LEMMA MemoUnchanged ==
    ASSUME MemoInv, UNCHANGED handle_vars
    PROVE  MemoInv'
BY DEF MemoInv, handle_vars

LEMMA MemoFresh ==
    ASSUME TypeOK, MemoInv, NEW h \in Handles, Fresh(h)
    PROVE  MemoInv'
BY MemoOfOne DEF Fresh

\* ensure_parsed leaves no book unparsed, so whatever is memoized is allowed.
LEMMA MemoEnsured ==
    ASSUME TypeOK, MemoInv, NEW h \in Handles, EnsureParsed(h), NEW n,
           nav_cache' = [nav_cache EXCEPT ![h] = n]
    PROVE  MemoInv'
<1>1. EnsuredBook(h).state # "Unparsed"
  BY DEF EnsuredBook, NeedsParse, Outcome
<1>2. book' = [book EXCEPT ![h] = EnsuredBook(h)]
  BY DEF EnsureParsed
<1>3. QED
  BY <1>1, <1>2, MemoOfOne

LEMMA MemoSelected ==
    ASSUME TypeOK, MemoInv, NEW t \in Threads, NEW h \in Handles, NEW i,
           SelectRendition(t, h, i)
    PROVE  MemoInv'
<1>1. /\ book' = [book EXCEPT ![h] = Outcome(file[h], i)]
      /\ nav_cache' = [nav_cache EXCEPT ![h] = NavAfterParse(h, i)]
  BY DEF SelectRendition, StoreParsedBook
<1>2. Outcome(file[h], i).state # "Unparsed"
  BY DEF Outcome
<1>3. QED
  BY <1>1, <1>2, MemoOfOne

LEMMA MemoKept ==
    ASSUME TypeOK, MemoInv, NEW t \in Threads, NEW h \in Handles, ParserNext(t, h)
    PROVE  MemoInv'
<1>1. ASSUME NEW f \in Files, New(t, h, f) PROVE MemoInv'
  BY <1>1, MemoFresh DEF New, Open
<1>2. CASE Refused(t, h, "open") \/ GetRenditions(t, h)
  BY <1>2, MemoUnchanged DEF Refused, GetRenditions
<1>3. CASE FreeParser(t, h)
  BY <1>3, MemoFresh DEF FreeParser
<1>4. ASSUME NEW op, NEW found \in BOOLEAN, Query(t, h, op, found) PROVE MemoInv'
  BY <1>4, MemoEnsured DEF Query
<1>5. ASSUME NEW i, ParseByIndex(t, h, i) PROVE MemoInv'
  BY <1>5, MemoSelected DEF ParseByIndex
<1>6. ASSUME NEW layout, NEW language, ParseBestFor(t, h, layout, language) PROVE MemoInv'
  BY <1>6, MemoSelected DEF ParseBestFor
<1>7. ASSUME NEW op, AskNavigation(t, h, op) PROVE MemoInv'
  BY <1>7, MemoEnsured DEF AskNavigation
<1>8. ASSUME NEW found \in BOOLEAN, GetFile(t, h, found) PROVE MemoInv'
  BY <1>8, MemoUnchanged DEF GetFile
<1>9. ASSUME NEW size, EnsureIndexBuilt(h, size) PROVE MemoInv'
  BY <1>9, MemoEnsured DEF EnsureIndexBuilt
<1>10. ASSUME NEW size, PositionsByReadingOrder(t, h, size) PROVE MemoInv'
  BY <1>10, MemoEnsured DEF PositionsByReadingOrder
<1>11. CASE Parse(t, h)
  <2>1. TRUE \in BOOLEAN
    OBVIOUS
  <2>2. QED
    BY <1>4, <1>11, <2>1 DEF Parse
<1>12. ASSUME NEW found \in BOOLEAN,
              MediaOverlay(t, h, found) \/ GetResource(t, h, found)
                \/ PrepareOrSearch(t, h, found)
       PROVE  MemoInv'
  BY <1>4, <1>12 DEF MediaOverlay, GetResource, PrepareOrSearch
<1>13. ASSUME NEW size \in Sizes, FreshLocations(t, h, size) \/ LocationIndex(t, h, size)
       PROVE  MemoInv'
  BY <1>9, <1>10, <1>13 DEF FreshLocations, LocationIndex, GenerateLocations
<1>14. CASE LookUp(t, h)
  BY <1>9, <1>14 DEF LookUp, Lookup
<1>15. CASE GetNavigation(t, h) \/ PreferredReadingStart(t, h)
  BY <1>7, <1>15 DEF GetNavigation, PreferredReadingStart
<1>16. QED
  BY <1>1, <1>2, <1>3, <1>5, <1>6, <1>8, <1>11, <1>12, <1>13, <1>14, <1>15 DEF ParserNext

-----------------------------------------------------------------------------
\* A call that changes the builder it finds there.
LEMMA ApplyKeeps ==
    ASSUME BuilderInv, NEW call \in {"title", "chapter", "toc", "metadata"},
           Idle, IF builder = {} THEN Trap ELSE Apply(call)
    PROVE  BuilderInv'
<1>1. CASE builder = {}
  <2>1. trapped' = TRUE /\ builder' = {} /\ generated' = generated /\ accepted' = accepted
    BY <1>1 DEF Trap
  <2>2. generated
    BY <1>1 DEF BuilderInv, BuilderLostOnlyToGenerate
  <2>3. QED
    BY <2>1, <2>2 DEF BuilderInv, BuilderLostOnlyToGenerate
<1>2. CASE builder # {}
  <2>1. ~ generated /\ builder = {accepted} /\ ~ trapped
    BY <1>2 DEF BuilderInv, BuilderLostOnlyToGenerate
  <2>2. /\ Len(accepted) < MaxCalls
        /\ builder' = {Append(applied, call) : applied \in builder}
        /\ accepted' = Append(accepted, call)
        /\ generated' = generated /\ trapped' = trapped
    BY <1>2 DEF Apply
  <2>3. builder' = {accepted'}
    BY <2>1, <2>2
  <2>4. accepted' \in Seq({"title", "chapter", "toc", "metadata"}) /\ Len(accepted') <= MaxCalls
    BY <2>2, MaxCallsAssumption DEF BuilderInv
  <2>5. QED
    BY <2>1, <2>2, <2>3, <2>4 DEF BuilderInv, BuilderLostOnlyToGenerate
<1>3. QED
  BY <1>1, <1>2

LEMMA BuilderUnchanged ==
    ASSUME BuilderInv, UNCHANGED generator_vars
    PROVE  BuilderInv'
BY DEF BuilderInv, BuilderLostOnlyToGenerate, generator_vars

\* A trap without a call applied: validate and generate on a spent object.
LEMMA TrapKeeps ==
    ASSUME BuilderInv, builder = {}, Trap
    PROVE  BuilderInv'
BY DEF BuilderInv, BuilderLostOnlyToGenerate, Trap

LEMMA GeneratorKeeps ==
    ASSUME BuilderInv, GeneratorNext
    PROVE  BuilderInv'
<1>1. ASSUME NEW call \in {"title", "chapter"}, Set(call) PROVE BuilderInv'
  BY <1>1, ApplyKeeps DEF Set
<1>2. ASSUME NEW call \in {"toc", "metadata"}, NEW readable \in BOOLEAN,
             SetFromJs(call, readable)
      PROVE  BuilderInv'
  <2>1. CASE readable
    BY <1>2, <2>1, ApplyKeeps DEF SetFromJs
  <2>2. CASE ~ readable
    BY <1>2, <2>2, BuilderUnchanged DEF SetFromJs
  <2>3. QED
    BY <2>1, <2>2
<1>3. CASE Validate
  BY <1>3, TrapKeeps, BuilderUnchanged DEF Validate
<1>4. CASE Generate
  <2>1. CASE builder = {}
    BY <1>4, <2>1, TrapKeeps DEF Generate
  <2>2. CASE builder # {}
    BY <1>4, <2>2 DEF Generate, BuilderInv, BuilderLostOnlyToGenerate
  <2>3. QED
    BY <2>1, <2>2
<1>5. QED
  BY <1>1, <1>2, <1>3, <1>4 DEF GeneratorNext

-----------------------------------------------------------------------------
\* The inductive invariant of the bindings: that of the C sessions for the
\* parsers, and the builder that only generate takes.
THEOREM WasmInvariant == WasmSpec => []WasmInv
<1>1. WasmInit => WasmInv
  <2> SUFFICES ASSUME WasmInit PROVE WasmInv
    OBVIOUS
  <2>1. SessionInv
    BY InitHolds DEF WasmInit
  <2>2. MemoInv
    BY DEF WasmInit, Init, MemoInv
  <2>3. BuilderInv
    <3>1. /\ builder = {<< >>} /\ generated = FALSE /\ accepted = << >>
          /\ trapped = FALSE
      BY DEF WasmInit
    <3>2. accepted \in Seq({"title", "chapter", "toc", "metadata"}) /\ Len(accepted) = 0
      BY <3>1
    <3>3. Len(accepted) <= MaxCalls
      BY <3>2, MaxCallsAssumption
    <3>4. BuilderLostOnlyToGenerate
      BY <3>1, Zenon DEF BuilderLostOnlyToGenerate
    <3>5. generated \in BOOLEAN /\ trapped \in BOOLEAN
      BY <3>1
    <3>6. QED
      BY <3>2, <3>3, <3>4, <3>5 DEF BuilderInv
  <2>4. QED
    BY <2>1, <2>2, <2>3 DEF WasmInv
<1>2. WasmInv /\ [WasmNext]_wasm_vars => WasmInv'
  <2> SUFFICES ASSUME WasmInv, [WasmNext]_wasm_vars PROVE WasmInv'
    OBVIOUS
  <2> USE DEF WasmInv
  <2>1. ASSUME NEW t \in Threads, NEW h \in Handles, ParserNext(t, h),
               UNCHANGED generator_vars
        PROVE  WasmInv'
    <3>1. TypeOK
      BY DEF SessionInv
    <3>2. QED
      BY <2>1, <3>1, ParserKeeps, MemoKept, BuilderUnchanged
  <2>2. ASSUME GeneratorNext \/ UNCHANGED generator_vars, UNCHANGED vars
        PROVE  WasmInv'
    <3>1. SessionInv'
      BY <2>2, StutterKeeps
    <3>2. MemoInv'
      BY <2>2 DEF MemoInv, vars
    <3>3. BuilderInv'
      BY <2>2, GeneratorKeeps, BuilderUnchanged
    <3>4. QED
      BY <3>1, <3>2, <3>3
  <2>3. QED
    BY <2>1, <2>2 DEF WasmNext, wasm_vars
<1>3. QED
  BY <1>1, <1>2, PTL DEF WasmSpec

\* Parsers and generators keep their state over calls that fail or trap.
THEOREM WasmStaysConsistent == WasmSpec => []WasmConsistent
<1>1. ASSUME WasmInv PROVE WasmConsistent
  <2>1. TypeOK /\ MemoInv /\ BuilderInv /\ \A h \in Handles : HandleInv(h)
    BY <1>1 DEF WasmInv, SessionInv
  <2>2. LookupsMatchLocationIndex
    BY <2>1 DEF LookupsMatchLocationIndex, HandleInv, HandedInv
  <2>3. BuilderLostOnlyToGenerate
    BY <2>1 DEF BuilderInv
  <2>4. Cardinality(builder) <= 1 /\ Len(accepted) <= MaxCalls
    <3>1. builder = {} \/ builder = {accepted}
      BY <2>3 DEF BuilderLostOnlyToGenerate
    <3>2. Cardinality({}) = 0 /\ Cardinality({accepted}) = 1
      BY FS_EmptySet, FS_Singleton
    <3>3. CASE builder = {}
      BY <2>1, <3>2, <3>3 DEF BuilderInv
    <3>4. CASE builder = {accepted}
      <4> DEFINE c == Cardinality(builder)
      <4>1. c = 1
        BY <3>2, <3>4, Zenon
      <4> HIDE DEF c
      <4>2. c <= 1
        BY <4>1
      <4>3. QED
        BY <2>1, <4>2 DEF BuilderInv, c
    <3>5. QED
      BY <3>1, <3>3, <3>4
  <2>5. ASSUME NEW h \in Handles, book[h].state = "Unparsed"
        PROVE  nav_cache[h] = {} /\ position_index[h] = {} /\ handed[h] = {}
    <3>1. nav_cache[h] = {}
      BY <2>1, <2>5 DEF MemoInv
    <3>2. position_index[h] = {}
      BY <2>1, <2>5 DEF HandleInv, IndexInv
    <3>3. handed[h] = {}
      BY <2>2, <3>2 DEF LookupsMatchLocationIndex
    <3>4. QED
      BY <3>1, <3>2, <3>3
  <2>6. ASSUME NEW h \in Handles, NEW x \in position_index[h]
        PROVE  x.rendition \in file[h].parses /\ x.size \in Nat \ {0}
    <3>1. book[h].state = "Ready" /\ x.rendition = book[h].rendition
      BY <2>1, <2>6 DEF HandleInv, IndexInv
    <3>2. book[h] = Outcome(file[h], book[h].rendition)
      BY <2>1, <3>1 DEF HandleInv, BookInv
    <3>3. x.rendition \in file[h].parses
      BY <3>1, <3>2 DEF Outcome
    <3>4. x \in Indexes
      BY <2>1, <2>6 DEF TypeOK
    <3>5. QED
      BY <3>3, <3>4 DEF Indexes
  <2>7. WasmTypeOK
    BY <2>1, <2>4, <2>5, <2>6 DEF WasmTypeOK, TypeOK
  <2>8. QED
    BY <2>2, <2>3, <2>7 DEF WasmConsistent
<1>2. QED
  BY WasmInvariant, <1>1, PTL

-----------------------------------------------------------------------------
\* Every step of a parser is a step of the session, or none.
LEMMA ParserStep ==
    ASSUME SessionInv, NEW t \in Threads, NEW h \in Handles, ParserNext(t, h)
    PROVE  [Session!Next]_(Session!vars)
<1>1. CASE Next
  BY <1>1, SessionStep
<1>2. CASE FreeParser(t, h)
  <2>1. /\ file[h] # NoFile /\ file' = [file EXCEPT ![h] = NoFile] /\ Fresh(h)
        /\ result' = [result EXCEPT ![t] =
                        {[call |-> Call("free", h), ok |-> TRUE, about |-> Nothing]}]
    BY <1>2, Zenon DEF FreeParser, Report
  <2>2. Session!Renew(t, h, "free", NoFile)
    BY <2>1, MapsRenew, Zenon
  <2>3. Session!Next
    BY <2>1, <2>2, Zenon DEF Session!Next
  <2>4. QED
    BY <2>3
<1>3. ASSUME NEW found \in BOOLEAN, GetFile(t, h, found)
      PROVE  Session!Next
  <2>1. Session!Touchless(t, h, "bytes", found)
    BY <1>3, MapsTouchless, Zenon DEF GetFile
  <2>2. QED
    BY <2>1, Zenon DEF Session!Next
<1>4. QED
  BY ParserSteps, <1>1, <1>2, <1>3

\* Through the JavaScript bindings, too, the caches cannot be told from a
\* session that computes every answer afresh, with generators beside it.
THEOREM ParserImplementsSession == WasmSpec => ParserIsSession
<1>1. WasmInit => Session!Init
  <2>1. WasmInit => /\ file = [h \in Handles |-> NoFile]
                    /\ choice_bar = [h \in Handles |-> {}]
                    /\ size_bar = [h \in Handles |-> {}]
                    /\ result = [t \in Threads |-> {}]
    BY DEF WasmInit, Init, choice_bar, size_bar, Unparsed
  <2>2. QED
    BY <2>1, Zenon DEF Session!Init, choice_bar, size_bar
<1>2. WasmInv /\ [WasmNext]_wasm_vars => [Session!Next]_(Session!vars)
  <2> SUFFICES ASSUME WasmInv, [WasmNext]_wasm_vars PROVE [Session!Next]_(Session!vars)
    OBVIOUS
  <2>1. SessionInv
    BY DEF WasmInv
  <2>2. ASSUME NEW t \in Threads, NEW h \in Handles, ParserNext(t, h)
        PROVE  [Session!Next]_(Session!vars)
    BY <2>1, <2>2, ParserStep
  <2>3. ASSUME UNCHANGED vars PROVE [Session!Next]_(Session!vars)
    BY <2>1, <2>3, SessionStep
  <2>4. QED
    BY <2>2, <2>3 DEF WasmNext, wasm_vars
<1>3. QED
  BY WasmInvariant, <1>1, <1>2, PTL DEF WasmSpec, ParserIsSession, Session!Spec
=============================================================================
