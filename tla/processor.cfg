SPECIFICATION Spec
CONSTANTS
    Decoded <- MCDecoded
    Cut <- MCCut
    SegmentEndsWith <- MCSegmentEndsWith
    GuessedType <- MCGuessedType
    Aliases <- MCAliases
    Publications <- MCPublications
    ChapterPaths <- MCChapterPaths
    Chapters <- MCChapters
    Options <- MCOptions
    SourceLengths = {0, 1, 5}
    ObfuscationLength = 4
    KeyLength = 3
    BufferLength = 3
    Plain = Plain
    Readable <- MCReadable
    SearchOptions <- MCSearchOptions
    DefaultPerChapter = 2
    DefaultTotal = 5
CHECK_DEADLOCK FALSE
INVARIANTS
    StatsAddUp
    ReferencesBecomeData
    StylesheetsPackaged
    SuccessIsComplete
    FailureHasACause
    FirstHitsFound
    OpensAtBody
PROPERTIES
    OperationsEnd
