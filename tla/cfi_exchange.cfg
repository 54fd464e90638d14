\* Every chapter marked and searched; every three of its texts and the bookmarks.
CONSTANTS
    Absent = Absent
    NaN = NaN
    Malformed = Malformed
    Chapters <- ChapterSet
    Bookmarks <- BookmarkSet
    MaxHeld = 3
SPECIFICATION Spec
INVARIANTS
    MarksReachTheirElements MarksInDocumentOrder MatchesNameTheirText
    HeldReadBack HeldAreOrdered RangesKeepTheirPoints
CHECK_DEADLOCK FALSE
