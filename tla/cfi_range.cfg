\* A search result, resolved.
CONSTANTS
    Absent = Absent
    NaN = NaN
    Malformed = Malformed
    Chapters <- ChapterSet
    Bookmarks <- BookmarkSet
    MaxHeld = 1
SPECIFICATION Spec
INVARIANT RangesResolveToTheirPoints
CHECK_DEADLOCK FALSE
