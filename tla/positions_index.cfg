SPECIFICATION Spec
CONSTANTS
    NoLength = NoLength
    Books <- MCBooks
    PageLengths <- MCPageLengths
    MaxItems = 3
CHECK_DEADLOCK FALSE
INVARIANTS
    GloballyNumbered
    PagesCoverEachItem
    LookupsAgree
