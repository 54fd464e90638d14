SPECIFICATION Spec
CONSTANTS
    t1 = t1
    t2 = t2
    h1 = h1
    zh = zh
    en = en
    NoFile = NoFile
    Absent = Absent
    DefaultSize <- MCDefaultSize
    Sizes <- MCSizes
    Layouts <- MCLayouts
    Languages <- MCLanguages
    Files <- MCFiles
    Threads = {t1, t2}
    Handles = {h1}
SYMMETRY MCSymmetry
INVARIANTS
    SessionConsistent
    AnswersFromSelection
    BestForFollowsStrategy
    ErrorIsOwn
PROPERTIES
    SessionSpec
