\* One parser and one generator, every sequence of calls.
CONSTANTS
    js = js
    p1 = p1
    zh = zh
    en = en
    NoFile = NoFile
    Absent = Absent
    DefaultSize = 1024
    Sizes = {0, 512}
    Layouts <- MCLayouts
    Languages <- MCLanguages
    Files <- MCFiles
    Threads = {js}
    Handles = {p1}
    MaxCalls = 2
SPECIFICATION WasmSpec
INVARIANTS
    WasmConsistent
PROPERTY ParserIsSession
