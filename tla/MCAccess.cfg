\* The store: two patterns that match one path, three rules, ties and steps back
\* of the wall clock, an evaluation between any commits.  Conditions of up to five
\* parts.  Every pattern automaton with two states, names of labels of up to two
\* bytes and of four bytes in all.
CONSTANTS
    file = file  files = files  images = images  all = all  named = named
    anonymous = anonymous  alice = alice
    Pattern = {files, images}
    Path = {file}
    Expr = {all, named}
    Request = {anonymous, alice}
    Query <- MCQuery
    Kind <- MCKind
    Covers <- MCCovers
    Value <- MCValue
    MaxLocations = 2
    MaxRules = 3
    MaxTime = 2
    MaxParts = 5
    Language = {"name", "path", "query", "token", "value"}
    RegexState = {"q1", "q2"}
    Start = "q1"
    MaxLabel = 2
    MaxTotal = 4
SPECIFICATION MCSpec
SYMMETRY MCSymmetry
INVARIANTS MemoryAgrees LatestAppendDecides AllowWasPossible
INVARIANTS StoredRulesRun WrittenRulesDecide VerdictIsRight
PROPERTIES MigrationPreserves
CHECK_DEADLOCK FALSE
