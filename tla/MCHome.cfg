\* Three concurrent saves of a profile and one load of it; every home with five
\* names; two writers of the settings and a resolution.
CONSTANTS
    Saver = {s1, s2, s3}
    Loader = {r1}
    Old = Old
    Nothing = Nothing
    Entries <- MCEntries
    Default <- MCDefault
    Spliced <- MCSpliced
    Size <- MCSize
    Strict <- MCDefault
    Editor = {e1, e2}
    Resolver = {q1}
    None = None
    NoDefault = NoDefault
    Broken = Broken
SPECIFICATION MCSpec
SYMMETRY MCSymmetry
INVARIANTS EndpointIsWhole NoMaterialDestroyed ResultIsTruthful
INVARIANTS DefaultIdentityHolds ListingsAgree
CHECK_DEADLOCK FALSE
