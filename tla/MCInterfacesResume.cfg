\* Concurrent resumes, interface changes and withdrawal; enumeration works.
CONSTANTS
    k1 = k1  k2 = k2  s1 = s1  s2 = s2
    a1 = a1  a2 = a2  p1 = p1  p2 = p2  v1 = v1
    None = None
    Sock = {s1, s2}
    Addr = {a1, a2}
    Server = {}
    AddrOf <- AddrOfTwo
    Key = {k1}
    Binds <- BindsResume
    Unscoped = {}
    NoProbe = {a2}
    Outer = {}
    Resumer = {r1, r2}
    EnumMayFail = FALSE
    Contested = {}
    MaxVersion = 2
SPECIFICATION FairSpec
INVARIANTS ResumeIsFresh
PROPERTIES MaintenanceCatchesUp
