\* A mapping moves between two public addresses while another owner of the
\* registries takes both of them.
CONSTANTS
    k1 = k1  k2 = k2  s1 = s1  s2 = s2
    a1 = a1  a2 = a2  p1 = p1  p2 = p2  v1 = v1
    None = None
    Sock = {s1, s2}
    Addr = {a1, a2, p1, p2}
    Server = {v1}
    AddrOf <- AddrOfTwo
    Key = {k1}
    Binds <- BindsMoving
    Unscoped = {}
    NoProbe = {}
    Outer = {p1, p2}
    Resumer = {}
    EnumMayFail = FALSE
    Contested <- ContestedShared
    MaxVersion = 0
SPECIFICATION Spec
INVARIANTS RollbackRestores
