\* Two interface addresses and another owner of the registries compete for
\* sockets and addresses, and for the two public addresses between which a
\* mapping moves; an interface may appear or vanish meanwhile.
CONSTANTS
    k1 = k1  k2 = k2  s1 = s1  s2 = s2
    a1 = a1  a2 = a2  p1 = p1  p2 = p2  v1 = v1
    None = None
    Sock = {s1, s2}
    Addr = {a1, a2, p1, p2}
    Server = {v1}
    AddrOf <- AddrOfTwo
    Key = {k1, k2}
    Binds <- BindsShared
    Unscoped = {a2}
    NoProbe = {a2}
    Outer = {p1, p2}
    Resumer = {}
    EnumMayFail = FALSE
    Contested <- ContestedShared
    MaxVersion = 1
SPECIFICATION Spec
INVARIANTS RegistriesExact
PROPERTIES ForeignPreserved
