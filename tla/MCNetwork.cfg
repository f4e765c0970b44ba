\* Two names, a handle that reloads, a connection that carries a request; or two
\* connections that race for a name's place in the pool while one carries a request.
CONSTANTS
    Name = {n1, n2}
    Handle = {h1}
    Conn = {c1, c2}
    Second = {c2}
    NoConn = NoConn
    Req = {r1}
    MaxListens = 3
    PoolListens = 2
    MaxStaple = 2
SPECIFICATION MCSpec
INVARIANTS RegistriesAgree ServiceOfArrival
PROPERTIES LiveNotEvicted ClosedLeavesPool
CHECK_DEADLOCK FALSE
