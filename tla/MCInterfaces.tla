---------------------------- MODULE MCInterfaces ----------------------------
(* Instances of Interfaces for TLC.                                         *)
EXTENDS Interfaces, TLC

CONSTANTS k1, k2, s1, s2, a1, a2, p1, p2, v1

\* Two interface addresses, of which a2 is a link-local one.  Another owner
\* claims endpoints that either mapping of a1 calls for, direct and mediated.
BindsShared == (k1 :> {a1, a2}) @@ (k2 :> {a2})
ContestedShared == {Direct(p1), Mediate(v1, p2)}

\* A socket for each of two addresses.
AddrOfTwo == (s1 :> a1) @@ (s2 :> a2)

\* One interface address with one socket, and another owner's socket.
BindsMoving == (k1 :> {a1})

\* One interface address, two sockets with different ports.
BindsResume == (k1 :> {a1, a2})
=============================================================================
