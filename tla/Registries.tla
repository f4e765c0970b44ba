----------------------------- MODULE Registries -----------------------------
(***************************************************************************)
(* The three process-wide registries that dhttp shares with the QUIC       *)
(* stack: the Dock (bound address -> socket), the QuicProtocol table       *)
(* (endpoint -> socket that accepts it) and the AddressBook (endpoint ->   *)
(* socket that published it, and the NAT type of a bound address).  They   *)
(* live outside the repository; the operators say what                     *)
(* dhttp/src/network/interfaces.rs and its tests rely on.                  *)
(***************************************************************************)

CONSTANTS
    Sock,      \* identities of UDP sockets (an Arc pointer in the code)
    Addr,      \* socket addresses, local ones and public ones
    Server,    \* addresses of STUN servers
    AddrOf,    \* the local address of each socket
    None       \* absence of a socket, of an agent, of a mapping

ASSUME RegistriesAssumption ==
    /\ AddrOf \in [Sock -> Addr]
    /\ None \notin Sock
    /\ None \notin Server
    /\ None \notin Addr

Endpoint == [agent : Server \cup {None}, addr : Addr]

Direct(a) == [agent |-> None, addr |-> a]

Mediate(server, a) == [agent |-> server, addr |-> a]

NoEndpoint == [e \in Endpoint |-> None]

\* All endpoints a table attributes to socket s.
EndpointsOf(table, s) == {e \in Endpoint : table[e] = s}

\* QuicProtocol::unregister and AddressBook::remove_bound: every record whose
\* socket is bound to address a goes, whoever created it.
RemoveBound(table, a) ==
    [e \in Endpoint |->
        IF table[e] # None /\ AddrOf[table[e]] = a THEN None ELSE table[e]]

\* QuicProtocol::register and AddressBook::insert_* of a set of endpoints.
InsertAll(table, E, s) ==
    [e \in Endpoint |-> IF e \in E THEN s ELSE table[e]]

\* AddressBook::remove: by endpoint, whoever owns the record.
RemoveAll(table, E) ==
    [e \in Endpoint |-> IF e \in E THEN None ELSE table[e]]

\* Dock::remove: by socket identity; a socket that is not registered is left
\* alone, and so is a different socket registered for the same address.
DockRemove(dock, s) ==
    [a \in Addr |-> IF dock[a] = s THEN None ELSE dock[a]]

=============================================================================
