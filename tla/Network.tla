------------------------------ MODULE Network ------------------------------
(***************************************************************************)
(* The service registry and the connections of DhttpNetwork                *)
(* (dhttp/src/network.rs, network/connection.rs): listening under a name,  *)
(* dropping the listening future, reloading the OCSP staple of a           *)
(* registration, accepting connections, serving their streams by name, and *)
(* the connection pool that both directions share.                         *)
(*                                                                         *)
(* qconn's ServerRegistry and h3x's Pool are external: a map from names to *)
(* registrations, used by other code of the process as well, and a map     *)
(* from peers to connections that drops a connection reported unreusable.  *)
(* One peer is modelled, so a pool entry is named by the local name.       *)
(***************************************************************************)
EXTENDS Naturals

CONSTANTS
    Name,               \* local names
    Handle,             \* endpoint handles that may be reloaded
    Conn,               \* connections
    NoConn,
    Req,                \* requests in progress
    MaxListens, MaxStaple       \* bounds

ASSUME NetworkAssumption ==
    /\ NoConn \notin Conn
    /\ MaxListens \in Nat /\ MaxStaple \in Nat \ {0}

VARIABLES
    listeners,      \* name -> number of the listening service, 0 for none
    registry,       \* ServerRegistry: name -> registration
    alive,          \* services whose listening future has not been dropped
    under,          \* history: service -> the name it was registered under
    listens,        \* services numbered so far
    disk,           \* name -> staple stored in the profile
    reload,         \* handle -> reload in progress
    conn,           \* connection -> its name and state
    pool,           \* name -> pooled connection
    dialled,        \* outgoing connections the pool has not stored yet
    request         \* request -> its connection, its step and the service it goes to

vars ==
    <<listeners, registry, alive, under, listens, disk, reload, conn, pool, dialled, request>>

Service == 1 .. MaxListens

Nobody == [owner |-> "nobody"]
Foreign == [owner |-> "foreign"]
Registration ==
    {Nobody, Foreign} \cup
    [owner : {"dhttp"}, callback : Service, staple : 1 .. MaxStaple]

Fresh == [state |-> "fresh"]
Connection ==
    {Fresh} \cup
    [name : Name, state : {"handshake", "stored", "serving", "closed", "gone"}]

\* A stream of the peer: accepted, with the services that had been dropped by then
\* (history); its request being read for the service; and handed over to it.
NoRequest == [step |-> "none"]
RequestOf ==
    {NoRequest} \cup
    [step : {"accepted"}, conn : Conn, past : SUBSET Service] \cup
    [step : {"reading", "handed"}, conn : Conn, past : SUBSET Service, service : Service]

TypeOK ==
    /\ listeners \in [Name -> 0 .. MaxListens]
    /\ registry \in [Name -> Registration]
    /\ alive \subseteq Service
    /\ listens \in 0 .. MaxListens
    /\ disk \in [Name -> 1 .. MaxStaple]
    /\ reload \in [Handle -> [step : {"idle"}] \cup
                             [step : {"loaded"}, name : Name, staple : 1 .. MaxStaple]]
    /\ conn \in [Conn -> Connection]
    /\ pool \in [Name -> Conn \cup {NoConn}]
    /\ dialled \subseteq Conn
    /\ under \in [1 .. listens -> Name]
    /\ request \in [Req -> RequestOf]

\* DhttpNetwork::init
Init ==
    /\ listeners = [n \in Name |-> 0]
    /\ registry = [n \in Name |-> Nobody]
    /\ alive = {} /\ listens = 0
    /\ disk = [n \in Name |-> 1]
    /\ reload = [h \in Handle |-> [step |-> "idle"]]
    /\ conn = [c \in Conn |-> Fresh]
    /\ pool = [n \in Name |-> NoConn]
    /\ dialled = {}
    /\ under = [s \in {} |-> 0]
    /\ request = [r \in Req |-> NoRequest]

registered == <<listeners, registry, alive, under, listens>>
connected == <<conn, pool, dialled>>

-----------------------------------------------------------------------------
\* Listening.  The listeners lock covers the checks and the registration.

\* AlreadyListening and NameInUse otherwise.
Listen(n, staple) ==
    /\ listens < MaxListens
    /\ listeners[n] = 0
    /\ registry[n] = Nobody
    /\ LET service == listens + 1
       IN  /\ registry' = [registry EXCEPT ![n] =
                              [owner |-> "dhttp", callback |-> service, staple |-> staple]]
           /\ listeners' = [listeners EXCEPT ![n] = service]
           /\ alive' = alive \cup {service}
           /\ under' = [s \in 1 .. service |-> IF s = service THEN n ELSE under[s]]
           /\ listens' = service
    /\ UNCHANGED <<request, disk, reload, connected>>

\* The guard inside the listening future; it removes by name.
DropListening(n) ==
    /\ listeners[n] # 0
    /\ alive' = alive \ {listeners[n]}
    /\ listeners' = [listeners EXCEPT ![n] = 0]
    /\ registry' = [registry EXCEPT ![n] = Nobody]
    /\ UNCHANGED <<request, under, listens, disk, reload, connected>>

\* Other users of qconn in the process.
ForeignRegisters(n) ==
    /\ registry[n] = Nobody
    /\ registry' = [registry EXCEPT ![n] = Foreign]
    /\ UNCHANGED <<request, listeners, alive, under, listens, disk, reload, connected>>

ForeignUnregisters(n) ==
    /\ registry[n] = Foreign
    /\ registry' = [registry EXCEPT ![n] = Nobody]
    /\ UNCHANGED <<request, listeners, alive, under, listens, disk, reload, connected>>

-----------------------------------------------------------------------------
\* Reloading.

\* A refreshed staple is stored in the profile.
Refresh(n) ==
    /\ disk[n] < MaxStaple
    /\ disk' = [disk EXCEPT ![n] = @ + 1]
    /\ UNCHANGED <<request, registered, reload, connected>>

\* Endpoint::load, several awaits before the registration is looked at
ReloadLoads(h, n) ==
    /\ reload[h].step = "idle"
    /\ reload' = [reload EXCEPT ![h] =
                     [step |-> "loaded", name |-> n, staple |-> disk[n]]]
    /\ UNCHANGED <<request, registered, disk, connected>>

\* Mutant: the listener is not looked for once the credentials are loaded.
ReplaceStapleAlways(h) ==
    /\ reload[h].step = "loaded"
    /\ LET n == reload[h].name
       IN  registry' = [registry EXCEPT ![n] =
                           [owner |-> "dhttp", staple |-> reload[h].staple,
                            callback |-> IF @.owner = "dhttp" THEN @.callback ELSE 1]]
    /\ reload' = [reload EXCEPT ![h] = [step |-> "idle"]]
    /\ UNCHANGED <<request, listeners, alive, under, listens, disk, connected>>

\* replace_staple under the listeners lock: the registration keeps its callback.
ReplaceStaple(h) ==
    /\ reload[h].step = "loaded"
    /\ LET n == reload[h].name
       IN  registry' = IF listeners[n] # 0 /\ registry[n] # Nobody
                       THEN [registry EXCEPT ![n] =
                               [owner |-> "dhttp", staple |-> reload[h].staple,
                                callback |-> @.callback]]
                       ELSE registry
    /\ reload' = [reload EXCEPT ![h] = [step |-> "idle"]]
    /\ UNCHANGED <<request, listeners, alive, under, listens, disk, connected>>

\* Loading fails, the chain changed, the staple is not valid, or the caller
\* drops the future.
ReloadEnds(h) ==
    /\ reload[h].step = "loaded"
    /\ reload' = [reload EXCEPT ![h] = [step |-> "idle"]]
    /\ UNCHANGED <<request, registered, disk, connected>>

-----------------------------------------------------------------------------
\* Connections.

\* qconn hands a completed handshake to the callback registered for the name;
\* the listener may be dropped before the callback has run.
Handshake(c, n) ==
    /\ conn[c] = Fresh
    /\ registry[n].owner = "dhttp"
    /\ conn' = [conn EXCEPT ![c] = [name |-> n, state |-> "handshake"]]
    /\ UNCHANGED <<request, registered, disk, reload, pool, dialled>>

\* The callback stores the connection, then spawns serve_connection; the pool
\* takes the new connection or keeps the one it has.
AcceptStores(c) ==
    /\ conn[c].state = "handshake"
    /\ conn' = [conn EXCEPT ![c].state = "stored"]
    /\ pool' \in {[pool EXCEPT ![conn[c].name] = c],
                  [pool EXCEPT ![conn[c].name] = IF @ = NoConn THEN c ELSE @]}
    /\ UNCHANGED <<request, registered, disk, reload, dialled>>

\* HTTP/3 setup fails: the connection is neither stored nor served.
AcceptFails(c) ==
    /\ conn[c].state = "handshake"
    /\ conn' = [conn EXCEPT ![c].state = "gone"]
    /\ UNCHANGED <<request, registered, disk, reload, pool, dialled>>

ServeStarts(c) ==
    /\ conn[c].state = "stored"
    /\ conn' = [conn EXCEPT ![c].state = "serving"]
    /\ UNCHANGED <<request, registered, disk, reload, pool, dialled>>

\* An outgoing connection is served from connect on.  The pool asks for one when
\* it has none and is not waiting for one.
Connect(c, n) ==
    /\ conn[c] = Fresh
    /\ pool[n] = NoConn
    /\ \A d \in dialled : conn[d].name # n
    /\ conn' = [conn EXCEPT ![c] = [name |-> n, state |-> "serving"]]
    /\ dialled' = dialled \cup {c}
    /\ UNCHANGED <<request, registered, disk, reload, pool>>

\* The pool stores what connect returned, unless it ended meanwhile (its
\* unreusable callback has been called); an accepted connection may be kept.
PoolStores(c) ==
    /\ c \in dialled
    /\ dialled' = dialled \ {c}
    /\ IF conn[c].state = "serving"
         THEN pool' \in {[pool EXCEPT ![conn[c].name] = c],
                         [pool EXCEPT ![conn[c].name] = IF @ = NoConn THEN c ELSE @]}
         ELSE UNCHANGED pool
    /\ UNCHANGED <<request, registered, disk, reload, conn>>

\* The connection ends; the unreusable callback may tell the pool at once.
Closes(c) ==
    /\ conn[c].state = "serving"
    /\ conn' = [conn EXCEPT ![c].state = "closed"]
    /\ pool' \in {pool, [n \in Name |-> IF pool[n] = c THEN NoConn ELSE pool[n]]}
    /\ UNCHANGED <<request, registered, disk, reload, dialled>>

\* The serve task is between accept_bi and the look up of the service.
Accepting(c) == \E r \in Req : request[r].step = "accepted" /\ request[r].conn = c

\* Mutant: whatever the pool holds for the peer is removed.
ServeEndsByKey(c) ==
    /\ conn[c].state = "closed"
    /\ conn' = [conn EXCEPT ![c].state = "gone"]
    /\ pool' = [pool EXCEPT ![conn[c].name] = NoConn]
    /\ UNCHANGED <<request, registered, disk, reload, dialled>>

\* Mutant: the pool is not told.
ServeEndsSilently(c) ==
    /\ conn[c].state = "closed"
    /\ conn' = [conn EXCEPT ![c].state = "gone"]
    /\ UNCHANGED <<request, registered, disk, reload, pool, dialled>>

\* The end of serve_connection: remove_connection.
ServeEnds(c) ==
    /\ conn[c].state = "closed"
    /\ ~Accepting(c)
    /\ conn' = [conn EXCEPT ![c].state = "gone"]
    /\ pool' = [pool EXCEPT ![conn[c].name] = IF @ = c THEN NoConn ELSE @]
    /\ UNCHANGED <<request, registered, disk, reload, dialled>>

-----------------------------------------------------------------------------
\* Requests.

requestless == <<registered, disk, reload, connected>>

\* serve_connection accepts a stream of the peer, one after the other.
StreamAccepted(c, r) ==
    /\ conn[c].state = "serving" /\ ~Accepting(c)
    /\ request[r] = NoRequest
    /\ request' = [request EXCEPT ![r] =
                      [step |-> "accepted", conn |-> c, past |-> (1 .. listens) \ alive]]
    /\ UNCHANGED requestless

Goes(r, service) ==
    request' = [request EXCEPT ![r] = [step |-> "reading", conn |-> request[r].conn,
                                       past |-> request[r].past, service |-> service]]

\* Mutant: the service is the one that listened when the connection was accepted.
LookUpOfConnection(r) ==
    /\ request[r].step = "accepted"
    /\ \E s \in 1 .. listens : under[s] = conn[request[r].conn].name /\ Goes(r, s)
    /\ UNCHANGED requestless

\* The service that listens under the connection's name now is cloned for the
\* task that handles the request; without one the stream is rejected.
LookUp(r) ==
    /\ request[r].step = "accepted"
    /\ LET service == listeners[conn[request[r].conn].name]
       IN  IF service = 0 THEN request' = [request EXCEPT ![r] = NoRequest]
           ELSE Goes(r, service)
    /\ UNCHANGED requestless

\* handle_request has read the request and the service is ready.  It is a clone:
\* whether its name still listens is not looked at again.
HandOver(r) ==
    /\ request[r].step = "reading"
    /\ request' = [request EXCEPT ![r].step = "handed"]
    /\ UNCHANGED requestless

\* The request cannot be read, names another host or is refused by the service;
\* or its response has been written or has failed.
RequestEnds(r) ==
    /\ request[r].step \in {"reading", "handed"}
    /\ request' = [request EXCEPT ![r] = NoRequest]
    /\ UNCHANGED requestless

-----------------------------------------------------------------------------
Next ==
    \/ \E n \in Name :
          \/ \E staple \in 1 .. disk[n] : Listen(n, staple)
          \/ DropListening(n)
          \/ ForeignRegisters(n) \/ ForeignUnregisters(n)
          \/ Refresh(n)
          \/ \E h \in Handle : ReloadLoads(h, n)
          \/ \E c \in Conn : Handshake(c, n) \/ Connect(c, n)
    \/ \E h \in Handle : ReplaceStaple(h) \/ ReloadEnds(h)
    \/ \E c \in Conn :
          \/ AcceptStores(c) \/ AcceptFails(c) \/ ServeStarts(c) \/ PoolStores(c)
          \/ Closes(c) \/ ServeEnds(c)
          \/ \E r \in Req : StreamAccepted(c, r)
    \/ \E r \in Req : LookUp(r) \/ HandOver(r) \/ RequestEnds(r)

Spec == Init /\ [][Next]_vars

\* Spawned tasks run; the accept callback is synchronous and finishes.
Fairness ==
    /\ \A c \in Conn : WF_vars(ServeStarts(c)) /\ WF_vars(ServeEnds(c))
    /\ \A r \in Req : WF_vars(LookUp(r))

FairSpec == Spec /\ Fairness

-----------------------------------------------------------------------------
\* Properties.

\* Whatever the order of listening, dropping and reloading, a name has a TLS
\* registration of this network exactly while it has a listener, with that
\* listener's callback: reload neither revives a dropped name nor takes over
\* the callback ("the application callback, listener lifetime ... remain owned
\* by Network"), and a dropped name can be listened to again.
RegistriesAgree ==
    \A n \in Name :
       IF listeners[n] = 0 THEN registry[n].owner # "dhttp"
       ELSE registry[n].owner = "dhttp" /\ registry[n].callback = listeners[n]

\* "Dropping it unregisters the name": although its connections live on and other
\* listeners may come and go under its name, a service is handed requests only of
\* connections to its own name, and none whose stream was accepted after its
\* listening future had been dropped.  (One accepted before may still reach it.)
ServiceOfArrival ==
    \A r \in Req :
       request[r].step = "handed" =>
          /\ under[request[r].service] = conn[request[r].conn].name
          /\ request[r].service \notin request[r].past

\* A pooled connection leaves the pool only for a newer one or because it has
\* closed: an old connection that ends does not evict its successor.
LiveNotEvicted ==
    [][\A n \in Name :
         (pool[n] # NoConn /\ pool'[n] = NoConn) => conn'[pool[n]].state \in {"closed", "gone"}]_vars

\* A connection that has closed does not stay in the pool.
ClosedLeavesPool ==
    \A c \in Conn, n \in Name :
       (conn[c].state = "closed" /\ pool[n] = c) ~> pool[n] # c

=============================================================================
