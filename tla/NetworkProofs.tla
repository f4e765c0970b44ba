---------------------------- MODULE NetworkProofs ---------------------------
(***************************************************************************)
(* Network for any number of names, services, reloads and connections: the *)
(* two registries, the dispatch of requests and the pool.                  *)
(***************************************************************************)
EXTENDS Network, TLAPS

\* Who listens is alive, services are numbered once, and no two names share one.
ListenersInv ==
    /\ alive \subseteq 1 .. listens
    /\ \A n \in Name :
         listeners[n] # 0 =>
            /\ listeners[n] \in alive
            /\ under[listeners[n]] = n
            /\ \A m \in Name : listeners[m] = listeners[n] => m = n

\* A pooled connection is pooled under its own name and its serve task has not
\* ended; one that was dialled has a name.
PoolInv ==
    /\ \A n \in Name :
         pool[n] # NoConn =>
            conn[pool[n]].state \in {"stored", "serving", "closed"} /\ conn[pool[n]].name = n
    /\ \A c \in dialled : conn[c].state \in {"serving", "closed", "gone"}

\* A request belongs to a connection that has been served; what had been dropped
\* when its stream was accepted stays dropped, and the service it was looked up for
\* was not.
RequestInv ==
    \A r \in Req :
        request[r].step # "none" =>
            /\ conn[request[r].conn].state \in {"serving", "closed", "gone"}
            /\ request[r].past \subseteq (1 .. listens) \ alive
            /\ request[r].step \in {"reading", "handed"} =>
                  /\ request[r].service \in 1 .. listens
                  /\ request[r].service \notin request[r].past
                  /\ under[request[r].service] = conn[request[r].conn].name

IndInv == TypeOK /\ RegistriesAgree /\ ListenersInv /\ RequestInv /\ PoolInv

-----------------------------------------------------------------------------
\* A connection that has a name keeps it while its state moves on.
LEMMA ConnectionMoves ==
  ASSUME NEW c \in Conn, conn \in [Conn -> Connection], conn[c].state # "fresh",
         NEW s \in {"handshake", "stored", "serving", "closed", "gone"},
         conn' = [conn EXCEPT ![c].state = s]
  PROVE  /\ conn' \in [Conn -> Connection]
         /\ conn'[c].name = conn[c].name /\ conn[c].name \in Name /\ conn'[c].state = s
         /\ \A d \in Conn \ {c} : conn'[d] = conn[d]
<1>1. conn[c] \in [name : Name, state : {"handshake", "stored", "serving", "closed", "gone"}]
  BY DEF Connection, Fresh
<1>2. [conn[c] EXCEPT !.state = s] \in
         [name : Name, state : {"handshake", "stored", "serving", "closed", "gone"}]
  BY <1>1
<1>3. [conn[c] EXCEPT !.state = s] \in Connection
  BY <1>2 DEF Connection
<1>4. conn'[c] = [conn[c] EXCEPT !.state = s] /\ \A d \in Conn \ {c} : conn'[d] = conn[d]
  OBVIOUS
<1>5. conn' \in [Conn -> Connection]
  BY <1>3
<1> QED
  BY <1>1, <1>4, <1>5

\* A connection that is not fresh has a name.
LEMMA ConnectionParts ==
  ASSUME NEW c \in Conn, conn \in [Conn -> Connection], conn[c].state # "fresh"
  PROVE  conn[c] \in [name : Name, state : {"handshake", "stored", "serving", "closed", "gone"}]
  BY DEF Connection, Fresh

\* A request in progress has a connection, and knows its service once that has been
\* looked up.
LEMMA RequestParts ==
  ASSUME NEW r \in Req, request \in [Req -> RequestOf]
  PROVE  /\ request[r].step # "none" =>
               request[r].conn \in Conn /\ request[r].past \in SUBSET Service
         /\ request[r].step = "accepted" =>
               request[r] \in [step : {"accepted"}, conn : Conn, past : SUBSET Service]
         /\ request[r].step = "reading" =>
               request[r] \in [step : {"reading", "handed"}, conn : Conn,
                              past : SUBSET Service, service : Service]
<1>1. request[r] \in RequestOf
  OBVIOUS
<1>2. CASE request[r] = NoRequest
  BY <1>2 DEF NoRequest
<1>3. CASE request[r] \in [step : {"accepted"}, conn : Conn, past : SUBSET Service]
  BY <1>3
<1>4. CASE request[r] \in [step : {"reading", "handed"}, conn : Conn,
                            past : SUBSET Service, service : Service]
  BY <1>4
<1> QED
  BY <1>1, <1>2, <1>3, <1>4 DEF RequestOf

\* Every step keeps the types.
LEMMA TypeStep == IndInv /\ [Next]_vars => TypeOK'
<1> SUFFICES ASSUME IndInv, [Next]_vars PROVE TypeOK'
  OBVIOUS
<1> USE NetworkAssumption DEF IndInv, TypeOK, Service, Registration, Nobody, Foreign,
      Connection, Fresh,
      registered, connected, requestless
<1>1. ASSUME NEW n \in Name, NEW staple \in 1 .. disk[n], Listen(n, staple) PROVE TypeOK'
  BY <1>1 DEF Listen
<1>2. ASSUME NEW n \in Name, DropListening(n) PROVE TypeOK'
  <2>1. registry' \in [Name -> Registration] /\ listeners' \in [Name -> 0 .. MaxListens]
    BY <1>2 DEF DropListening
  <2>2. alive' \subseteq Service /\ UNCHANGED <<request, under, listens, disk, reload, connected>>
    BY <1>2 DEF DropListening
  <2> QED
    BY <2>1, <2>2
<1>3. ASSUME NEW n \in Name, ForeignRegisters(n) PROVE TypeOK'
  BY <1>3 DEF ForeignRegisters
<1>4. ASSUME NEW n \in Name, ForeignUnregisters(n) PROVE TypeOK'
  BY <1>4 DEF ForeignUnregisters
<1>5. ASSUME NEW n \in Name, Refresh(n) PROVE TypeOK'
  BY <1>5 DEF Refresh
<1>6. ASSUME NEW h \in Handle, NEW n \in Name, ReloadLoads(h, n) PROVE TypeOK'
  BY <1>6 DEF ReloadLoads
<1>7. ASSUME NEW c \in Conn, NEW n \in Name, Handshake(c, n) PROVE TypeOK'
  BY <1>7 DEF Handshake
<1>8. ASSUME NEW c \in Conn, NEW n \in Name, Connect(c, n) PROVE TypeOK'
  BY <1>8 DEF Connect
<1>9. ASSUME NEW h \in Handle, ReplaceStaple(h) PROVE TypeOK'
  BY <1>9 DEF ReplaceStaple, RegistriesAgree
<1>10. ASSUME NEW h \in Handle, ReloadEnds(h) PROVE TypeOK'
  BY <1>10 DEF ReloadEnds
<1>11. ASSUME NEW c \in Conn, AcceptStores(c) PROVE TypeOK'
  <2>1. conn' \in [Conn -> Connection] /\ conn[c].name \in Name
    BY <1>11, ConnectionMoves DEF AcceptStores
  <2>2. \A n \in Name : pool'[n] \in {pool[n], c}
    BY <1>11, <2>1 DEF AcceptStores
  <2>3. pool' = [n \in Name |-> pool'[n]]
    BY <1>11 DEF AcceptStores
  <2>4. pool' \in [Name -> Conn \cup {NoConn}]
    BY <2>2, <2>3
  <2> QED
    BY <1>11, <2>1, <2>4 DEF AcceptStores
<1>12. ASSUME NEW c \in Conn, AcceptFails(c) PROVE TypeOK'
  <2>1. conn' \in [Conn -> Connection] /\ conn[c].name \in Name
    BY <1>12, ConnectionMoves DEF AcceptFails
  <2>2. pool' \in [Name -> Conn \cup {NoConn}]
    BY <1>12, <2>1 DEF AcceptFails
  <2> QED
    BY <1>12, <2>1, <2>2 DEF AcceptFails
<1>13. ASSUME NEW c \in Conn, ServeStarts(c) PROVE TypeOK'
  <2>1. conn' \in [Conn -> Connection] /\ conn[c].name \in Name
    BY <1>13, ConnectionMoves DEF ServeStarts
  <2>2. pool' \in [Name -> Conn \cup {NoConn}]
    BY <1>13, <2>1 DEF ServeStarts
  <2> QED
    BY <1>13, <2>1, <2>2 DEF ServeStarts
<1>14. ASSUME NEW c \in Conn, PoolStores(c) PROVE TypeOK'
  <2>1. conn[c] \in [name : Name, state : {"handshake", "stored", "serving", "closed", "gone"}]
    BY <1>14 DEF PoolStores, PoolInv
  <2>2. pool' \in [Name -> Conn \cup {NoConn}]
    BY <1>14, <2>1 DEF PoolStores
  <2> QED
    BY <1>14, <2>2 DEF PoolStores
<1>15. ASSUME NEW c \in Conn, NEW r \in Req, StreamAccepted(c, r) PROVE TypeOK'
  <2>1. request' \in [Req -> RequestOf]
    BY <1>15 DEF StreamAccepted, NoRequest, RequestOf
  <2> QED
    BY <1>15, <2>1 DEF StreamAccepted
<1>19. ASSUME NEW r \in Req, LookUp(r) PROVE TypeOK'
  <2>1. request' \in [Req -> RequestOf]
    <3>1. request[r] \in [step : {"accepted"}, conn : Conn, past : SUBSET Service]
      <4>1. request[r].step = "accepted" /\ request \in [Req -> RequestOf]
        BY <1>19 DEF LookUp
      <4> QED
        BY <4>1, RequestParts, Zenon
    <3>2. listeners[conn[request[r].conn].name] # 0 =>
             listeners[conn[request[r].conn].name] \in Service
      <4>1. conn[request[r].conn].state \in {"serving", "closed", "gone"}
        BY <3>1 DEF RequestInv
      <4>2. request[r].conn \in Conn
        BY <3>1
      <4>3. conn[request[r].conn].name \in Name
        BY <4>1, <4>2
      <4> QED
        BY <4>3
    <3>3. ASSUME NEW s \in Service, Goes(r, s) PROVE request' \in [Req -> RequestOf]
      <4>1. [step |-> "reading", conn |-> request[r].conn, past |-> request[r].past,
             service |-> s] \in RequestOf
        BY <3>1 DEF RequestOf
      <4> QED
        BY <3>3, <4>1 DEF Goes
    <3>4. NoRequest \in RequestOf
      BY DEF RequestOf
    <3> QED
      BY <1>19, <3>2, <3>3, <3>4 DEF LookUp
  <2> QED
    BY <1>19, <2>1 DEF LookUp, Goes
<1>20. ASSUME NEW r \in Req, HandOver(r) PROVE TypeOK'
  <2>1. request' \in [Req -> RequestOf]
    <3>1. request[r] \in [step : {"reading", "handed"}, conn : Conn,
                          past : SUBSET Service, service : Service]
      BY <1>20, RequestParts DEF HandOver, NoRequest
    <3>2. [request[r] EXCEPT !.step = "handed"] \in RequestOf
      BY <3>1 DEF RequestOf
    <3> QED
      BY <1>20, <3>2 DEF HandOver
  <2> QED
    BY <1>20, <2>1 DEF HandOver
<1>21. ASSUME NEW r \in Req, RequestEnds(r) PROVE TypeOK'
  <2>1. request' \in [Req -> RequestOf]
    BY <1>21 DEF RequestEnds, NoRequest, RequestOf
  <2> QED
    BY <1>21, <2>1 DEF RequestEnds
<1>16. ASSUME NEW c \in Conn, Closes(c) PROVE TypeOK'
  <2>1. conn' \in [Conn -> Connection] /\ conn[c].name \in Name
    BY <1>16, ConnectionMoves DEF Closes
  <2>2. pool' \in [Name -> Conn \cup {NoConn}]
    BY <1>16, <2>1 DEF Closes
  <2> QED
    BY <1>16, <2>1, <2>2 DEF Closes
<1>17. ASSUME NEW c \in Conn, ServeEnds(c) PROVE TypeOK'
  <2>1. conn' \in [Conn -> Connection] /\ conn[c].name \in Name
    BY <1>17, ConnectionMoves DEF ServeEnds
  <2>2. pool' \in [Name -> Conn \cup {NoConn}]
    BY <1>17, <2>1 DEF ServeEnds
  <2> QED
    BY <1>17, <2>1, <2>2 DEF ServeEnds
<1>18. CASE UNCHANGED vars
  BY <1>18 DEF vars
<1> QED
  BY <1>1, <1>2, <1>3, <1>4, <1>5, <1>6, <1>7, <1>8, <1>9, <1>10, <1>11, <1>12, <1>13,
       <1>14, <1>15, <1>16, <1>17, <1>18, <1>19, <1>20, <1>21 DEF Next

\* Both registries are written together, and a reload only where both have the name.
LEMMA RegistriesStep == IndInv /\ [Next]_vars => RegistriesAgree'
<1> SUFFICES ASSUME IndInv, [Next]_vars PROVE RegistriesAgree'
  OBVIOUS
<1> USE NetworkAssumption DEF IndInv, TypeOK, Service, Registration, Nobody, Foreign,
      RegistriesAgree, registered, connected, requestless
<1>1. ASSUME NEW n \in Name, NEW staple \in 1 .. disk[n], Listen(n, staple) PROVE RegistriesAgree'
  BY <1>1 DEF Listen
<1>2. ASSUME NEW n \in Name, DropListening(n) PROVE RegistriesAgree'
  BY <1>2 DEF DropListening
<1>3. ASSUME NEW n \in Name, ForeignRegisters(n) PROVE RegistriesAgree'
  BY <1>3 DEF ForeignRegisters
<1>4. ASSUME NEW n \in Name, ForeignUnregisters(n) PROVE RegistriesAgree'
  BY <1>4 DEF ForeignUnregisters
<1>5. ASSUME NEW n \in Name, Refresh(n) PROVE RegistriesAgree'
  BY <1>5 DEF Refresh
<1>6. ASSUME NEW h \in Handle, NEW n \in Name, ReloadLoads(h, n) PROVE RegistriesAgree'
  BY <1>6 DEF ReloadLoads
<1>7. ASSUME NEW c \in Conn, NEW n \in Name, Handshake(c, n) PROVE RegistriesAgree'
  BY <1>7 DEF Handshake
<1>8. ASSUME NEW c \in Conn, NEW n \in Name, Connect(c, n) PROVE RegistriesAgree'
  BY <1>8 DEF Connect
<1>9. ASSUME NEW h \in Handle, ReplaceStaple(h) PROVE RegistriesAgree'
  BY <1>9 DEF ReplaceStaple
<1>10. ASSUME NEW h \in Handle, ReloadEnds(h) PROVE RegistriesAgree'
  BY <1>10 DEF ReloadEnds
<1>11. ASSUME NEW c \in Conn, AcceptStores(c) PROVE RegistriesAgree'
  BY <1>11 DEF AcceptStores
<1>12. ASSUME NEW c \in Conn, AcceptFails(c) PROVE RegistriesAgree'
  BY <1>12 DEF AcceptFails
<1>13. ASSUME NEW c \in Conn, ServeStarts(c) PROVE RegistriesAgree'
  BY <1>13 DEF ServeStarts
<1>14. ASSUME NEW c \in Conn, PoolStores(c) PROVE RegistriesAgree'
  BY <1>14 DEF PoolStores
<1>15. ASSUME NEW c \in Conn, NEW r \in Req, StreamAccepted(c, r) PROVE RegistriesAgree'
  BY <1>15 DEF StreamAccepted
<1>19. ASSUME NEW r \in Req, LookUp(r) PROVE RegistriesAgree'
  BY <1>19 DEF LookUp, Goes
<1>20. ASSUME NEW r \in Req, HandOver(r) PROVE RegistriesAgree'
  BY <1>20 DEF HandOver
<1>21. ASSUME NEW r \in Req, RequestEnds(r) PROVE RegistriesAgree'
  BY <1>21 DEF RequestEnds
<1>16. ASSUME NEW c \in Conn, Closes(c) PROVE RegistriesAgree'
  BY <1>16 DEF Closes
<1>17. ASSUME NEW c \in Conn, ServeEnds(c) PROVE RegistriesAgree'
  BY <1>17 DEF ServeEnds
<1>18. CASE UNCHANGED vars
  BY <1>18 DEF vars
<1> QED
  BY <1>1, <1>2, <1>3, <1>4, <1>5, <1>6, <1>7, <1>8, <1>9, <1>10, <1>11, <1>12, <1>13,
       <1>14, <1>15, <1>16, <1>17, <1>18, <1>19, <1>20, <1>21 DEF Next

\* A service is dropped together with its name.
LEMMA ListenersStep == IndInv /\ [Next]_vars => ListenersInv'
<1> SUFFICES ASSUME IndInv, [Next]_vars PROVE ListenersInv'
  OBVIOUS
<1> USE NetworkAssumption DEF IndInv, TypeOK, Service, ListenersInv, registered, connected, requestless
<1>1. ASSUME NEW n \in Name, NEW staple \in 1 .. disk[n], Listen(n, staple) PROVE ListenersInv'
  BY <1>1 DEF Listen
<1>2. ASSUME NEW n \in Name, DropListening(n) PROVE ListenersInv'
  BY <1>2 DEF DropListening
<1>3. ASSUME NEW n \in Name, ForeignRegisters(n) PROVE ListenersInv'
  BY <1>3 DEF ForeignRegisters
<1>4. ASSUME NEW n \in Name, ForeignUnregisters(n) PROVE ListenersInv'
  BY <1>4 DEF ForeignUnregisters
<1>5. ASSUME NEW n \in Name, Refresh(n) PROVE ListenersInv'
  BY <1>5 DEF Refresh
<1>6. ASSUME NEW h \in Handle, NEW n \in Name, ReloadLoads(h, n) PROVE ListenersInv'
  BY <1>6 DEF ReloadLoads
<1>7. ASSUME NEW c \in Conn, NEW n \in Name, Handshake(c, n) PROVE ListenersInv'
  BY <1>7 DEF Handshake
<1>8. ASSUME NEW c \in Conn, NEW n \in Name, Connect(c, n) PROVE ListenersInv'
  BY <1>8 DEF Connect
<1>9. ASSUME NEW h \in Handle, ReplaceStaple(h) PROVE ListenersInv'
  BY <1>9 DEF ReplaceStaple
<1>10. ASSUME NEW h \in Handle, ReloadEnds(h) PROVE ListenersInv'
  BY <1>10 DEF ReloadEnds
<1>11. ASSUME NEW c \in Conn, AcceptStores(c) PROVE ListenersInv'
  BY <1>11 DEF AcceptStores
<1>12. ASSUME NEW c \in Conn, AcceptFails(c) PROVE ListenersInv'
  BY <1>12 DEF AcceptFails
<1>13. ASSUME NEW c \in Conn, ServeStarts(c) PROVE ListenersInv'
  BY <1>13 DEF ServeStarts
<1>14. ASSUME NEW c \in Conn, PoolStores(c) PROVE ListenersInv'
  BY <1>14 DEF PoolStores
<1>15. ASSUME NEW c \in Conn, NEW r \in Req, StreamAccepted(c, r) PROVE ListenersInv'
  BY <1>15 DEF StreamAccepted
<1>19. ASSUME NEW r \in Req, LookUp(r) PROVE ListenersInv'
  BY <1>19 DEF LookUp, Goes
<1>20. ASSUME NEW r \in Req, HandOver(r) PROVE ListenersInv'
  BY <1>20 DEF HandOver
<1>21. ASSUME NEW r \in Req, RequestEnds(r) PROVE ListenersInv'
  BY <1>21 DEF RequestEnds
<1>16. ASSUME NEW c \in Conn, Closes(c) PROVE ListenersInv'
  BY <1>16 DEF Closes
<1>17. ASSUME NEW c \in Conn, ServeEnds(c) PROVE ListenersInv'
  BY <1>17 DEF ServeEnds
<1>18. CASE UNCHANGED vars
  BY <1>18 DEF vars
<1> QED
  BY <1>1, <1>2, <1>3, <1>4, <1>5, <1>6, <1>7, <1>8, <1>9, <1>10, <1>11, <1>12, <1>13,
       <1>14, <1>15, <1>16, <1>17, <1>18, <1>19, <1>20, <1>21 DEF Next

\* A service that is looked up listens, so it was not among those dropped before,
\* and it is its name's.
LEMMA RequestStep == IndInv /\ [Next]_vars => RequestInv'
<1> SUFFICES ASSUME IndInv, [Next]_vars PROVE RequestInv'
  OBVIOUS
<1> USE NetworkAssumption DEF IndInv, TypeOK, Service, ListenersInv, RequestInv,
      Connection, Fresh, NoRequest, RequestOf, registered, connected, requestless
<1>1. ASSUME NEW n \in Name, NEW staple \in 1 .. disk[n], Listen(n, staple) PROVE RequestInv'
  BY <1>1 DEF Listen
<1>2. ASSUME NEW n \in Name, DropListening(n) PROVE RequestInv'
  BY <1>2 DEF DropListening
<1>3. ASSUME NEW n \in Name, ForeignRegisters(n) PROVE RequestInv'
  BY <1>3 DEF ForeignRegisters
<1>4. ASSUME NEW n \in Name, ForeignUnregisters(n) PROVE RequestInv'
  BY <1>4 DEF ForeignUnregisters
<1>5. ASSUME NEW n \in Name, Refresh(n) PROVE RequestInv'
  BY <1>5 DEF Refresh
<1>6. ASSUME NEW h \in Handle, NEW n \in Name, ReloadLoads(h, n) PROVE RequestInv'
  BY <1>6 DEF ReloadLoads
<1>7. ASSUME NEW c \in Conn, NEW n \in Name, Handshake(c, n) PROVE RequestInv'
  BY <1>7 DEF Handshake
<1>8. ASSUME NEW c \in Conn, NEW n \in Name, Connect(c, n) PROVE RequestInv'
  <2>1. \A r \in Req : request[r].step # "none" =>
            request[r].conn # c /\ request[r].conn \in Conn
    <3>1. conn[c].state = "fresh" /\ request \in [Req -> RequestOf]
      BY <1>8 DEF Connect
    <3>2. \A r \in Req : request[r].step # "none" => conn[request[r].conn].state # "fresh"
      OBVIOUS
    <3>3. \A r \in Req : request[r].step # "none" => request[r].conn \in Conn
      BY <3>1, RequestParts, Zenon
    <3> QED
      BY <3>1, <3>2, <3>3, Zenon
  <2>2. conn' = [conn EXCEPT ![c] = [name |-> n, state |-> "serving"]]
    BY <1>8 DEF Connect
  <2>3. UNCHANGED <<request, alive, under, listens>>
    BY <1>8 DEF Connect
  <2> QED
    BY <2>1, <2>2, <2>3
<1>9. ASSUME NEW h \in Handle, ReplaceStaple(h) PROVE RequestInv'
  BY <1>9 DEF ReplaceStaple
<1>10. ASSUME NEW h \in Handle, ReloadEnds(h) PROVE RequestInv'
  BY <1>10 DEF ReloadEnds
<1>11. ASSUME NEW c \in Conn, AcceptStores(c) PROVE RequestInv'
  BY <1>11 DEF AcceptStores
<1>12. ASSUME NEW c \in Conn, AcceptFails(c) PROVE RequestInv'
  BY <1>12 DEF AcceptFails
<1>13. ASSUME NEW c \in Conn, ServeStarts(c) PROVE RequestInv'
  BY <1>13 DEF ServeStarts
<1>14. ASSUME NEW c \in Conn, PoolStores(c) PROVE RequestInv'
  BY <1>14 DEF PoolStores
<1>15. ASSUME NEW c \in Conn, NEW r \in Req, StreamAccepted(c, r) PROVE RequestInv'
  BY <1>15 DEF StreamAccepted
<1>19. ASSUME NEW r \in Req, LookUp(r) PROVE RequestInv'
  <2>1. request[r] \in [step : {"accepted"}, conn : Conn, past : SUBSET Service]
    <3>1. request[r].step = "accepted" /\ request \in [Req -> RequestOf]
      BY <1>19 DEF LookUp
    <3> QED
      BY <3>1, RequestParts, Zenon
  <2> DEFINE n == conn[request[r].conn].name
  <2>2. n \in Name /\ UNCHANGED <<conn, alive, under, listens>>
    <3>1. UNCHANGED <<conn, alive, under, listens>>
      BY <1>19 DEF LookUp
    <3>2. request[r].conn \in Conn /\ conn[request[r].conn].state # "fresh"
      BY <2>1
    <3>3. conn[request[r].conn] \in
             [name : Name, state : {"handshake", "stored", "serving", "closed", "gone"}]
      BY <3>2, ConnectionParts, Zenon DEF TypeOK
    <3> QED
      BY <3>1, <3>3
  <2>3. \A q \in Req \ {r} : request'[q] = request[q]
    BY <1>19 DEF LookUp, Goes
  <2>4. CASE listeners[n] = 0
    BY <1>19, <2>2, <2>3, <2>4 DEF LookUp
  <2>5. CASE listeners[n] # 0
    <3>1. listeners[n] \in alive /\ listeners[n] \in 1 .. listens /\ under[listeners[n]] = n
      BY <2>2, <2>5
    <3>2. request'[r] = [step |-> "reading", conn |-> request[r].conn,
                         past |-> request[r].past, service |-> listeners[n]]
      BY <1>19, <2>5 DEF LookUp, Goes
    <3>8. request[r].step = "accepted"
      BY <2>1
    <3>9. request[r].past \subseteq (1 .. listens) \ alive
      BY <3>8, Zenon
    <3>3. listeners[n] \notin request[r].past /\ request[r].past \subseteq (1 .. listens) \ alive
      <4> HIDE DEF n
      <4> QED
        BY <3>1, <3>9, Zenon
    <3>4. \A q \in Req \ {r} : request[q].step # "none" =>
              /\ conn[request[q].conn].state \in {"serving", "closed", "gone"}
              /\ request[q].past \subseteq (1 .. listens) \ alive
              /\ request[q].step \in {"reading", "handed"} =>
                    /\ request[q].service \in 1 .. listens
                    /\ request[q].service \notin request[q].past
                    /\ under[request[q].service] = conn[request[q].conn].name
      OBVIOUS
    <3>5. conn[request[r].conn].state \in {"serving", "closed", "gone"}
      BY <2>1
    <3> HIDE DEF TypeOK, IndInv
    <3> QED
      BY <2>2, <2>3, <3>1, <3>2, <3>3, <3>4, <3>5
  <2> QED
    BY <2>4, <2>5
<1>20. ASSUME NEW r \in Req, HandOver(r) PROVE RequestInv'
  BY <1>20 DEF HandOver
<1>21. ASSUME NEW r \in Req, RequestEnds(r) PROVE RequestInv'
  BY <1>21 DEF RequestEnds
<1>16. ASSUME NEW c \in Conn, Closes(c) PROVE RequestInv'
  BY <1>16 DEF Closes
<1>17. ASSUME NEW c \in Conn, ServeEnds(c) PROVE RequestInv'
  BY <1>17 DEF ServeEnds
<1>18. CASE UNCHANGED vars
  BY <1>18 DEF vars
<1> QED
  BY <1>1, <1>2, <1>3, <1>4, <1>5, <1>6, <1>7, <1>8, <1>9, <1>10, <1>11, <1>12, <1>13,
       <1>14, <1>15, <1>16, <1>17, <1>18, <1>19, <1>20, <1>21 DEF Next

\* The pool stores a connection that is served, and is told before the task ends.
LEMMA PoolStep == IndInv /\ [Next]_vars => PoolInv'
<1> SUFFICES ASSUME IndInv, [Next]_vars PROVE PoolInv'
  OBVIOUS
<1> USE NetworkAssumption DEF IndInv, TypeOK, Service, PoolInv, Connection, Fresh,
      registered, connected, requestless
<1>1. ASSUME NEW n \in Name, NEW staple \in 1 .. disk[n], Listen(n, staple) PROVE PoolInv'
  BY <1>1 DEF Listen
<1>2. ASSUME NEW n \in Name, DropListening(n) PROVE PoolInv'
  BY <1>2 DEF DropListening
<1>3. ASSUME NEW n \in Name, ForeignRegisters(n) PROVE PoolInv'
  BY <1>3 DEF ForeignRegisters
<1>4. ASSUME NEW n \in Name, ForeignUnregisters(n) PROVE PoolInv'
  BY <1>4 DEF ForeignUnregisters
<1>5. ASSUME NEW n \in Name, Refresh(n) PROVE PoolInv'
  BY <1>5 DEF Refresh
<1>6. ASSUME NEW h \in Handle, NEW n \in Name, ReloadLoads(h, n) PROVE PoolInv'
  BY <1>6 DEF ReloadLoads
<1>7. ASSUME NEW c \in Conn, NEW n \in Name, Handshake(c, n) PROVE PoolInv'
  BY <1>7 DEF Handshake
<1>8. ASSUME NEW c \in Conn, NEW n \in Name, Connect(c, n) PROVE PoolInv'
  BY <1>8 DEF Connect
<1>9. ASSUME NEW h \in Handle, ReplaceStaple(h) PROVE PoolInv'
  BY <1>9 DEF ReplaceStaple
<1>10. ASSUME NEW h \in Handle, ReloadEnds(h) PROVE PoolInv'
  BY <1>10 DEF ReloadEnds
<1>11. ASSUME NEW c \in Conn, AcceptStores(c) PROVE PoolInv'
  <2>1. /\ conn'[c].name = conn[c].name /\ conn[c].name \in Name /\ conn'[c].state = "stored"
        /\ \A d \in Conn \ {c} : conn'[d] = conn[d]
    BY <1>11, ConnectionMoves DEF AcceptStores
  <2>2. \A n \in Name : pool'[n] = pool[n] \/ (pool'[n] = c /\ n = conn[c].name)
    <3>1. conn[c].name \in Name
      BY <2>1
    <3>2. \/ pool' = [pool EXCEPT ![conn[c].name] = c]
          \/ pool' = [pool EXCEPT ![conn[c].name] = IF @ = NoConn THEN c ELSE @]
      BY <1>11 DEF AcceptStores
    <3> QED
      BY <3>1, <3>2
  <2>3. UNCHANGED dialled /\ c \notin dialled
    BY <1>11 DEF AcceptStores
  <2>4. ASSUME NEW n \in Name, pool'[n] # NoConn
        PROVE  conn'[pool'[n]].state \in {"stored", "serving", "closed"} /\ conn'[pool'[n]].name = n
    <3>1. CASE pool'[n] = c /\ n = conn[c].name
      BY <2>1, <3>1
    <3>2. CASE pool'[n] = pool[n] /\ pool[n] # c
      BY <2>1, <2>4, <3>2
    <3>3. pool[n] # c
      <4>1. conn[c].state = "handshake" /\ c # NoConn
        BY <1>11 DEF AcceptStores
      <4>2. pool[n] # NoConn => conn[pool[n]].state \in {"stored", "serving", "closed"}
        OBVIOUS
      <4> QED
        BY <4>1, <4>2
    <3> QED
      BY <2>2, <3>1, <3>2, <3>3
  <2>5. \A d \in dialled' : conn'[d].state \in {"serving", "closed", "gone"}
    <3>1. \A d \in dialled : d \in Conn \ {c} /\ conn[d].state \in {"serving", "closed", "gone"}
      BY <2>3
    <3>2. \A d \in Conn \ {c} : conn'[d] = conn[d]
      BY <2>1
    <3> HIDE DEF IndInv
    <3> QED
      BY <2>3, <3>1, <3>2
  <2> QED
    BY <2>4, <2>5
<1>12. ASSUME NEW c \in Conn, AcceptFails(c) PROVE PoolInv'
  BY <1>12 DEF AcceptFails
<1>13. ASSUME NEW c \in Conn, ServeStarts(c) PROVE PoolInv'
  BY <1>13 DEF ServeStarts
<1>14. ASSUME NEW c \in Conn, PoolStores(c) PROVE PoolInv'
  <2>1. conn[c].state = "serving" => conn[c].name \in Name
    <3>1. conn \in [Conn -> Connection]
      BY DEF IndInv, TypeOK
    <3>2. conn[c].state = "serving" =>
             conn[c] \in [name : Name, state : {"handshake", "stored", "serving", "closed", "gone"}]
      BY <3>1, ConnectionParts
    <3> QED
      BY <3>2
  <2>2. \A n \in Name :
            pool'[n] = pool[n] \/
            (pool'[n] = c /\ n = conn[c].name /\ conn[c].state = "serving")
    <3>1. \/ pool' = pool
          \/ /\ conn[c].state = "serving"
             /\ \/ pool' = [pool EXCEPT ![conn[c].name] = c]
                \/ pool' = [pool EXCEPT ![conn[c].name] = IF @ = NoConn THEN c ELSE @]
      BY <1>14 DEF PoolStores
    <3>2. CASE pool' = pool
      BY <3>2
    <3>3. CASE conn[c].state = "serving" /\ pool' = [pool EXCEPT ![conn[c].name] = c]
      BY <2>1, <3>3
    <3>4. CASE /\ conn[c].state = "serving"
               /\ pool' = [pool EXCEPT ![conn[c].name] = IF @ = NoConn THEN c ELSE @]
      BY <2>1, <3>4
    <3> QED
      BY <3>1, <3>2, <3>3, <3>4
  <2> QED
    BY <1>14, <2>2 DEF PoolStores
<1>15. ASSUME NEW c \in Conn, NEW r \in Req, StreamAccepted(c, r) PROVE PoolInv'
  BY <1>15 DEF StreamAccepted
<1>19. ASSUME NEW r \in Req, LookUp(r) PROVE PoolInv'
  BY <1>19 DEF LookUp, Goes
<1>20. ASSUME NEW r \in Req, HandOver(r) PROVE PoolInv'
  BY <1>20 DEF HandOver
<1>21. ASSUME NEW r \in Req, RequestEnds(r) PROVE PoolInv'
  BY <1>21 DEF RequestEnds
<1>16. ASSUME NEW c \in Conn, Closes(c) PROVE PoolInv'
  BY <1>16 DEF Closes
<1>17. ASSUME NEW c \in Conn, ServeEnds(c) PROVE PoolInv'
  BY <1>17 DEF ServeEnds
<1>18. CASE UNCHANGED vars
  BY <1>18 DEF vars
<1> QED
  BY <1>1, <1>2, <1>3, <1>4, <1>5, <1>6, <1>7, <1>8, <1>9, <1>10, <1>11, <1>12, <1>13,
       <1>14, <1>15, <1>16, <1>17, <1>18, <1>19, <1>20, <1>21 DEF Next

-----------------------------------------------------------------------------
\* The invariant holds in every state, for any number of names and connections.
THEOREM Inductive == Spec => []IndInv
<1>1. Init => IndInv
  BY NetworkAssumption DEF Init, IndInv, TypeOK, RegistriesAgree, ListenersInv,
       RequestInv, PoolInv, NoRequest, RequestOf, Registration, Nobody, Foreign, Connection, Fresh, Service
<1>2. IndInv /\ [Next]_vars => IndInv'
  BY TypeStep, RegistriesStep, ListenersStep, RequestStep, PoolStep DEF IndInv
<1> QED
  BY <1>1, <1>2, PTL DEF Spec

\* The types of the network model (network.rs, network/connection.rs).
THEOREM TypeCorrect == Spec => []TypeOK
  BY Inductive, PTL DEF IndInv

\* A name has a TLS registration of this network exactly while it has a listener,
\* and with that listener's callback, whatever is listened to, dropped, reloaded or
\* registered by others in between (network.rs listen, ocsp reload).
THEOREM RegistriesCorrect == Spec => []RegistriesAgree
  BY Inductive, PTL DEF IndInv

\* A service is handed only requests of connections to its own name, and none whose
\* stream was accepted after its listening future had been dropped
\* (serve_connection, handle_request).
THEOREM DispatchCorrect == Spec => []ServiceOfArrival
<1>1. IndInv => ServiceOfArrival
  BY DEF IndInv, RequestInv, ServiceOfArrival
<1> QED
  BY <1>1, Inductive, PTL

\* A connection leaves the pool only for another one or because it has closed: the
\* end of an old connection does not evict its successor (remove_connection).
THEOREM PoolCorrect == Spec => LiveNotEvicted
<1> DEFINE Evicts ==
      \A n \in Name : (pool[n] # NoConn /\ pool'[n] = NoConn) => conn'[pool[n]].state \in {"closed", "gone"}
<1>1. IndInv /\ [Next]_vars => [Evicts]_vars
  <2> SUFFICES ASSUME IndInv, Next PROVE Evicts
    OBVIOUS
  <2> USE NetworkAssumption DEF IndInv, TypeOK, PoolInv, registered, connected, requestless
  <2>1. ASSUME NEW c \in Conn, AcceptStores(c) PROVE Evicts
    BY <2>1 DEF AcceptStores
  <2>2. ASSUME NEW c \in Conn, PoolStores(c) PROVE Evicts
    BY <2>2 DEF PoolStores
  <2>3. ASSUME NEW c \in Conn, Closes(c) PROVE Evicts
    BY <2>3 DEF Closes
  <2>4. ASSUME NEW c \in Conn, ServeEnds(c) PROVE Evicts
    BY <2>4 DEF ServeEnds
  <2>5. CASE pool' = pool
    BY <2>5
  <2> QED
    BY <2>1, <2>2, <2>3, <2>4, <2>5
       DEF Next, Listen, DropListening, ForeignRegisters, ForeignUnregisters, Refresh,
       ReloadLoads,
           Handshake, Connect, ReplaceStaple, ReloadEnds, AcceptFails, ServeStarts,
           StreamAccepted, LookUp, HandOver, RequestEnds
<1> QED
  BY <1>1, Inductive, PTL DEF Spec, LiveNotEvicted

=============================================================================
