-------------------------- MODULE InterfacesProofs --------------------------
(***************************************************************************)
(* Interfaces for any number of interface addresses, sockets, STUN servers *)
(* and callers of resume(): the shared registries hold exactly what the    *)
(* bindings own, nobody else's record is taken, and resume is never stale. *)
(***************************************************************************)
EXTENDS Interfaces, TLAPS

Table == [Endpoint -> Sock \cup {None}]

\* A socket has one owner, its address belongs to nobody else, and no two
\* interface addresses share a binding: the operating system gives out an
\* address once.
OwnersInv ==
    /\ Mine \cap foreign = {}
    /\ torn \cap foreign = {}
    /\ \A s, t \in Mine \cup foreign \cup torn : AddrOf[s] = AddrOf[t] => s = t
    /\ \A j, k \in Bound : bindings[j] = bindings[k] => j = k

\* The Dock files a socket under the address it is bound to.
DockInv ==
    \A a \in Addr : dock[a] # None => AddrOf[dock[a]] = a

\* Outer mappings exist only once the heartbeat runs.
ProbeInv ==
    \A k \in Key : probe[k].phase # "heartbeat" => probe[k].mappings = NoMapping

\* What the holder of the mutex has still to do, stage by stage.
StageInv ==
    /\ stage \in {"remove", "nat"} => todo \subseteq Bound
    /\ stage = "bind" => todo \cap Bound = {}
    /\ polling # None => stage = "nat" /\ holder = "poll" /\ polling \in Bound
    /\ work.phase # "idle" => polling # None
    /\ holder = "stop" => stage = "scan" \/ (stage = "remove" /\ todo = Bound)
    /\ stopped => stage = "free"

\* Nobody has seen the future, and a caller that holds the mutex knows it.
FreshInv ==
    /\ seen <= version
    /\ \A r \in Resumer : since[r] <= version
    /\ \A r \in Resumer : holder = r => caller[r] = "locked"

\* What apply_outer_mappings has still to do for the binding of k.
WorkOf(k) == IF polling = k THEN work ELSE NoWork

\* What the address book should say of a socket besides its direct binding while
\* the update w of mappings m is under way: additions come before removals, and a
\* roll back takes the additions out again.
BookOf(bound, nat, m, w) ==
    LET old == PublishedEndpoints(bound, nat, m)
        new == PublishedEndpoints(bound, nat, w.refreshed)
    IN  IF w.phase = "apply"
          THEN (old \cup ((new \ old) \ w.publish)) \ ((old \ new) \ w.withdraw)
        ELSE IF w.phase = "rollback" THEN old \cup w.withdraw
        ELSE old

\* What the QUIC table should say of it.
QuicOf(bound, m, lost, w) ==
    IF w.phase = "apply" THEN RegisteredEndpoints(bound, w.refreshed) \ w.register
    ELSE IF w.phase = "rollback"
      THEN (RegisteredEndpoints(bound, m) \ w.register) \ lost
    ELSE RegisteredEndpoints(bound, m) \ lost

\* The address book b, the QUIC table q and the Dock d say of socket s what its
\* mappings and the update w under way call for; T are the torn sockets.
Matches(s, nat, m, lost, w, d, q, b, T) ==
    /\ EndpointsOf(b, s) =
         BookOf(AddrOf[s], nat, m, w)
           \cup (IF AddrOf[s] \in Unscoped THEN {} ELSE {Direct(AddrOf[s])})
    /\ s \notin T =>
         IF d[AddrOf[s]] = s THEN EndpointsOf(q, s) = QuicOf(AddrOf[s], m, lost, w)
         ELSE w.phase = "idle" /\ EndpointsOf(q, s) = {}

\* The registries at every moment, also in the middle of an update.
TablesInv ==
    \A k \in Bound :
      Matches(bindings[k], probe[k].nat, probe[k].mappings, probe[k].lost, WorkOf(k),
              dock, quic, book, torn)

\* How far an update has come: an endpoint is withdrawn only after everything is
\* registered and published, and what is to be done is part of what was planned.
Planned(bound, nat, m, lost, w) ==
    LET old == PublishedEndpoints(bound, nat, m)
        new == PublishedEndpoints(bound, nat, w.refreshed)
    IN  /\ w.phase = "apply" =>
             /\ w.register \subseteq RegisteredEndpoints(bound, w.refreshed)
             /\ w.publish \subseteq new \ old
             /\ w.withdraw \subseteq old \ new
             /\ w.register # {} \/ w.publish # {} => w.withdraw = old \ new
        /\ w.phase = "rollback" =>
             /\ w.register \subseteq RegisteredEndpoints(bound, m)
             /\ w.register \cap lost = {}
             /\ w.publish = {}
             /\ w.withdraw \subseteq new \ old

\* An update belongs to a binding in its heartbeat that is being polled; without
\* one there is no work.
WorkInv ==
    /\ work.phase = "idle" => work = NoWork
    /\ work.phase # "idle" =>
         /\ probe[polling].phase = "heartbeat" /\ ~probe[polling].measuring
         /\ Planned(AddrOf[bindings[polling]], probe[polling].nat,
                    probe[polling].mappings, probe[polling].lost, work)

IndInv ==
    /\ TypeOK /\ OwnersInv /\ DockInv /\ ProbeInv /\ StageInv /\ WorkInv
    /\ FreshInv /\ TablesInv /\ NoResidue /\ ResumeIsFresh

-----------------------------------------------------------------------------
\* The operators on tables.

\* A removal by bound address takes the records of that address's sockets and
\* of no other.
LEMMA RemoveBoundOf ==
    ASSUME NEW T \in Table, NEW a \in Addr
    PROVE  /\ RemoveBound(T, a) \in Table
           /\ \A s \in Sock : AddrOf[s] = a => EndpointsOf(RemoveBound(T, a), s) = {}
           /\ \A s \in Sock :
                AddrOf[s] # a => EndpointsOf(RemoveBound(T, a), s) = EndpointsOf(T, s)
<1>1. RemoveBound(T, a) \in Table
  BY DEF RemoveBound, Table
<1>2. \A s \in Sock, e \in Endpoint :
        RemoveBound(T, a)[e] = s <=> T[e] = s /\ AddrOf[s] # a
  BY RegistriesAssumption DEF RemoveBound, Table
<1> QED
  BY <1>1, <1>2 DEF EndpointsOf

\* An insertion takes over the given endpoints and leaves the others alone.
LEMMA InsertAllOf ==
    ASSUME NEW T \in Table, NEW E \in SUBSET Endpoint, NEW s \in Sock
    PROVE  /\ InsertAll(T, E, s) \in Table
           /\ EndpointsOf(InsertAll(T, E, s), s) = EndpointsOf(T, s) \cup E
           /\ \A t \in Sock \ {s} :
                EndpointsOf(InsertAll(T, E, s), t) = EndpointsOf(T, t) \ E
<1>1. InsertAll(T, E, s) \in Table
  BY DEF InsertAll, Table
<1>2. \A t \in Sock, e \in Endpoint :
        InsertAll(T, E, s)[e] = t <=> IF e \in E THEN s = t ELSE T[e] = t
  BY DEF InsertAll, Table
<1> QED
  BY <1>1, <1>2 DEF EndpointsOf

\* A removal by endpoint takes those endpoints from whoever owns them.
LEMMA RemoveAllOf ==
    ASSUME NEW T \in Table, NEW E \in SUBSET Endpoint
    PROVE  /\ RemoveAll(T, E) \in Table
           /\ \A t \in Sock : EndpointsOf(RemoveAll(T, E), t) = EndpointsOf(T, t) \ E
<1>1. RemoveAll(T, E) \in Table
  BY DEF RemoveAll, Table
<1>2. \A t \in Sock, e \in Endpoint : RemoveAll(T, E)[e] = t <=> e \notin E /\ T[e] = t
  BY RegistriesAssumption DEF RemoveAll, Table
<1> QED
  BY <1>1, <1>2 DEF EndpointsOf

\* A single insertion into a free place.
Inserted(T, U, e, s) == U \in Table /\ \A f \in Endpoint : U[f] = IF f = e THEN s ELSE T[f]

\* Inserting at a free endpoint adds it to the endpoints of its owner, and changes
\* those of nobody else.
LEMMA InsertOne ==
    ASSUME NEW T \in Table, NEW U, NEW place \in Endpoint, NEW owner \in Sock,
           T[place] = None, Inserted(T, U, place, owner)
    PROVE  /\ EndpointsOf(U, owner) = EndpointsOf(T, owner) \cup {place}
           /\ \A t \in Sock \ {owner} : EndpointsOf(U, t) = EndpointsOf(T, t)
<1>1. \A t \in Sock : T[place] # t
  BY RegistriesAssumption
<1> QED
  BY <1>1 DEF EndpointsOf, Inserted

\* Removing a single record takes it from its owner and nothing from anybody else.
LEMMA RemoveOne ==
    ASSUME NEW T \in Table, NEW place \in Endpoint, NEW owner \in Sock, T[place] = owner
    PROVE  /\ RemoveAll(T, {place}) \in Table
           /\ EndpointsOf(RemoveAll(T, {place}), owner) = EndpointsOf(T, owner) \ {place}
           /\ \A t \in Sock \ {owner} :
                EndpointsOf(RemoveAll(T, {place}), t) = EndpointsOf(T, t)
<1>1. \A t \in Sock \ {owner} : place \notin EndpointsOf(T, t)
  BY DEF EndpointsOf
<1>2. {place} \in SUBSET Endpoint
  OBVIOUS
<1>3. /\ RemoveAll(T, {place}) \in Table
      /\ \A t \in Sock :
           EndpointsOf(RemoveAll(T, {place}), t) = EndpointsOf(T, t) \ {place}
  BY <1>2, RemoveAllOf
<1> QED
  BY <1>1, <1>3

\* Direct endpoints and those of mappings are endpoints.
LEMMA EndpointTypes ==
    ASSUME NEW a \in Addr, NEW m \in Mapping, NEW nat
    PROVE  /\ Direct(a) \in Endpoint
           /\ RegisteredEndpoints(a, m) \in SUBSET Endpoint
           /\ PublishedEndpoints(a, nat, m) \in SUBSET Endpoint
<1>1. \A b \in Addr : Direct(b) \in Endpoint
  BY DEF Direct, Endpoint
<1>2. \A v \in Server : m[v] # None => m[v] \in Addr
  BY InterfacesAssumption DEF Mapping
<1>3. \A v \in Server : m[v] # None => Mediate(v, m[v]) \in Endpoint
  BY <1>2 DEF Mediate, Endpoint
<1> QED
  BY <1>1, <1>2, <1>3 DEF RegisteredEndpoints, PublishedEndpoints

\* No mapping, no endpoint but the direct one.
LEMMA NoMappingEndpoints ==
    ASSUME NEW a \in Addr, NEW nat
    PROVE  /\ NoMapping \in Mapping
           /\ RegisteredEndpoints(a, NoMapping) = {Direct(a)}
           /\ PublishedEndpoints(a, nat, NoMapping) = {}
<1>1. \A v \in Server : NoMapping[v] = None
  BY DEF NoMapping
<1>2. NoMapping \in Mapping
  BY DEF NoMapping, Mapping
<1> QED
  BY <1>1, <1>2 DEF RegisteredEndpoints, PublishedEndpoints

\* What is published never includes the direct endpoint, which has its own record.
LEMMA PublishedNotDirect ==
    ASSUME NEW a, NEW nat, NEW m
    PROVE  Direct(a) \notin PublishedEndpoints(a, nat, m)
BY DEF PublishedEndpoints

-----------------------------------------------------------------------------
\* Types.

\* A probe keeps its shape whichever field changes.
LEMMA ProbeTypes ==
    /\ \A phase \in {"absent", "initial", "classifying", "heartbeat"} :
         FreshProbe(phase) \in Probe
    /\ \A p \in Probe, servers \in SUBSET Server :
         [p EXCEPT !.phase = "classifying", !.servers = servers] \in Probe
    /\ \A p \in Probe, nat \in NatType \cup {NoNat} :
         [p EXCEPT !.phase = "heartbeat", !.nat = nat,
                   !.mappings = NoMapping, !.measuring = FALSE] \in Probe
    /\ \A p \in Probe, b \in BOOLEAN : [p EXCEPT !.measuring = b] \in Probe
    /\ \A p \in Probe, m \in Mapping : [p EXCEPT !.mappings = m, !.lost = {}] \in Probe
    /\ \A p \in Probe, E \in SUBSET Endpoint : [p EXCEPT !.lost = E] \in Probe
<1>1. NoMapping \in Mapping
  BY DEF NoMapping, Mapping
<1> QED
  BY <1>1 DEF Probe, FreshProbe, NoNat

\* The work of an update keeps its shape, and it has nothing but endpoints in it.
LEMMA WorkTypes ==
    /\ NoWork \in Work
    /\ \A m \in Mapping, E \in SUBSET Endpoint :
         [NoWork EXCEPT !.phase = "check", !.refreshed = m, !.register = E] \in Work
    /\ \A w \in Work, R, P, D \in SUBSET Endpoint :
         /\ [w EXCEPT !.phase = "apply", !.register = R, !.publish = P,
                      !.withdraw = D] \in Work
         /\ [w EXCEPT !.phase = "rollback", !.register = R, !.withdraw = D,
                      !.publish = P] \in Work
    /\ \A w \in Work, e \in Endpoint :
         /\ [w EXCEPT !.register = @ \ {e}] \in Work
         /\ [w EXCEPT !.publish = @ \ {e}] \in Work
         /\ [w EXCEPT !.withdraw = @ \ {e}] \in Work
<1>1. NoMapping \in Mapping
  BY DEF NoMapping, Mapping
<1> QED
  BY <1>1 DEF Work, NoWork

\* The Dock and the tables keep their types under the registry operators.
LEMMA DockRemoveOf ==
    ASSUME NEW d \in [Addr -> Sock \cup {None}], NEW s \in Sock
    PROVE  /\ DockRemove(d, s) \in [Addr -> Sock \cup {None}]
           /\ \A a \in Addr : DockRemove(d, s)[a] # None => DockRemove(d, s)[a] = d[a]
           /\ \A a \in Addr : DockRemove(d, s)[a] # s
           /\ \A a \in Addr : d[a] # s => DockRemove(d, s)[a] = d[a]
BY RegistriesAssumption DEF DockRemove

\* Every step keeps the types.
LEMMA TypeStep == TypeOK /\ StageInv /\ [Next]_vars => TypeOK'
<1> SUFFICES ASSUME TypeOK, StageInv, [Next]_vars PROVE TypeOK'
  OBVIOUS
<1> USE InterfacesAssumption, RegistriesAssumption
<1>t. quic \in Table /\ book \in Table
  BY DEF TypeOK, Table
<1>b. \A k \in Bound : bindings[k] \in Sock /\ AddrOf[bindings[k]] \in Addr
  BY DEF TypeOK, Bound
<1>a. \A s \in Sock : AddrOf[s] \in Addr /\ Direct(AddrOf[s]) \in Endpoint
  BY DEF Direct, Endpoint
<1>n. \A k \in Key : bindings[k] # None => k \in Bound
  BY DEF Bound
<1>1. CASE InterfacesChange
  BY <1>1 DEF InterfacesChange, TypeOK, registries, lock
<1>2. ASSUME NEW s \in Sock, ReceiverExit(s) PROVE TypeOK'
  <2>1. /\ DockRemove(dock, s) \in [Addr -> Sock \cup {None}]
        /\ RemoveBound(quic, AddrOf[s]) \in Table
    BY <1>t, <1>a, DockRemoveOf, RemoveBoundOf DEF TypeOK
  <2> QED
    BY <1>2, <2>1 DEF ReceiverExit, TypeOK, Table, env, ctx, lock, callers
<1>3. ASSUME NEW s \in Sock, ForeignAdd(s) PROVE TypeOK'
  BY <1>3, <1>a DEF ForeignAdd, TypeOK, env, ctx, lock, callers
<1>4. ASSUME NEW s \in Sock, ForeignLeave(s) PROVE TypeOK'
  <2>1. /\ DockRemove(dock, s) \in [Addr -> Sock \cup {None}]
        /\ RemoveBound(quic, AddrOf[s]) \in Table
        /\ RemoveBound(book, AddrOf[s]) \in Table
    BY <1>t, <1>a, DockRemoveOf, RemoveBoundOf DEF TypeOK
  <2> QED
    BY <1>4, <2>1 DEF ForeignLeave, TypeOK, Table, env, ctx, lock, callers
<1>5. ASSUME NEW s \in Sock, NEW e \in Contested, ForeignRegister(s, e) PROVE TypeOK'
  BY <1>5 DEF ForeignRegister, TypeOK, env, ctx, lock, callers
<1>6. ASSUME NEW s \in Sock, NEW e \in Contested, ForeignPublish(s, e) PROVE TypeOK'
  BY <1>6 DEF ForeignPublish, TypeOK, env, ctx, lock, callers
<1>7. CASE ScanCollect
  BY <1>7 DEF ScanCollect, Bound, Obsolete, TypeOK, env, registries, ctx, callers
<1>8. CASE ScanRemoved
  BY <1>8 DEF ScanRemoved, TypeOK, env, registries, ctx, callers
<1>9. CASE ScanBound
  BY <1>9 DEF ScanBound, Probing, Bound, TypeOK, env, registries, ctx, callers
<1>10. ASSUME NEW k \in Key, RemoveBinding(k) PROVE TypeOK'
  <2>1. bindings[k] \in Sock /\ AddrOf[bindings[k]] \in Addr
    BY <1>10, <1>b DEF RemoveBinding, StageInv
  <2>2. /\ DockRemove(dock, bindings[k]) \in [Addr -> Sock \cup {None}]
        /\ RemoveBound(quic, AddrOf[bindings[k]]) \in Table
        /\ RemoveBound(book, AddrOf[bindings[k]]) \in Table
    BY <1>t, <2>1, DockRemoveOf, RemoveBoundOf DEF TypeOK
  <2>3. /\ dock' \in [Addr -> Sock \cup {None}]
        /\ quic' \in Table /\ book' \in Table
        /\ natOf' \in [Addr -> NatType \cup {NoNat}]
        /\ finished' \subseteq Sock
    BY <1>10, <1>t, <2>1, <2>2 DEF RemoveBinding, TypeOK
  <2>4. probe' \in [Key -> Probe] /\ bindings' \in [Key -> Sock \cup {None}]
    BY <1>10, ProbeTypes DEF RemoveBinding, TypeOK
  <2> QED
    BY <1>10, <2>3, <2>4 DEF RemoveBinding, TypeOK, Table, env, callers
<1>11. ASSUME NEW k \in Key, BindFails(k) PROVE TypeOK'
  BY <1>11 DEF BindFails, TypeOK, env, registries, ctx, callers
<1>12. ASSUME NEW k \in Key, NEW s \in Sock, BindKey(k, s) PROVE TypeOK'
  <2> DEFINE bound == AddrOf[s]
             direct == Direct(bound)
             added == [dock EXCEPT ![bound] = s]
             registered == [quic EXCEPT ![direct] = s]
  <2>1. added \in [Addr -> Sock \cup {None}] /\ registered \in Table
    BY <1>a, <1>t DEF TypeOK, Table
  <2>2. /\ DockRemove(added, s) \in [Addr -> Sock \cup {None}]
        /\ RemoveBound(registered, bound) \in Table
    BY <2>1, <1>a, DockRemoveOf, RemoveBoundOf
  <2>3. [book EXCEPT ![direct] = s] \in Table
    BY <1>a, <1>t DEF Table
  <2>4. /\ dock' \in [Addr -> Sock \cup {None}]
        /\ quic' \in Table /\ book' \in Table
    BY <1>12, <1>t, <2>1, <2>2, <2>3 DEF BindKey
  <2>5. \A phase \in {"absent", "initial"} : [probe EXCEPT ![k] = FreshProbe(phase)] \in [Key -> Probe]
    BY ProbeTypes DEF TypeOK
  <2>6. probe' \in [Key -> Probe] /\ bindings' \in [Key -> Sock \cup {None}]
    BY <1>12, <2>5 DEF BindKey, TypeOK
  <2> QED
    BY <1>12, <2>4, <2>6 DEF BindKey, TypeOK, Table, env, callers
<1>13. CASE PollBegin
  BY <1>13 DEF PollBegin, TypeOK, env, registries, callers
<1>14. ASSUME NEW k \in Key, NatEnter(k) PROVE TypeOK'
  BY <1>14 DEF NatEnter, TypeOK, env, registries, ctx, callers
<1>15. CASE NatPending
  BY <1>15 DEF NatPending, TypeOK, env, registries, ctx, callers
<1>16. ASSUME NEW k \in Key, NEW servers \in SUBSET Server, Discovered(k, servers)
       PROVE TypeOK'
  <2>1. probe' \in [Key -> Probe]
    BY <1>16, ProbeTypes DEF Discovered, TypeOK
  <2> QED
    BY <1>16, <2>1 DEF Discovered, TypeOK, env, registries, lock, callers
<1>17. ASSUME NEW k \in Key, NEW nat \in NatType \cup {NoNat}, Classified(k, nat)
       PROVE TypeOK'
  <2>1. probe' \in [Key -> Probe]
    BY <1>17, ProbeTypes DEF Classified, TypeOK
  <2>2. natOf' \in [Addr -> NatType \cup {NoNat}]
    BY <1>17, <1>b DEF Classified, TypeOK, StageInv
  <2> QED
    BY <1>17, <2>1, <2>2 DEF Classified, TypeOK, env, lock, callers
<1>18. ASSUME NEW k \in Key, HeartbeatTick(k) PROVE TypeOK'
  <2>1. probe' \in [Key -> Probe]
    BY <1>18, ProbeTypes DEF HeartbeatTick, TypeOK
  <2> QED
    BY <1>18, <2>1 DEF HeartbeatTick, TypeOK, env, registries, lock, callers
<1>19. ASSUME NEW k \in Key, NEW m \in Mapping, MeasurementReady(k, m) PROVE TypeOK'
  <2>1. bindings[k] \in Sock /\ AddrOf[bindings[k]] \in Addr
    BY <1>19, <1>b, <1>n DEF MeasurementReady, StageInv
  <2>2. RegisteredEndpoints(AddrOf[bindings[k]], m) \in SUBSET Endpoint
    BY <2>1, EndpointTypes
  <2>3. work' \in Work /\ polling' \in Key \cup {None}
    <3>1. PICK E \in SUBSET Endpoint : E = RegisteredEndpoints(AddrOf[bindings[k]], m)
      BY <2>2
    <3>2. \/ work' = work /\ polling' = None
          \/ /\ work' = [NoWork EXCEPT !.phase = "check", !.refreshed = m, !.register = E]
             /\ polling' = polling
      BY <1>19, <3>1 DEF MeasurementReady
    <3>3. [NoWork EXCEPT !.phase = "check", !.refreshed = m, !.register = E] \in Work
      BY WorkTypes
    <3> QED
      BY <3>2, <3>3 DEF TypeOK
  <2>4. probe' \in [Key -> Probe]
    BY <1>19, ProbeTypes DEF MeasurementReady, TypeOK
  <2> QED
    BY <1>19, <2>3, <2>4 DEF MeasurementReady, TypeOK, env, registries, callers
<1>28. ASSUME NEW k \in Key, ApplyStep(k) PROVE TypeOK'
  <2>1. /\ work \in Work /\ probe \in [Key -> Probe] /\ probe[k].mappings \in Mapping
        /\ work.refreshed \in Mapping
    BY DEF TypeOK, Probe, Work
  <2>2. polling = k
    BY <1>28 DEF ApplyStep, Applying, MappingConflict, UnregisterAll, UpdateFails, ApplyEnd,
         CheckEndpoint, RegisterEndpoint, PublishEndpoint, WithdrawEndpoint, RestoreFails
  <2>3. bindings[k] \in Sock /\ AddrOf[bindings[k]] \in Addr
    BY <2>2, <1>b DEF StageInv
  <2>4. /\ \A q \in Mapping : RegisteredEndpoints(AddrOf[bindings[k]], q) \in SUBSET Endpoint
        /\ Additions(k, work.refreshed) \in SUBSET Endpoint
        /\ Removals(k, work.refreshed) \in SUBSET Endpoint
    BY <2>1, <2>3, EndpointTypes DEF Additions, Removals
  <2>5. /\ \A e \in Endpoint : RemoveAll(book, {e}) \in Table
        /\ RemoveBound(quic, AddrOf[bindings[k]]) \in Table
    BY <1>t, <2>3, RemoveAllOf, RemoveBoundOf
  <2>p. work.publish \in SUBSET Endpoint /\ probe[k].lost \in SUBSET Endpoint
    BY <2>1 DEF Work, Probe
  <2>6. CASE MappingConflict(k)
    BY <2>6, WorkTypes DEF MappingConflict, TypeOK, env, registries, ctx, callers
  <2>7. CASE UnregisterAll(k)
    <3>1. work' \in Work
      BY <2>7, <2>1, <2>4, WorkTypes DEF UnregisterAll
    <3> QED
      BY <2>7, <2>5, <3>1 DEF UnregisterAll, TypeOK, Table, env, ctx, callers
  <2>8. CASE UpdateFails(k)
    <3>1. work' \in Work
      <4>1. Additions(k, work.refreshed) \ work.publish \in SUBSET Endpoint
        BY <2>4
      <4>2. PICK R \in SUBSET Endpoint, D \in SUBSET Endpoint :
               /\ R = RegisteredEndpoints(AddrOf[bindings[k]], probe[k].mappings)
               /\ D = Additions(k, work.refreshed) \ work.publish
        BY <2>1, <2>4, <4>1
      <4>3. work' = [work EXCEPT !.phase = "rollback", !.register = R, !.withdraw = D,
                                 !.publish = {}]
        BY <2>8, <4>2 DEF UpdateFails
      <4> QED
        BY <2>1, <4>3, WorkTypes
    <3>2. probe' \in [Key -> Probe]
      BY <2>8, <2>1, ProbeTypes DEF UpdateFails
    <3> QED
      BY <2>8, <2>5, <3>1, <3>2 DEF UpdateFails, TypeOK, Table, env, callers
  <2>9. CASE ApplyEnd(k)
    <3>1. probe' \in [Key -> Probe]
      BY <2>9, <2>1, ProbeTypes DEF ApplyEnd
    <3> QED
      BY <2>9, <3>1, WorkTypes DEF ApplyEnd, TypeOK, env, registries, callers
  <2>10. ASSUME NEW e \in Endpoint, CheckEndpoint(k, e) PROVE TypeOK'
    BY <2>10, <2>1, WorkTypes DEF CheckEndpoint, TypeOK, env, registries, ctx, callers
  <2>11. ASSUME NEW e \in Endpoint, RegisterEndpoint(k, e) PROVE TypeOK'
    <3>1. work' \in Work
      BY <2>11, <2>1, WorkTypes DEF RegisterEndpoint
    <3> QED
      BY <2>11, <2>3, <3>1 DEF RegisterEndpoint, TypeOK, env, ctx, callers
  <2>12. ASSUME NEW e \in Endpoint, PublishEndpoint(k, e) PROVE TypeOK'
    <3>1. work' \in Work
      BY <2>12, <2>1, WorkTypes DEF PublishEndpoint
    <3> QED
      BY <2>12, <2>3, <3>1 DEF PublishEndpoint, TypeOK, env, ctx, callers
  <2>13. ASSUME NEW e \in Endpoint, WithdrawEndpoint(k, e) PROVE TypeOK'
    <3>1. work' \in Work
      BY <2>13, <2>1, WorkTypes DEF WithdrawEndpoint
    <3> QED
      BY <2>13, <2>5, <3>1 DEF WithdrawEndpoint, TypeOK, Table, env, ctx, callers
  <2>14. ASSUME NEW e \in Endpoint, RestoreFails(k, e) PROVE TypeOK'
    <3>1. work' \in Work
      BY <2>14, <2>1, WorkTypes DEF RestoreFails
    <3>2. probe' \in [Key -> Probe]
      <4>1. probe[k].lost \cup {e} \in SUBSET Endpoint
        BY <2>p
      <4> QED
        BY <2>14, <2>1, <4>1, ProbeTypes DEF RestoreFails
    <3> QED
      BY <2>14, <3>1, <3>2 DEF RestoreFails, TypeOK, env, registries, callers
  <2> QED
    BY <1>28, <2>6, <2>7, <2>8, <2>9, <2>10, <2>11, <2>12, <2>13, <2>14 DEF ApplyStep
<1>29. ASSUME NEW s \in Sock, TableForgets(s) PROVE TypeOK'
  <2>1. RemoveBound(quic, AddrOf[s]) \in Table
    BY <1>t, <1>a, RemoveBoundOf
  <2> QED
    BY <1>29, <2>1 DEF TableForgets, TypeOK, Table, env, ctx, lock, callers
<1>20. CASE PollEnd
  BY <1>20 DEF PollEnd, TypeOK, env, registries, ctx, callers
<1>21. CASE StopBegin
  BY <1>21 DEF StopBegin, TypeOK, env, registries, ctx, callers
<1>22. CASE StopEnd
  BY <1>22 DEF StopEnd, TypeOK, env, registries, callers
<1>23. ASSUME NEW r \in Resumer, ResumeCall(r) PROVE TypeOK'
  BY <1>23 DEF ResumeCall, TypeOK, env, registries, ctx, lock
<1>24. ASSUME NEW r \in Resumer, ResumeLock(r) PROVE TypeOK'
  BY <1>24 DEF ResumeLock, TypeOK, env, registries
<1>25. ASSUME NEW r \in Resumer, ResumeFails(r) PROVE TypeOK'
  BY <1>25 DEF ResumeFails, TypeOK, env, registries, ctx, lock
<1>26. ASSUME NEW r \in Resumer, ResumeEnd(r) PROVE TypeOK'
  <2>1. probe' \in [Key -> Probe]
    BY <1>26, ProbeTypes DEF ResumeEnd, TypeOK
  <2> QED
    BY <1>26, <2>1 DEF ResumeEnd, TypeOK, env, registries
<1>27. CASE UNCHANGED vars
  BY <1>27 DEF TypeOK, vars, env, registries, ctx, lock, callers
<1> QED
  BY <1>1, <1>2, <1>3, <1>4, <1>5, <1>6, <1>7, <1>8, <1>9, <1>10, <1>11, <1>12, <1>13,
     <1>14, <1>15, <1>16, <1>17, <1>18, <1>19, <1>20, <1>21, <1>22, <1>23, <1>24, <1>25,
     <1>26, <1>27, <1>28, <1>29 DEF Next, Others, Scan, NatStep, ResumeStep

-----------------------------------------------------------------------------
\* What binding and withdrawing do.

\* Only tracked sockets and other owners are in a registry, so a socket the
\* operating system hands out is in none.
LEMMA HeldIs ==
    ASSUME TypeOK, NoResidue, DockInv, NEW s \in Sock \ Held, Available(s)
    PROVE  /\ s \notin Mine \cup foreign \cup torn
           /\ EndpointsOf(book, s) = {} /\ EndpointsOf(quic, s) = {}
           /\ dock[AddrOf[s]] = None
           /\ \A a \in Addr : dock[a] # s
           /\ \A t \in Mine \cup foreign \cup torn : AddrOf[t] # AddrOf[s]
           /\ \A e \in Endpoint : quic[e] # None => AddrOf[quic[e]] # AddrOf[s]
<1> USE RegistriesAssumption
<1>1. s \notin Mine \cup foreign \cup torn /\ \A a \in Addr : dock[a] # s
  BY DEF Held
<1>2. \A t \in Mine \cup foreign \cup torn : AddrOf[t] # AddrOf[s]
  BY DEF Held, Available
<1>3. EndpointsOf(book, s) = {} /\ EndpointsOf(quic, s) = {}
  BY <1>1 DEF NoResidue
<1>4. dock[AddrOf[s]] = None
  <2>1. AddrOf[s] \in Addr
    OBVIOUS
  <2> SUFFICES ASSUME dock[AddrOf[s]] # None PROVE FALSE
    OBVIOUS
  <2>2. dock[AddrOf[s]] \in Held /\ AddrOf[dock[AddrOf[s]]] = AddrOf[s]
    BY <2>1 DEF TypeOK, DockInv, Held
  <2> QED
    BY <2>2 DEF Available
<1>5. ASSUME NEW e \in Endpoint, quic[e] # None PROVE AddrOf[quic[e]] # AddrOf[s]
  <2>1. quic[e] \in Sock /\ e \in EndpointsOf(quic, quic[e])
    BY <1>5 DEF TypeOK, EndpointsOf
  <2>2. quic[e] \in Mine \cup foreign \cup torn
    BY <2>1 DEF NoResidue
  <2> QED
    BY <2>2, <1>2
<1> QED
  BY <1>1, <1>2, <1>3, <1>4, <1>5

\* A withdrawn binding is one of ours, and it is the only one that goes.
LEMMA RemoveEffect ==
    ASSUME TypeOK, OwnersInv, StageInv, NEW k \in Key, RemoveBinding(k)
    PROVE  /\ k \in Bound /\ bindings[k] \in Sock /\ bindings[k] \in Mine
           /\ Bound' = Bound \ {k}
           /\ Mine' = Mine \ {bindings[k]}
           /\ \A j \in Bound' : bindings'[j] = bindings[j] /\ bindings[j] # bindings[k]
<1> USE RegistriesAssumption
<1>1. k \in Bound /\ bindings[k] \in Sock /\ bindings[k] \in Mine
  BY DEF RemoveBinding, StageInv, Bound, TypeOK, Mine
<1>2. bindings' = [bindings EXCEPT ![k] = None]
  BY DEF RemoveBinding
<1>3. Bound' = Bound \ {k}
  BY <1>2 DEF Bound, TypeOK
<1>4. \A j \in Bound' : bindings'[j] = bindings[j] /\ bindings[j] # bindings[k]
  BY <1>1, <1>2, <1>3 DEF OwnersInv, TypeOK, Bound
<1>5. Mine' = Mine \ {bindings[k]}
  <2>1. \A j \in Key : j # k /\ bindings[j] # None => bindings[j] # bindings[k]
    BY <1>1 DEF OwnersInv, Bound
  <2>2. \A j \in Key : bindings'[j] = IF j = k THEN None ELSE bindings[j]
    BY <1>2 DEF TypeOK
  <2> QED
    BY <2>1, <2>2, <1>1 DEF Mine
<1> QED
  BY <1>1, <1>3, <1>4, <1>5

\* register() either binds a new socket and keeps it, or puts everything back.
LEMMA BindEffect ==
    ASSUME TypeOK, DockInv, StageInv, NoResidue,
           NEW k \in Key, NEW s \in Sock, BindKey(k, s)
    PROVE  \/ UNCHANGED <<dock, quic, book, bindings, probe, natOf, foreign, torn>>
           \/ /\ k \notin Bound
              /\ Bound' = Bound \cup {k}
              /\ Mine' = Mine \cup {s}
              /\ bindings'[k] = s
              /\ \A j \in Bound : bindings'[j] = bindings[j] /\ bindings[j] # s
              /\ probe'[k].phase # "heartbeat"
              /\ probe'[k].mappings = NoMapping /\ probe'[k].lost = {}
              /\ \A j \in Key \ {k} : probe'[j] = probe[j]
              /\ dock' = [dock EXCEPT ![AddrOf[s]] = s]
              /\ quic[Direct(AddrOf[s])] = None
              /\ quic' = [quic EXCEPT ![Direct(AddrOf[s])] = s]
              /\ \/ AddrOf[s] \in Unscoped /\ book' = book
                 \/ /\ AddrOf[s] \notin Unscoped
                    /\ book[Direct(AddrOf[s])] = None
                    /\ book' = [book EXCEPT ![Direct(AddrOf[s])] = s]
              /\ UNCHANGED <<natOf, foreign, torn>>
<1> USE RegistriesAssumption
<1> DEFINE bound == AddrOf[s]
           direct == Direct(bound)
           added == [dock EXCEPT ![bound] = s]
           registered == [quic EXCEPT ![direct] = s]
<1>1. bound \in Addr /\ direct \in Endpoint
  BY DEF Direct, Endpoint
<1>2. s \in Sock \ Held /\ Available(s)
  BY DEF BindKey
<1>3. /\ s \notin Mine \cup foreign \cup torn
      /\ dock[bound] = None
      /\ \A a \in Addr : dock[a] # s
      /\ \A e \in Endpoint : quic[e] # None => AddrOf[quic[e]] # bound
  BY <1>2, HeldIs
<1>4. quic[direct] = None /\ k \notin Bound
  BY DEF BindKey, StageInv
<1>5. UNCHANGED <<natOf, foreign, torn>>
  BY DEF BindKey
<1>6. \/ /\ bound \notin Unscoped /\ book[direct] # None
         /\ dock' = DockRemove(added, s)
         /\ quic' = RemoveBound(registered, bound)
         /\ UNCHANGED <<book, bindings, probe>>
      \/ /\ bound \in Unscoped \/ book[direct] = None
         /\ dock' = added
         /\ quic' = registered
         /\ book' = IF bound \in Unscoped THEN book ELSE [book EXCEPT ![direct] = s]
         /\ bindings' = [bindings EXCEPT ![k] = s]
         /\ probe' = [probe EXCEPT ![k] =
               FreshProbe(IF bound \in NoProbe THEN "absent" ELSE "initial")]
  BY DEF BindKey
<1>7. ASSUME dock' = DockRemove(added, s), quic' = RemoveBound(registered, bound),
             UNCHANGED <<book, bindings, probe>>
      PROVE  UNCHANGED <<dock, quic, book, bindings, probe, natOf, foreign, torn>>
  <2>1. DockRemove(added, s) = dock
    BY <1>1, <1>3 DEF DockRemove, TypeOK
  <2>2. RemoveBound(registered, bound) = quic
    <3>1. \A e \in Endpoint : registered[e] = IF e = direct THEN s ELSE quic[e]
      BY <1>1 DEF TypeOK
    <3>2. \A e \in Endpoint : RemoveBound(registered, bound)[e] = quic[e]
      BY <1>3, <1>4, <3>1 DEF RemoveBound
    <3>3. RemoveBound(registered, bound) = [e \in Endpoint |-> RemoveBound(registered, bound)[e]]
      BY DEF RemoveBound
    <3>4. quic = [e \in Endpoint |-> quic[e]]
      BY DEF TypeOK
    <3> HIDE DEF registered, bound, direct
    <3> QED
      BY <3>2, <3>3, <3>4
  <2> QED
    BY <1>5, <1>7, <2>1, <2>2
<1>8. ASSUME bindings' = [bindings EXCEPT ![k] = s],
             probe' = [probe EXCEPT ![k] =
               FreshProbe(IF bound \in NoProbe THEN "absent" ELSE "initial")]
      PROVE  /\ Bound' = Bound \cup {k}
             /\ Mine' = Mine \cup {s}
             /\ bindings'[k] = s
             /\ \A j \in Bound : bindings'[j] = bindings[j] /\ bindings[j] # s
             /\ probe'[k].phase # "heartbeat"
             /\ probe'[k].mappings = NoMapping /\ probe'[k].lost = {}
             /\ \A j \in Key \ {k} : probe'[j] = probe[j]
  <2>1. \A j \in Key : bindings'[j] = IF j = k THEN s ELSE bindings[j]
    BY <1>8 DEF TypeOK
  <2>2. Bound' = Bound \cup {k} /\ Mine' = Mine \cup {s}
    BY <2>1, <1>4 DEF Bound, Mine
  <2>3. \A j \in Bound : bindings'[j] = bindings[j] /\ bindings[j] # s
    BY <2>1, <1>3, <1>4 DEF Bound, Mine
  <2>4. /\ probe'[k] = FreshProbe(IF bound \in NoProbe THEN "absent" ELSE "initial")
        /\ \A j \in Key \ {k} : probe'[j] = probe[j]
    BY <1>8 DEF TypeOK
  <2>5. /\ probe'[k].phase # "heartbeat"
        /\ probe'[k].mappings = NoMapping /\ probe'[k].lost = {}
    BY <2>4 DEF FreshProbe
  <2> QED
    BY <2>1, <2>2, <2>3, <2>4, <2>5
<1> QED
  BY <1>4, <1>5, <1>6, <1>7, <1>8

-----------------------------------------------------------------------------
\* The parts of the invariant that do not mention the tables.

\* Steps that bind and release nothing.
Idle ==
    \/ InterfacesChange \/ ScanCollect \/ ScanRemoved \/ ScanBound
    \/ \E k \in Key : BindFails(k)
    \/ NatStep \/ PollBegin \/ PollEnd \/ StopBegin \/ StopEnd
    \/ \E r \in Resumer : ResumeStep(r)
    \/ UNCHANGED vars

\* Those steps leave bindings, foreign and torn sockets and the Dock alone.
LEMMA IdleStep == Idle => UNCHANGED <<dock, bindings, foreign, torn>>
BY DEF Idle, InterfacesChange, ScanCollect, ScanRemoved, ScanBound, BindFails, NatStep,
       NatEnter, HeartbeatTick, NatPending, Discovered, Classified, MeasurementReady,
       ApplyStep, MappingConflict, UnregisterAll, UpdateFails, ApplyEnd, CheckEndpoint,
       RegisterEndpoint, PublishEndpoint, WithdrawEndpoint, RestoreFails,
       PollBegin, PollEnd, StopBegin, StopEnd, ResumeStep, ResumeCall, ResumeLock,
       ResumeFails, ResumeEnd, vars, registries, ctx

\* An update is made by the binding that is polled, and touches the lock's work,
\* one probe and the tables.
LEMMA ApplyIs ==
    ASSUME NEW k \in Key, ApplyStep(k)
    PROVE  /\ polling = k /\ work.phase # "idle"
           /\ UNCHANGED <<env, dock, natOf, finished, foreign, torn, stopped, snapshot, seen,
                          notified, bindings, holder, stage, todo, callers>>
           /\ polling' = k \/ (polling' = None /\ work' = NoWork)
BY DEF ApplyStep, Applying, MappingConflict, UnregisterAll, UpdateFails, ApplyEnd,
       CheckEndpoint, RegisterEndpoint, PublishEndpoint, WithdrawEndpoint, RestoreFails,
       registries, ctx

\* Every other step binds, releases or is somebody else's.
LEMMA NextIs ==
    [Next]_vars =>
        \/ Idle
        \/ \E k \in Key : RemoveBinding(k)
        \/ \E k \in Key, s \in Sock : BindKey(k, s)
        \/ \E s \in Sock :
             ReceiverExit(s) \/ TableForgets(s) \/ ForeignAdd(s) \/ ForeignLeave(s)
        \/ \E s \in Sock, e \in Contested : ForeignRegister(s, e) \/ ForeignPublish(s, e)
BY DEF Next, Others, Scan, Idle

\* Addresses and sockets keep one owner.
LEMMA OwnersStep == IndInv /\ [Next]_vars => OwnersInv'
<1> SUFFICES ASSUME IndInv, [Next]_vars PROVE OwnersInv'
  OBVIOUS
<1> USE RegistriesAssumption
<1>i. TypeOK /\ OwnersInv /\ DockInv /\ StageInv /\ NoResidue
  BY DEF IndInv
<1>1. ASSUME UNCHANGED <<bindings, foreign>>, torn' \subseteq torn \cup Mine
      PROVE  OwnersInv'
  <2>1. Mine' = Mine /\ Bound' = Bound
    BY <1>1 DEF Mine, Bound
  <2> QED
    BY <1>1, <1>i, <2>1 DEF OwnersInv
<1>2. ASSUME NEW k \in Key, RemoveBinding(k) PROVE OwnersInv'
  <2>1. UNCHANGED <<foreign, torn>>
    BY <1>2 DEF RemoveBinding
  <2>2. /\ Bound' = Bound \ {k} /\ Mine' = Mine \ {bindings[k]}
        /\ \A j \in Bound' : bindings'[j] = bindings[j]
    BY <1>i, <1>2, RemoveEffect
  <2> QED
    BY <1>i, <2>1, <2>2 DEF OwnersInv
<1>3. ASSUME NEW k \in Key, NEW s \in Sock, BindKey(k, s) PROVE OwnersInv'
  <2>1. /\ s \notin Mine \cup foreign \cup torn
        /\ \A t \in Mine \cup foreign \cup torn : AddrOf[t] # AddrOf[s]
    BY <1>i, <1>3, HeldIs DEF BindKey
  <2>2. ASSUME UNCHANGED <<foreign, torn>>, Bound' = Bound \cup {k}, Mine' = Mine \cup {s},
               bindings'[k] = s,
               \A j \in Bound : bindings'[j] = bindings[j] /\ bindings[j] # s
        PROVE OwnersInv'
    BY <1>i, <2>1, <2>2 DEF OwnersInv
  <2> QED
    BY <1>i, <1>1, <1>3, <2>2, BindEffect
<1>4. ASSUME NEW s \in Sock, ForeignAdd(s) PROVE OwnersInv'
  <2>1. /\ s \notin Mine \cup foreign \cup torn
        /\ \A t \in Mine \cup foreign \cup torn : AddrOf[t] # AddrOf[s]
    BY <1>i, <1>4, HeldIs DEF ForeignAdd
  <2>2. foreign' = foreign \cup {s} /\ bindings' = bindings /\ torn' = torn
    BY <1>4 DEF ForeignAdd, ctx
  <2>3. Mine' = Mine /\ Bound' = Bound
    BY <2>2 DEF Mine, Bound
  <2> QED
    BY <1>i, <2>1, <2>2, <2>3 DEF OwnersInv
<1>5. ASSUME NEW s \in Sock, ForeignLeave(s) PROVE OwnersInv'
  <2>1. foreign' \subseteq foreign /\ bindings' = bindings /\ torn' = torn
    BY <1>5 DEF ForeignLeave, ctx
  <2>2. Mine' = Mine /\ Bound' = Bound
    BY <2>1 DEF Mine, Bound
  <2> QED
    BY <1>i, <2>1, <2>2 DEF OwnersInv
<1>6. ASSUME NEW s \in Sock, ReceiverExit(s) PROVE OwnersInv'
  BY <1>1, <1>6 DEF ReceiverExit, ctx
<1>7. ASSUME NEW s \in Sock, NEW e \in Contested, ForeignRegister(s, e) \/ ForeignPublish(s, e)
      PROVE OwnersInv'
  BY <1>1, <1>7 DEF ForeignRegister, ForeignPublish, ctx
<1>8. ASSUME NEW s \in Sock, TableForgets(s) PROVE OwnersInv'
  BY <1>1, <1>8 DEF TableForgets, ctx
<1> QED
  BY <1>1, <1>2, <1>3, <1>4, <1>5, <1>6, <1>7, <1>8, NextIs, IdleStep

\* A socket is filed under its own address.
LEMMA DockStep == IndInv /\ [Next]_vars => DockInv'
<1> SUFFICES ASSUME IndInv, [Next]_vars PROVE DockInv'
  OBVIOUS
<1> USE RegistriesAssumption
<1>i. TypeOK /\ OwnersInv /\ DockInv /\ StageInv /\ NoResidue
  BY DEF IndInv
<1>1. ASSUME UNCHANGED dock PROVE DockInv'
  BY <1>1, <1>i DEF DockInv
<1>2. ASSUME NEW s \in Sock, dock' = DockRemove(dock, s) PROVE DockInv'
  <2>1. \A a \in Addr : dock'[a] # None => dock'[a] = dock[a]
    BY <1>i, <1>2, DockRemoveOf DEF TypeOK
  <2> QED
    BY <1>i, <2>1 DEF DockInv
<1>3. ASSUME NEW s \in Sock, dock' = [dock EXCEPT ![AddrOf[s]] = s] PROVE DockInv'
  <2>1. \A a \in Addr : dock'[a] = IF a = AddrOf[s] THEN s ELSE dock[a]
    BY <1>i, <1>3 DEF TypeOK
  <2> QED
    BY <1>i, <2>1 DEF DockInv
<1>4. ASSUME NEW k \in Key, RemoveBinding(k) PROVE DockInv'
  <2>1. bindings[k] \in Sock
    BY <1>i, <1>4, RemoveEffect
  <2> QED
    BY <1>1, <1>2, <1>4, <2>1 DEF RemoveBinding
<1>5. ASSUME NEW k \in Key, NEW s \in Sock, BindKey(k, s) PROVE DockInv'
  BY <1>i, <1>1, <1>3, <1>5, BindEffect
<1>6. ASSUME NEW s \in Sock, ReceiverExit(s) \/ ForeignAdd(s) \/ ForeignLeave(s) PROVE DockInv'
  BY <1>1, <1>2, <1>3, <1>6 DEF ReceiverExit, ForeignAdd, ForeignLeave
<1>7. ASSUME NEW s \in Sock, NEW e \in Contested, ForeignRegister(s, e) \/ ForeignPublish(s, e)
      PROVE DockInv'
  BY <1>1, <1>7 DEF ForeignRegister, ForeignPublish
<1>8. ASSUME NEW s \in Sock, TableForgets(s) PROVE DockInv'
  BY <1>1, <1>8 DEF TableForgets
<1> QED
  BY <1>1, <1>4, <1>5, <1>6, <1>7, <1>8, NextIs, IdleStep

\* Mappings come with the heartbeat and go with the binding.
LEMMA ProbeStep == IndInv /\ [Next]_vars => ProbeInv'
<1> SUFFICES ASSUME IndInv, [Next]_vars PROVE ProbeInv'
  OBVIOUS
<1>i. TypeOK /\ OwnersInv /\ DockInv /\ StageInv /\ NoResidue /\ ProbeInv /\ WorkInv
  BY DEF IndInv
<1>t. probe \in [Key -> Probe]
  BY <1>i DEF TypeOK
<1>1. ASSUME UNCHANGED probe PROVE ProbeInv'
  BY <1>1, <1>i DEF ProbeInv
<1>2. ASSUME NEW k \in Key, \A j \in Key \ {k} : probe'[j] = probe[j],
             probe'[k].phase # "heartbeat" => probe'[k].mappings = NoMapping
      PROVE  ProbeInv'
  BY <1>2, <1>i DEF ProbeInv
<1>3. ASSUME NEW k \in Key, RemoveBinding(k) PROVE ProbeInv'
  <2>1. probe' = [probe EXCEPT ![k] = FreshProbe("absent")]
    BY <1>3 DEF RemoveBinding
  <2>2. probe'[k].mappings = NoMapping /\ \A j \in Key \ {k} : probe'[j] = probe[j]
    BY <1>t, <2>1 DEF FreshProbe
  <2> QED
    BY <1>2, <2>2
<1>4. ASSUME NEW k \in Key, NEW s \in Sock, BindKey(k, s) PROVE ProbeInv'
  BY <1>i, <1>1, <1>2, <1>4, BindEffect
<1>5. ASSUME NEW k \in Key, NEW servers \in SUBSET Server, Discovered(k, servers)
      PROVE ProbeInv'
  <2>1. /\ probe' = [probe EXCEPT ![k].phase = "classifying", ![k].servers = servers]
        /\ probe[k].phase = "initial"
    BY <1>5 DEF Discovered
  <2>2. /\ probe'[k].mappings = probe[k].mappings
        /\ \A j \in Key \ {k} : probe'[j] = probe[j]
    BY <1>t, <2>1 DEF Probe
  <2>3. probe[k].mappings = NoMapping
    BY <1>i, <2>1 DEF ProbeInv
  <2> QED
    BY <1>2, <2>2, <2>3
<1>6. ASSUME NEW k \in Key, NEW nat \in NatType \cup {NoNat}, Classified(k, nat)
      PROVE ProbeInv'
  <2>1. probe' = [probe EXCEPT ![k].phase = "heartbeat", ![k].nat = nat,
                              ![k].mappings = NoMapping, ![k].measuring = FALSE]
    BY <1>6 DEF Classified
  <2>2. /\ probe'[k].mappings = NoMapping
        /\ \A j \in Key \ {k} : probe'[j] = probe[j]
    BY <1>t, <2>1 DEF Probe
  <2> QED
    BY <1>2, <2>2
<1>7. ASSUME NEW k \in Key, HeartbeatTick(k) PROVE ProbeInv'
  <2>1. probe' = [probe EXCEPT ![k].measuring = TRUE] /\ probe[k].phase = "heartbeat"
    BY <1>7 DEF HeartbeatTick
  <2>2. probe'[k].phase = "heartbeat" /\ \A j \in Key \ {k} : probe'[j] = probe[j]
    BY <1>t, <2>1 DEF Probe
  <2> QED
    BY <1>2, <2>2
<1>8. ASSUME NEW k \in Key, NEW m \in Mapping, MeasurementReady(k, m) PROVE ProbeInv'
  <2>1. probe' = [probe EXCEPT ![k].measuring = FALSE] /\ probe[k].phase = "heartbeat"
    BY <1>8 DEF MeasurementReady
  <2>2. probe'[k].phase = "heartbeat" /\ \A j \in Key \ {k} : probe'[j] = probe[j]
    BY <1>t, <2>1 DEF Probe
  <2> QED
    BY <1>2, <2>2
<1>14. ASSUME NEW k \in Key, ApplyStep(k) PROVE ProbeInv'
  <2>1. probe[k].phase = "heartbeat"
    BY <1>i, <1>14, ApplyIs DEF WorkInv
  <2>2. \/ probe' = probe
        \/ probe' = [probe EXCEPT ![k].lost = {}]
        \/ \E e \in Endpoint : probe' = [probe EXCEPT ![k].lost = @ \cup {e}]
        \/ probe' = [probe EXCEPT ![k].mappings = work.refreshed, ![k].lost = {}]
    BY <1>14 DEF ApplyStep, MappingConflict, UnregisterAll, UpdateFails, ApplyEnd, CheckEndpoint,
         RegisterEndpoint, PublishEndpoint, WithdrawEndpoint, RestoreFails, ctx
  <2>3. probe'[k].phase = "heartbeat" /\ \A j \in Key \ {k} : probe'[j] = probe[j]
    BY <1>t, <2>1, <2>2 DEF Probe
  <2> QED
    BY <1>2, <2>3
<1>9. ASSUME NEW r \in Resumer, ResumeEnd(r) PROVE ProbeInv'
  <2>1. probe' = [k \in Key |-> [probe[k] EXCEPT !.measuring = FALSE]]
    BY <1>9 DEF ResumeEnd
  <2>2. \A k \in Key : /\ probe'[k].phase = probe[k].phase
                       /\ probe'[k].mappings = probe[k].mappings
    BY <1>t, <2>1 DEF Probe
  <2> QED
    BY <1>i, <2>2 DEF ProbeInv
<1>10. ASSUME \/ InterfacesChange \/ ScanCollect \/ ScanRemoved \/ ScanBound
              \/ \E k \in Key : BindFails(k) \/ NatEnter(k)
              \/ NatPending \/ PollBegin \/ PollEnd \/ StopBegin \/ StopEnd
              \/ \E r \in Resumer : ResumeCall(r) \/ ResumeLock(r) \/ ResumeFails(r)
              \/ UNCHANGED vars
       PROVE ProbeInv'
  BY <1>1, <1>10 DEF InterfacesChange, ScanCollect, ScanRemoved, ScanBound, BindFails,
       NatEnter, NatPending, PollBegin, PollEnd, StopBegin, StopEnd, ResumeCall,
       ResumeLock, ResumeFails, vars, ctx
<1>11. CASE Idle
  BY <1>5, <1>6, <1>7, <1>8, <1>9, <1>10, <1>11, <1>14 DEF Idle, NatStep, ResumeStep
<1>12. ASSUME NEW s \in Sock,
              ReceiverExit(s) \/ TableForgets(s) \/ ForeignAdd(s) \/ ForeignLeave(s)
       PROVE ProbeInv'
  BY <1>1, <1>12 DEF ReceiverExit, TableForgets, ForeignAdd, ForeignLeave, ctx
<1>13. ASSUME NEW s \in Sock, NEW e \in Contested, ForeignRegister(s, e) \/ ForeignPublish(s, e)
      PROVE ProbeInv'
  BY <1>1, <1>13 DEF ForeignRegister, ForeignPublish, ctx
<1> QED
  BY <1>3, <1>4, <1>11, <1>12, <1>13, NextIs

\* The holder's work list stays true to the bindings, whoever else acts.
LEMMA StageStep == IndInv /\ [Next]_vars => StageInv'
<1> SUFFICES ASSUME IndInv, [Next]_vars PROVE StageInv'
  OBVIOUS
<1> USE InterfacesAssumption, RegistriesAssumption
<1>i. TypeOK /\ OwnersInv /\ DockInv /\ StageInv /\ NoResidue /\ WorkInv
  BY DEF IndInv
<1>1. ASSUME UNCHANGED <<bindings, stopped, lock>> PROVE StageInv'
  <2>1. Bound' = Bound
    BY <1>1 DEF Bound
  <2> QED
    BY <1>1, <1>i, <2>1 DEF StageInv, lock
<1>2. ASSUME NEW k \in Key, RemoveBinding(k) PROVE StageInv'
  <2>1. Bound' = Bound \ {k}
    BY <1>i, <1>2, RemoveEffect
  <2> QED
    BY <1>i, <1>2, <2>1 DEF RemoveBinding, StageInv
<1>3. ASSUME NEW k \in Key, NEW s \in Sock, BindKey(k, s) PROVE StageInv'
  <2>1. Bound' = Bound \/ Bound' = Bound \cup {k}
    BY <1>i, <1>3, BindEffect DEF Bound
  <2> QED
    BY <1>i, <1>3, <2>1 DEF BindKey, StageInv
<1>4. ASSUME \E s \in Sock :
               ReceiverExit(s) \/ TableForgets(s) \/ ForeignAdd(s) \/ ForeignLeave(s)
      PROVE StageInv'
  BY <1>1, <1>4 DEF ReceiverExit, TableForgets, ForeignAdd, ForeignLeave, ctx
<1>5. ASSUME \E s \in Sock, e \in Contested : ForeignRegister(s, e) \/ ForeignPublish(s, e)
      PROVE StageInv'
  BY <1>1, <1>5 DEF ForeignRegister, ForeignPublish, ctx
<1>6. ASSUME Idle PROVE StageInv'
  <2>b. Bound' = Bound
    BY <1>6, IdleStep DEF Bound
  <2>1. ASSUME InterfacesChange \/ UNCHANGED vars PROVE StageInv'
    BY <1>1, <2>1 DEF InterfacesChange, vars, ctx
  <2>2. CASE ScanCollect
    BY <2>2, <2>b, <1>i DEF ScanCollect, Obsolete, StageInv, ctx
  <2>3. CASE ScanRemoved
    BY <2>3, <2>b, <1>i DEF ScanRemoved, StageInv, ctx
  <2>4. CASE ScanBound
    BY <2>4, <2>b, <1>i DEF ScanBound, Probing, StageInv, ctx
  <2>5. ASSUME NEW k \in Key, BindFails(k) PROVE StageInv'
    BY <2>5, <2>b, <1>i DEF BindFails, StageInv, ctx
  <2>6. ASSUME NEW k \in Key, NatEnter(k) PROVE StageInv'
    BY <2>6, <2>b, <1>i DEF NatEnter, StageInv, ctx
  <2>7. ASSUME NEW k \in Key, HeartbeatTick(k) PROVE StageInv'
    BY <1>1, <2>7 DEF HeartbeatTick
  <2>8. CASE NatPending
    BY <2>8, <2>b, <1>i DEF NatPending, StageInv, ctx
  <2>9. ASSUME NEW k \in Key, NEW servers \in SUBSET Server, Discovered(k, servers) PROVE StageInv'
    BY <1>1, <2>9 DEF Discovered
  <2>10. ASSUME NEW k \in Key, NEW nat \in NatType \cup {NoNat}, Classified(k, nat) PROVE StageInv'
    BY <1>1, <2>10 DEF Classified
  <2>11. ASSUME NEW k \in Key, NEW m \in Mapping, MeasurementReady(k, m) PROVE StageInv'
    <3>1. /\ UNCHANGED <<stopped, holder, stage, todo>>
          /\ \/ polling' = None /\ work' = work
             \/ polling' = polling /\ polling = k
      BY <2>11 DEF MeasurementReady
    <3>2. work.phase = "idle" \/ polling' # None
      BY <2>11, <3>1, <1>i DEF MeasurementReady, WorkInv, StageInv
    <3> QED
      BY <3>1, <3>2, <2>b, <1>i DEF StageInv
  <2>20. ASSUME NEW k \in Key, ApplyStep(k) PROVE StageInv'
    <3>1. /\ UNCHANGED <<stopped, holder, stage, todo>>
          /\ polling = k /\ (polling' = k \/ (polling' = None /\ work' = NoWork))
      BY <2>20, ApplyIs
    <3> QED
      BY <3>1, <2>b, <1>i DEF StageInv, NoWork
  <2>12. CASE PollBegin
    BY <2>12, <2>b, <1>i DEF PollBegin, StageInv
  <2>13. CASE PollEnd
    BY <2>13, <2>b, <1>i DEF PollEnd, StageInv, ctx
  <2>14. CASE StopBegin
    BY <2>14, <2>b, <1>i DEF StopBegin, StageInv, ctx
  <2>15. CASE StopEnd
    BY <2>15, <2>b, <1>i DEF StopEnd, StageInv
  <2>16. ASSUME NEW r \in Resumer, ResumeCall(r) PROVE StageInv'
    BY <1>1, <2>16 DEF ResumeCall, ctx
  <2>17. ASSUME NEW r \in Resumer, ResumeLock(r) PROVE StageInv'
    BY <2>17, <2>b, <1>i DEF ResumeLock, StageInv
  <2>18. ASSUME NEW r \in Resumer, ResumeFails(r) PROVE StageInv'
    BY <1>1, <2>18 DEF ResumeFails, ctx
  <2>19. ASSUME NEW r \in Resumer, ResumeEnd(r) PROVE StageInv'
    BY <2>19, <2>b, <1>i DEF ResumeEnd, StageInv
  <2> QED
    BY <1>6, <2>1, <2>2, <2>3, <2>4, <2>5, <2>6, <2>7, <2>8, <2>9, <2>10, <2>11, <2>12,
       <2>13, <2>14, <2>15, <2>16, <2>17, <2>18, <2>19, <2>20 DEF Idle, NatStep, ResumeStep
<1> QED
  BY <1>2, <1>3, <1>4, <1>5, <1>6, NextIs

\* The work of an update stays true to the binding it is for: no other step touches
\* that binding or its probe, and every call only takes something off the plan.
LEMMA WorkStep == IndInv /\ [Next]_vars => WorkInv'
<1> SUFFICES ASSUME IndInv, [Next]_vars PROVE WorkInv'
  OBVIOUS
<1> USE InterfacesAssumption
<1>i. TypeOK /\ StageInv /\ WorkInv
  BY DEF IndInv
<1>n. polling = None => work.phase = "idle"
  BY <1>i DEF StageInv
<1>1. ASSUME work' = work, work.phase = "idle" PROVE WorkInv'
  BY <1>1, <1>i DEF WorkInv
<1>2. ASSUME UNCHANGED <<work, polling, bindings, probe>> PROVE WorkInv'
  BY <1>2, <1>i DEF WorkInv
<1>3. ASSUME work' = NoWork PROVE WorkInv'
  BY <1>3 DEF WorkInv, NoWork
<1>4. ASSUME NEW k \in Key, RemoveBinding(k) \/ \E s \in Sock : BindKey(k, s) PROVE WorkInv'
  <2>1. work' = work /\ stage \in {"remove", "bind"}
    BY <1>4 DEF RemoveBinding, BindKey
  <2> QED
    BY <1>1, <1>i, <1>n, <2>1 DEF StageInv
<1>5. ASSUME NEW k \in Key, NatEnter(k) \/ HeartbeatTick(k) PROVE WorkInv'
  BY <1>1, <1>5, <1>n DEF NatEnter, HeartbeatTick, lock
<1>6. CASE NatPending
  BY <1>1, <1>6 DEF NatPending
<1>7. ASSUME NEW k \in Key, \/ \E servers \in SUBSET Server : Discovered(k, servers)
                            \/ \E nat \in NatType \cup {NoNat} : Classified(k, nat)
      PROVE  WorkInv'
  <2>1. work' = work /\ polling = k /\ probe[k].phase # "heartbeat"
    BY <1>7 DEF Discovered, Classified, lock
  <2> QED
    BY <1>1, <1>i, <2>1 DEF WorkInv
<1>8. ASSUME NEW k \in Key, NEW m \in Mapping, MeasurementReady(k, m) PROVE WorkInv'
  <2>1. /\ polling = k /\ probe[k].phase = "heartbeat" /\ probe[k].measuring
        /\ probe' = [probe EXCEPT ![k].measuring = FALSE]
    BY <1>8 DEF MeasurementReady
  <2>2. work.phase = "idle"
    BY <1>i, <2>1 DEF WorkInv
  <2>3. probe'[k].phase = "heartbeat" /\ ~probe'[k].measuring
    BY <1>i, <2>1 DEF TypeOK, Probe
  <2>4. CASE work' = work
    BY <1>1, <2>2, <2>4
  <2>5. CASE work' # work
    <3>1. polling' = k /\ work'.phase = "check"
      BY <1>8, <2>1, <2>5 DEF MeasurementReady, NoWork
    <3> QED
      BY <2>3, <3>1 DEF WorkInv, Planned
  <2> QED
    BY <2>4, <2>5
<1>9. ASSUME NEW k \in Key, ApplyStep(k) PROVE WorkInv'
  <2>1. /\ polling = k /\ work.phase # "idle" /\ bindings' = bindings
        /\ probe[k].phase = "heartbeat" /\ ~probe[k].measuring
        /\ Planned(AddrOf[bindings[k]], probe[k].nat, probe[k].mappings, probe[k].lost, work)
    BY <1>9, <1>i, ApplyIs DEF WorkInv
  <2>t. work \in Work /\ probe \in [Key -> Probe]
    BY <1>i DEF TypeOK
  <2> DEFINE old == PublishedEndpoints(AddrOf[bindings[k]], probe[k].nat, probe[k].mappings)
             new == PublishedEndpoints(AddrOf[bindings[k]], probe[k].nat, work.refreshed)
  <2>2. ASSUME work'.phase # "idle", polling' = k, probe' = probe,
               Planned(AddrOf[bindings[k]], probe[k].nat, probe[k].mappings, probe[k].lost,
                       work')
        PROVE  WorkInv'
    BY <2>1, <2>2 DEF WorkInv
  <2>3. CASE MappingConflict(k)
    BY <1>3, <2>3 DEF MappingConflict
  <2>4. CASE ApplyEnd(k)
    BY <1>3, <2>4 DEF ApplyEnd
  <2>5. CASE UnregisterAll(k)
    <3>1. /\ work'.phase = "apply" /\ work'.refreshed = work.refreshed
          /\ work'.register = RegisteredEndpoints(AddrOf[bindings[k]], work.refreshed)
          /\ work'.publish = new \ old /\ work'.withdraw = old \ new
          /\ polling' = k /\ probe' = probe
      BY <2>t, <2>1, <2>5 DEF UnregisterAll, Work, Additions, Removals, ctx
    <3> QED
      BY <2>2, <3>1 DEF Planned
  <2>6. CASE UpdateFails(k)
    <3>1. /\ work'.phase = "rollback" /\ work'.refreshed = work.refreshed
          /\ work'.register = RegisteredEndpoints(AddrOf[bindings[k]], probe[k].mappings)
          /\ work'.publish = {} /\ work'.withdraw \subseteq new \ old
          /\ polling' = k
      BY <2>t, <2>1, <2>6 DEF UpdateFails, Work, Additions
    <3>2. /\ probe'[k].phase = "heartbeat" /\ ~probe'[k].measuring
          /\ probe'[k].nat = probe[k].nat /\ probe'[k].mappings = probe[k].mappings
          /\ probe'[k].lost = {}
      BY <2>t, <2>1, <2>6 DEF UpdateFails, Probe
    <3> QED
      BY <2>1, <3>1, <3>2 DEF WorkInv, Planned
  <2>7. ASSUME NEW e \in Endpoint, CheckEndpoint(k, e) PROVE WorkInv'
    <3>1. work'.phase = "check" /\ polling' = k /\ probe' = probe
      BY <2>t, <2>1, <2>7 DEF CheckEndpoint, Applying, Work, ctx
    <3> QED
      BY <2>2, <3>1 DEF Planned
  <2>8. ASSUME NEW e \in Endpoint, RegisterEndpoint(k, e) PROVE WorkInv'
    <3>1. /\ e \in work.register /\ work' = [work EXCEPT !.register = @ \ {e}]
          /\ polling' = k /\ probe' = probe
      BY <2>1, <2>8 DEF RegisterEndpoint, ctx
    <3>2. /\ work'.phase = work.phase /\ work'.refreshed = work.refreshed
          /\ work'.register = work.register \ {e}
          /\ work'.publish = work.publish /\ work'.withdraw = work.withdraw
      BY <2>t, <3>1 DEF Work
    <3> QED
      BY <2>1, <2>2, <3>1, <3>2 DEF Planned
  <2>9. ASSUME NEW e \in Endpoint, PublishEndpoint(k, e) PROVE WorkInv'
    <3>1. /\ e \in work.publish /\ work' = [work EXCEPT !.publish = @ \ {e}]
          /\ polling' = k /\ probe' = probe
      BY <2>1, <2>9 DEF PublishEndpoint, ctx
    <3>2. /\ work'.phase = work.phase /\ work'.refreshed = work.refreshed
          /\ work'.register = work.register
          /\ work'.publish = work.publish \ {e} /\ work'.withdraw = work.withdraw
      BY <2>t, <3>1 DEF Work
    <3> QED
      BY <2>1, <2>2, <3>1, <3>2 DEF Planned
  <2>10. ASSUME NEW e \in Endpoint, WithdrawEndpoint(k, e) PROVE WorkInv'
    <3>1. /\ work.register = {} /\ work.publish = {}
          /\ work' = [work EXCEPT !.withdraw = @ \ {e}]
          /\ polling' = k /\ probe' = probe
      BY <2>1, <2>10 DEF WithdrawEndpoint, ctx
    <3>2. /\ work'.phase = work.phase /\ work'.refreshed = work.refreshed
          /\ work'.register = {} /\ work'.publish = {}
          /\ work'.withdraw = work.withdraw \ {e}
      BY <2>t, <3>1 DEF Work
    <3> QED
      BY <2>1, <2>2, <3>1, <3>2 DEF Planned
  <2>11. ASSUME NEW e \in Endpoint, RestoreFails(k, e) PROVE WorkInv'
    <3>1. /\ work.phase = "rollback" /\ polling' = k
          /\ work' = [work EXCEPT !.register = @ \ {e}]
          /\ probe' = [probe EXCEPT ![k].lost = @ \cup {e}]
      BY <2>1, <2>11 DEF RestoreFails, Applying
    <3>2. /\ work'.phase = "rollback" /\ work'.refreshed = work.refreshed
          /\ work'.register = work.register \ {e}
          /\ work'.publish = work.publish /\ work'.withdraw = work.withdraw
      BY <2>t, <3>1 DEF Work
    <3>3. /\ probe'[k].phase = "heartbeat" /\ ~probe'[k].measuring
          /\ probe'[k].nat = probe[k].nat /\ probe'[k].mappings = probe[k].mappings
          /\ probe'[k].lost = probe[k].lost \cup {e}
      BY <2>t, <2>1, <3>1 DEF Probe
    <3>4. Planned(AddrOf[bindings[k]], probe[k].nat, probe[k].mappings,
                  probe[k].lost \cup {e}, work')
      BY <2>1, <3>1, <3>2 DEF Planned
    <3> QED
      BY <2>1, <3>1, <3>2, <3>3, <3>4 DEF WorkInv
  <2> QED
    BY <1>9, <2>3, <2>4, <2>5, <2>6, <2>7, <2>8, <2>9, <2>10, <2>11 DEF ApplyStep
<1>10. ASSUME \/ ScanCollect \/ ScanRemoved \/ ScanBound \/ PollEnd \/ PollBegin
              \/ StopBegin \/ StopEnd \/ \E k \in Key : BindFails(k)
       PROVE  WorkInv'
  <2>1. work' = work /\ polling' = polling /\ bindings' = bindings
    BY <1>10 DEF ScanCollect, ScanRemoved, ScanBound, PollEnd, PollBegin, StopBegin,
         StopEnd, BindFails, ctx
  <2>2. probe' = probe
    BY <1>10 DEF ScanCollect, ScanRemoved, ScanBound, PollEnd, PollBegin, StopBegin,
         StopEnd, BindFails, ctx
  <2> QED
    BY <1>2, <2>1, <2>2
<1>11. ASSUME NEW r \in Resumer, ResumeStep(r) PROVE WorkInv'
  <2>1. CASE ResumeEnd(r)
    <3>1. work' = work /\ holder = r
      BY <2>1 DEF ResumeEnd
    <3> QED
      BY <1>1, <1>i, <1>n, <3>1 DEF StageInv
  <2>2. CASE ResumeCall(r) \/ ResumeLock(r) \/ ResumeFails(r)
    BY <1>2, <2>2 DEF ResumeCall, ResumeLock, ResumeFails, ctx, lock
  <2> QED
    BY <1>11, <2>1, <2>2 DEF ResumeStep
<1>12. CASE Others
  BY <1>2, <1>12 DEF Others, InterfacesChange, ReceiverExit, TableForgets, ForeignAdd,
     ForeignLeave, ForeignRegister, ForeignPublish, ctx, lock
<1>13. CASE UNCHANGED vars
  BY <1>2, <1>13 DEF vars, ctx, lock
<1> QED
  BY <1>4, <1>5, <1>6, <1>7, <1>8, <1>9, <1>10, <1>11, <1>12, <1>13
     DEF Next, Scan, NatStep

\* The snapshot only gets newer, and a change not in it is announced.
LEMMA FreshStep == IndInv /\ [Next]_vars => FreshInv' /\ ResumeIsFresh'
<1> SUFFICES ASSUME IndInv, [Next]_vars PROVE FreshInv' /\ ResumeIsFresh'
  OBVIOUS
<1> USE InterfacesAssumption
<1>i. FreshInv /\ ResumeIsFresh
  BY DEF IndInv
<1>t. /\ version \in Nat /\ seen \in Nat /\ since \in [Resumer -> Nat]
      /\ caller \in [Resumer -> {"idle", "subscribed", "locked", "ok", "err"}]
      /\ notified \in BOOLEAN /\ fresh \in [Resumer -> BOOLEAN]
  BY DEF IndInv, TypeOK
<1>1. ASSUME UNCHANGED <<version, seen, notified, caller, since>>,
             holder' \in {holder, "none", "stop"}
      PROVE  FreshInv' /\ ResumeIsFresh'
  BY <1>1, <1>i DEF FreshInv, ResumeIsFresh
<1>2. CASE InterfacesChange
  <2>1. version' = version + 1 /\ notified' /\ UNCHANGED <<seen, caller, since, holder>>
    BY <1>2 DEF InterfacesChange, lock
  <2> QED
    BY <1>i, <1>t, <2>1 DEF FreshInv, ResumeIsFresh
<1>3. CASE PollBegin
  <2>1. UNCHANGED <<version, caller, since>> /\ holder' = "poll"
    BY <1>3 DEF PollBegin, env, callers
  <2>2. (seen' = version) \/ (seen' = seen /\ (notified => EnumMayFail))
    BY <1>3 DEF PollBegin
  <2>3. EnumMayFail \/ seen' = version
    BY <1>i, <2>2 DEF ResumeIsFresh
  <2>4. seen <= seen' /\ seen' <= version
    BY <1>i, <1>t, <2>2 DEF FreshInv
  <2>5. seen' \in Nat
    BY <1>t, <2>2
  <2>6. \A r \in Resumer : caller[r] \in {"locked", "ok"} => seen' >= since[r]
    BY <1>i, <1>t, <2>4, <2>5 DEF ResumeIsFresh
  <2>7. FreshInv'
    BY <1>i, <2>1, <2>4 DEF FreshInv
  <2> QED
    BY <2>1, <2>3, <2>6, <2>7 DEF ResumeIsFresh
<1>4. ASSUME NEW r \in Resumer, ResumeCall(r) PROVE FreshInv' /\ ResumeIsFresh'
  <2>1. /\ UNCHANGED <<version, seen, notified>>
        /\ since' = [since EXCEPT ![r] = version]
        /\ caller' \in {[caller EXCEPT ![r] = "subscribed"], [caller EXCEPT ![r] = "err"]}
        /\ holder' = holder /\ caller[r] = "idle"
    BY <1>4 DEF ResumeCall, env, ctx, lock
  <2> QED
    BY <1>i, <1>t, <2>1 DEF FreshInv, ResumeIsFresh
<1>5. ASSUME NEW r \in Resumer, ResumeLock(r) PROVE FreshInv' /\ ResumeIsFresh'
  <2>1. /\ UNCHANGED <<version, since>> /\ seen' = version
        /\ holder' = r /\ caller' = [caller EXCEPT ![r] = "locked"]
    BY <1>5 DEF ResumeLock, env
  <2>2. \A q \in Resumer : version >= since[q]
    BY <1>i, <1>t DEF FreshInv
  <2> QED
    BY <1>i, <1>t, <2>1, <2>2 DEF FreshInv, ResumeIsFresh
<1>6. ASSUME NEW r \in Resumer, ResumeFails(r) PROVE FreshInv' /\ ResumeIsFresh'
  <2>1. /\ UNCHANGED <<version, seen, notified, since>>
        /\ caller' = [caller EXCEPT ![r] = "err"]
        /\ holder' = holder /\ caller[r] = "subscribed"
    BY <1>6 DEF ResumeFails, env, ctx, lock
  <2> QED
    BY <1>i, <1>t, <2>1 DEF FreshInv, ResumeIsFresh
<1>7. ASSUME NEW r \in Resumer, ResumeEnd(r) PROVE FreshInv' /\ ResumeIsFresh'
  <2>1. /\ UNCHANGED <<version, seen, notified, since>>
        /\ caller' = [caller EXCEPT ![r] = "ok"]
        /\ holder = r /\ holder' = "none"
    BY <1>7 DEF ResumeEnd, env
  <2>2. caller[r] = "locked"
    BY <1>i, <2>1 DEF FreshInv
  <2> QED
    BY <1>i, <1>t, <2>1, <2>2 DEF FreshInv, ResumeIsFresh
<1>8. ASSUME \/ ScanCollect \/ ScanRemoved \/ ScanBound
             \/ \E k \in Key : RemoveBinding(k) \/ BindFails(k)
             \/ \E k \in Key, s \in Sock : BindKey(k, s)
             \/ PollEnd \/ StopBegin \/ StopEnd
             \/ UNCHANGED vars
      PROVE FreshInv' /\ ResumeIsFresh'
  BY <1>1, <1>8 DEF ScanCollect, ScanRemoved, ScanBound, RemoveBinding, BindFails,
       BindKey, PollEnd, StopBegin, StopEnd, vars, env, ctx, lock, callers
<1>9. CASE NatStep
  <2>1. ASSUME NEW k \in Key, ApplyStep(k) PROVE FreshInv' /\ ResumeIsFresh'
    BY <1>1, <2>1, ApplyIs DEF env, callers
  <2> QED
    BY <1>1, <1>9, <2>1 DEF NatStep, NatEnter, NatPending, Discovered, Classified,
       HeartbeatTick, MeasurementReady, env, ctx, lock, callers
<1>10. CASE Others
  BY <1>1, <1>2, <1>10 DEF Others, ReceiverExit, TableForgets, ForeignAdd, ForeignLeave,
       ForeignRegister, ForeignPublish, env, ctx, lock, callers
<1> QED
  BY <1>3, <1>4, <1>5, <1>6, <1>7, <1>8, <1>9, <1>10 DEF Next, Scan, ResumeStep

-----------------------------------------------------------------------------
\* The registries.

\* What two states of the registries have in common for a socket.
SameFor(s) ==
    /\ EndpointsOf(book', s) = EndpointsOf(book, s)
    /\ EndpointsOf(quic', s) = EndpointsOf(quic, s)
    /\ dock'[AddrOf[s]] = s <=> dock[AddrOf[s]] = s
    /\ s \in torn' <=> s \in torn

\* No record of a surviving foreign socket is lost: a step of ForeignPreserved.
ForeignKept ==
    \A s \in foreign \cap foreign' :
      /\ EndpointsOf(book, s) \subseteq EndpointsOf(book', s)
      /\ EndpointsOf(quic, s) \subseteq EndpointsOf(quic', s)
      /\ dock[AddrOf[s]] = s => dock'[AddrOf[s]] = s

\* What a step leaves true of the registries.
Exact == TablesInv' /\ NoResidue' /\ ForeignKept

\* A binding nobody touched still matches.
LEMMA SameMatches ==
    ASSUME NEW s, NEW nat, NEW m, NEW lost, NEW w, SameFor(s),
           Matches(s, nat, m, lost, w, dock, quic, book, torn)
    PROVE  Matches(s, nat, m, lost, w, dock', quic', book', torn')
BY DEF SameFor, Matches

\* Checking the endpoints does not change what the registries should say.
LEMMA RestMatches ==
    ASSUME NEW s, NEW nat, NEW m, NEW lost, NEW w, NEW v,
           Matches(s, nat, m, lost, w, dock, quic, book, torn),
           w.phase \in {"idle", "check"}, v.phase \in {"idle", "check"},
           v.phase = "idle" \/ w.phase = "check" \/ dock[AddrOf[s]] = s
    PROVE  Matches(s, nat, m, lost, v, dock, quic, book, torn)
BY DEF Matches, BookOf, QuicOf

\* Between updates there is no work for any binding.
LEMMA IdleWork ==
    ASSUME IndInv, work' = work, polling' = polling \/ work.phase = "idle", NEW j
    PROVE  WorkOf(j)' = WorkOf(j)
BY DEF IndInv, WorkInv, WorkOf

\* A step that changes the records of one socket only has to account for that
\* socket.
LEMMA OneSocket ==
    ASSUME IndInv, NEW s \in Sock,
           \A t \in Sock \ {s} : SameFor(t),
           \A t \in Sock \ {s} : t \in Mine' \cup foreign' <=> t \in Mine \cup foreign,
           \A j \in Bound' :
             \/ /\ bindings'[j] = s
                /\ Matches(s, probe'[j].nat, probe'[j].mappings, probe'[j].lost, WorkOf(j)',
                           dock', quic', book', torn')
             \/ /\ j \in Bound /\ bindings'[j] = bindings[j] /\ bindings[j] # s
                /\ probe'[j].nat = probe[j].nat /\ probe'[j].mappings = probe[j].mappings
                /\ probe'[j].lost = probe[j].lost /\ WorkOf(j)' = WorkOf(j),
           s \notin Mine' \cup foreign' =>
             /\ EndpointsOf(book', s) = {}
             /\ EndpointsOf(quic', s) # {} => s \in torn'
             /\ dock'[AddrOf[s]] # s,
           s \in foreign \cap foreign' =>
             /\ EndpointsOf(book, s) \subseteq EndpointsOf(book', s)
             /\ EndpointsOf(quic, s) \subseteq EndpointsOf(quic', s)
             /\ dock[AddrOf[s]] = s => dock'[AddrOf[s]] = s,
           \A a \in Addr : natOf'[a] # NoNat => \E t \in Mine' : AddrOf[t] = a,
           stopped' => Mine' = {}
    PROVE  Exact
<1>i. TypeOK /\ TablesInv /\ NoResidue
  BY DEF IndInv
<1>1. ASSUME NEW j \in Bound'
      PROVE  Matches(bindings'[j], probe'[j].nat, probe'[j].mappings, probe'[j].lost,
                     WorkOf(j)', dock', quic', book', torn')
  <2>1. CASE /\ bindings'[j] = s
             /\ Matches(s, probe'[j].nat, probe'[j].mappings, probe'[j].lost, WorkOf(j)',
                        dock', quic', book', torn')
    BY <2>1
  <2>2. CASE /\ j \in Bound /\ bindings'[j] = bindings[j] /\ bindings[j] # s
             /\ probe'[j].nat = probe[j].nat /\ probe'[j].mappings = probe[j].mappings
             /\ probe'[j].lost = probe[j].lost /\ WorkOf(j)' = WorkOf(j)
    <3>1. Matches(bindings[j], probe[j].nat, probe[j].mappings, probe[j].lost, WorkOf(j),
                  dock, quic, book, torn)
      BY <1>i, <2>2 DEF TablesInv
    <3>2. bindings[j] \in Sock
      BY <1>i, <2>2 DEF Bound, TypeOK
    <3>3. SameFor(bindings[j])
      BY <2>2, <3>2
    <3>4. Matches(bindings[j], probe[j].nat, probe[j].mappings, probe[j].lost, WorkOf(j),
                  dock', quic', book', torn')
      BY <3>1, <3>3, SameMatches
    <3> QED
      BY <2>2, <3>4
  <2> QED
    BY <2>1, <2>2
<1>2. TablesInv'
  BY <1>1 DEF TablesInv
<1>3. ASSUME NEW t \in Sock \ (Mine' \cup foreign')
      PROVE  /\ EndpointsOf(book', t) = {}
             /\ EndpointsOf(quic', t) # {} => t \in torn'
             /\ dock'[AddrOf[t]] # t
  <2>1. CASE t = s
    BY <2>1
  <2>2. CASE t # s
    <3>1. /\ EndpointsOf(book, t) = {}
          /\ EndpointsOf(quic, t) # {} => t \in torn
          /\ dock[AddrOf[t]] # t
      BY <1>i, <2>2 DEF NoResidue
    <3> QED
      BY <2>2, <3>1 DEF SameFor
  <2> QED
    BY <2>1, <2>2
<1>4. NoResidue'
  BY <1>3 DEF NoResidue
<1>5. ForeignKept
  <2>1. foreign \subseteq Sock
    BY <1>i DEF TypeOK
  <2> QED
    BY <2>1 DEF ForeignKept, SameFor
<1> QED
  BY <1>2, <1>4, <1>5 DEF Exact

\* Steps that touch no registry.
LEMMA QuietExact ==
    ASSUME IndInv, UNCHANGED <<dock, quic, book, natOf, foreign, torn, bindings, work>>,
           \A k \in Key : /\ probe'[k].nat = probe[k].nat
                          /\ probe'[k].mappings = probe[k].mappings
                          /\ probe'[k].lost = probe[k].lost,
           polling' = polling \/ work.phase = "idle",
           stopped' => Mine = {}
    PROVE  Exact
<1>1. Mine' = Mine /\ Bound' = Bound /\ Bound \subseteq Key
  BY DEF Mine, Bound
<1>2. \A j \in Key : WorkOf(j)' = WorkOf(j)
  BY IdleWork
<1>3. TablesInv'
  <2> SUFFICES ASSUME NEW j \in Bound'
               PROVE  Matches(bindings'[j], probe'[j].nat, probe'[j].mappings, probe'[j].lost,
                              WorkOf(j)', dock', quic', book', torn')
    BY DEF TablesInv
  <2>1. Matches(bindings[j], probe[j].nat, probe[j].mappings, probe[j].lost, WorkOf(j),
                dock, quic, book, torn)
    BY <1>1 DEF IndInv, TablesInv
  <2> QED
    BY <1>1, <1>2, <2>1
<1>4. NoResidue'
  BY <1>1 DEF IndInv, NoResidue
<1> QED
  BY <1>3, <1>4 DEF Exact, ForeignKept

\* Removing what is bound to the address of a held socket takes nothing from any
\* other socket, because no other one in the registries has that address.
LEMMA DropSame ==
    ASSUME IndInv, NEW s \in Mine \cup foreign \cup torn
    PROVE  /\ \A t \in Sock \ {s} :
                /\ EndpointsOf(RemoveBound(quic, AddrOf[s]), t) = EndpointsOf(quic, t)
                /\ EndpointsOf(RemoveBound(book, AddrOf[s]), t) = EndpointsOf(book, t)
                /\ DockRemove(dock, s)[AddrOf[t]] = t <=> dock[AddrOf[t]] = t
           /\ EndpointsOf(RemoveBound(quic, AddrOf[s]), s) = {}
           /\ EndpointsOf(RemoveBound(book, AddrOf[s]), s) = {}
           /\ DockRemove(dock, s)[AddrOf[s]] # s
<1> USE RegistriesAssumption
<1>i. TypeOK /\ OwnersInv /\ NoResidue
  BY DEF IndInv
<1>t. quic \in Table /\ book \in Table
  BY <1>i DEF TypeOK, Table
<1>s. s \in Sock /\ AddrOf[s] \in Addr
  BY <1>i DEF TypeOK, Mine
<1>1. ASSUME NEW t \in Sock \ {s}
      PROVE  /\ EndpointsOf(RemoveBound(quic, AddrOf[s]), t) = EndpointsOf(quic, t)
             /\ EndpointsOf(RemoveBound(book, AddrOf[s]), t) = EndpointsOf(book, t)
  <2>1. CASE AddrOf[t] # AddrOf[s]
    BY <1>t, <1>s, <2>1, RemoveBoundOf
  <2>2. CASE AddrOf[t] = AddrOf[s]
    <3>1. t \notin Mine \cup foreign \cup torn
      BY <1>i, <2>2 DEF OwnersInv
    <3>2. EndpointsOf(quic, t) = {} /\ EndpointsOf(book, t) = {}
      BY <1>i, <3>1 DEF NoResidue
    <3> QED
      BY <1>t, <1>s, <2>2, <3>2, RemoveBoundOf
  <2> QED
    BY <2>1, <2>2
<1>2. \A t \in Sock \ {s} : DockRemove(dock, s)[AddrOf[t]] = t <=> dock[AddrOf[t]] = t
  BY <1>s DEF DockRemove
<1>3. DockRemove(dock, s)[AddrOf[s]] # s
  BY <1>i, <1>s, DockRemoveOf DEF TypeOK
<1>4. /\ EndpointsOf(RemoveBound(quic, AddrOf[s]), s) = {}
      /\ EndpointsOf(RemoveBound(book, AddrOf[s]), s) = {}
  BY <1>t, <1>s, RemoveBoundOf
<1> QED
  BY <1>1, <1>2, <1>3, <1>4

\* The binding of a socket of ours, and what it says of the registries.
LEMMA BoundFacts ==
    ASSUME IndInv, NEW j \in Bound
    PROVE  /\ j \in Key /\ bindings[j] \in Sock /\ bindings[j] \in Mine
           /\ Matches(bindings[j], probe[j].nat, probe[j].mappings, probe[j].lost, WorkOf(j),
                      dock, quic, book, torn)
<1>1. Matches(bindings[j], probe[j].nat, probe[j].mappings, probe[j].lost, WorkOf(j),
              dock, quic, book, torn)
  BY DEF IndInv, TablesInv
<1> QED
  BY <1>1 DEF IndInv, Bound, Mine, TypeOK

\* A receive loop that ends takes only its own socket's endpoints along; in the
\* middle of an update the socket is remembered as torn.
LEMMA ReceiverExact ==
    ASSUME IndInv, NEW s \in Sock, ReceiverExit(s)
    PROVE  Exact
<1> USE RegistriesAssumption
<1>u. /\ UNCHANGED <<book, natOf, foreign, bindings, probe, stopped, work, polling>>
      /\ s \in Mine
  BY DEF ReceiverExit, ctx, lock
<1>m. Mine' = Mine /\ Bound' = Bound
  BY <1>u DEF Mine, Bound
<1>n. NoResidue
  BY DEF IndInv
<1>1. CASE UNCHANGED <<dock, quic, torn>>
  BY <1>1, <1>u, <1>n, QuietExact DEF NoResidue
<1>2. CASE /\ dock' = DockRemove(dock, s) /\ quic' = RemoveBound(quic, AddrOf[s])
           /\ torn' = torn \cup {t \in {s} : work.phase # "idle" /\ bindings[polling] = t}
  <2>1. /\ \A t \in Sock \ {s} : SameFor(t)
        /\ EndpointsOf(quic', s) = {} /\ dock'[AddrOf[s]] # s
    BY <1>u, <1>2, DropSame DEF SameFor
  <2>2. ASSUME NEW j \in Bound', bindings'[j] = s
        PROVE  Matches(s, probe'[j].nat, probe'[j].mappings, probe'[j].lost, WorkOf(j)',
                       dock', quic', book', torn')
    <3>1. /\ bindings[j] = s
          /\ Matches(s, probe[j].nat, probe[j].mappings, probe[j].lost, WorkOf(j),
                     dock, quic, book, torn)
      BY <1>m, <1>u, <2>2, BoundFacts
    <3>2. s \notin torn' => WorkOf(j).phase = "idle"
      BY <1>2, <3>1 DEF WorkOf, NoWork
    <3>3. WorkOf(j)' = WorkOf(j)
      BY <1>u DEF WorkOf
    <3>4. Matches(s, probe[j].nat, probe[j].mappings, probe[j].lost, WorkOf(j),
                  dock', quic', book', torn')
      BY <1>u, <2>1, <3>1, <3>2 DEF Matches
    <3> QED
      BY <1>u, <3>3, <3>4
  <2>3. s \notin foreign
    BY <1>u DEF IndInv, OwnersInv
  <2>4. \A a \in Addr : natOf'[a] # NoNat => \E t \in Mine' : AddrOf[t] = a
    BY <1>n, <1>m, <1>u DEF NoResidue
  <2>5. stopped' => Mine' = {}
    BY <1>n, <1>m, <1>u DEF NoResidue
  <2>6. \A j \in Key : WorkOf(j)' = WorkOf(j)
    BY <1>u DEF WorkOf
  <2>7. \A j \in Bound' : j \in Key
    BY <1>m DEF Bound
  <2> QED
    BY <1>u, <1>m, <2>1, <2>2, <2>3, <2>4, <2>5, <2>6, <2>7, OneSocket
<1> QED
  BY <1>1, <1>2 DEF ReceiverExit

\* The table forgets a socket that has been withdrawn.
LEMMA ForgetExact ==
    ASSUME IndInv, NEW s \in Sock, TableForgets(s)
    PROVE  Exact
<1>u. /\ UNCHANGED <<dock, book, natOf, foreign, bindings, probe, stopped, work, polling>>
      /\ s \in torn \ Mine
      /\ torn' = torn \ {s}
      /\ quic' = RemoveBound(quic, AddrOf[s])
  BY DEF TableForgets, ctx, lock
<1>i. OwnersInv /\ NoResidue
  BY DEF IndInv
<1>m. Mine' = Mine /\ Bound' = Bound
  BY <1>u DEF Mine, Bound
<1>1. /\ \A t \in Sock \ {s} : SameFor(t)
      /\ EndpointsOf(quic', s) = {}
  BY <1>u, DropSame DEF SameFor
<1>2. s \notin foreign
  BY <1>i, <1>u DEF OwnersInv
<1>3. EndpointsOf(book', s) = {} /\ dock'[AddrOf[s]] # s
  BY <1>i, <1>u, <1>2 DEF NoResidue
<1>4. ASSUME NEW j \in Bound'
      PROVE  /\ j \in Bound /\ bindings'[j] = bindings[j] /\ bindings[j] # s
             /\ probe'[j].nat = probe[j].nat /\ probe'[j].mappings = probe[j].mappings
             /\ probe'[j].lost = probe[j].lost /\ WorkOf(j)' = WorkOf(j)
  <2>1. j \in Bound /\ bindings[j] \in Mine
    BY <1>m, BoundFacts
  <2> QED
    BY <1>u, <2>1 DEF WorkOf
<1>5. \A a \in Addr : natOf'[a] # NoNat => \E t \in Mine' : AddrOf[t] = a
  BY <1>i, <1>m, <1>u DEF NoResidue
<1>6. stopped' => Mine' = {}
  BY <1>i, <1>m, <1>u DEF NoResidue
<1> QED
  BY <1>u, <1>m, <1>1, <1>2, <1>3, <1>4, <1>5, <1>6, OneSocket

\* Withdrawing a binding leaves nothing of it and takes nothing from others.
LEMMA RemoveExact ==
    ASSUME IndInv, NEW k \in Key, RemoveBinding(k)
    PROVE  Exact
<1> USE RegistriesAssumption
<1> DEFINE s == bindings[k]
<1>i. TypeOK /\ OwnersInv /\ StageInv /\ NoResidue
  BY DEF IndInv
<1>1. /\ k \in Bound /\ s \in Sock /\ s \in Mine
      /\ Bound' = Bound \ {k}
      /\ Mine' = Mine \ {s}
      /\ \A j \in Bound' : bindings'[j] = bindings[j] /\ bindings[j] # s
  BY <1>i, RemoveEffect
<1>2. /\ UNCHANGED <<foreign, torn, stopped, work, polling>>
      /\ book' = RemoveBound(book, AddrOf[s])
      /\ natOf' = [natOf EXCEPT ![AddrOf[s]] = NoNat]
      /\ \/ dock' = DockRemove(dock, s) /\ quic' = RemoveBound(quic, AddrOf[s])
         \/ dock[AddrOf[s]] # s /\ UNCHANGED <<dock, quic>>
  BY DEF RemoveBinding, EnsureRegisteredSocket
<1>3. \A j \in Bound' : probe'[j] = probe[j] /\ WorkOf(j)' = WorkOf(j)
  BY <1>i, <1>1, <1>2 DEF RemoveBinding, TypeOK, Bound, WorkOf
<1>4. Matches(s, probe[k].nat, probe[k].mappings, probe[k].lost, WorkOf(k),
              dock, quic, book, torn)
  BY <1>1, BoundFacts
<1>5. /\ \A t \in Sock \ {s} : SameFor(t)
      /\ EndpointsOf(book', s) = {}
      /\ EndpointsOf(quic', s) # {} => s \in torn'
      /\ dock'[AddrOf[s]] # s
  <2>1. CASE dock' = DockRemove(dock, s) /\ quic' = RemoveBound(quic, AddrOf[s])
    BY <1>1, <1>2, <2>1, DropSame DEF SameFor
  <2>2. CASE dock[AddrOf[s]] # s /\ UNCHANGED <<dock, quic>>
    <3>1. s \notin torn => EndpointsOf(quic, s) = {}
      BY <1>4, <2>2 DEF Matches
    <3> QED
      BY <1>1, <1>2, <2>2, <3>1, DropSame DEF SameFor
  <2> QED
    BY <1>2, <2>1, <2>2
<1>6. s \notin foreign
  BY <1>1, <1>i DEF OwnersInv
<1>7. ASSUME NEW a \in Addr, natOf'[a] # NoNat PROVE \E t \in Mine' : AddrOf[t] = a
  <2>1. natOf[a] # NoNat /\ a # AddrOf[s]
    BY <1>i, <1>2, <1>7 DEF TypeOK
  <2> QED
    BY <1>i, <1>1, <2>1 DEF NoResidue
<1>8. stopped' => Mine' = {}
  BY <1>i, <1>1, <1>2 DEF NoResidue
<1> HIDE DEF s
<1>9. \A j \in Bound' : j \in Bound /\ bindings'[j] = bindings[j] /\ bindings[j] # s
  BY <1>1
<1>10. \A t \in Sock \ {s} : t \in Mine' \cup foreign' <=> t \in Mine \cup foreign
  BY <1>1, <1>2
<1> QED
  BY <1>1, <1>2, <1>3, <1>5, <1>6, <1>7, <1>8, <1>9, <1>10, OneSocket

\* A new socket in the Dock changes no other socket's entry: its address was free.
LEMMA DockAddSame ==
    ASSUME IndInv, NEW s \in Sock \ Held, Available(s),
    dock' = [dock EXCEPT ![AddrOf[s]] = s]
    PROVE  /\ dock'[AddrOf[s]] = s
           /\ \A t \in Sock \ {s} : dock'[AddrOf[t]] = t <=> dock[AddrOf[t]] = t
<1> USE RegistriesAssumption
<1>1. dock[AddrOf[s]] = None
  BY HeldIs DEF IndInv
<1>2. \A a \in Addr : dock'[a] = IF a = AddrOf[s] THEN s ELSE dock[a]
  BY DEF IndInv, TypeOK
<1> QED
  BY <1>1, <1>2

\* register() leaves the registries exact, whether it succeeds or is undone.
LEMMA BindExact ==
    ASSUME IndInv, NEW k \in Key, NEW s \in Sock, BindKey(k, s)
    PROVE  Exact
<1> USE RegistriesAssumption
<1>i. TypeOK /\ OwnersInv /\ DockInv /\ StageInv /\ NoResidue
  BY DEF IndInv
<1>n. NoResidue
  BY <1>i
<1>t. quic \in Table /\ book \in Table
  BY <1>i DEF TypeOK, Table
<1>s. /\ UNCHANGED <<natOf, stopped, foreign, torn, work, polling>>
      /\ ~stopped /\ s \in Sock \ Held /\ Available(s) /\ stage = "bind"
  BY <1>i DEF BindKey, StageInv
<1>w. \A j \in Key : WorkOf(j)' = NoWork /\ WorkOf(j) = NoWork
  BY <1>i, <1>s, InterfacesAssumption DEF StageInv, WorkOf
<1> DEFINE bound == AddrOf[s]
           direct == Direct(AddrOf[s])
<1>e. bound \in Addr /\ direct \in Endpoint
  BY DEF Direct, Endpoint
<1>h. s \notin Mine \cup foreign \cup torn /\ EndpointsOf(book, s) = {} /\ EndpointsOf(quic, s) = {}
  BY <1>i, <1>s, HeldIs
<1>1. CASE UNCHANGED <<dock, quic, book, bindings, probe, natOf, foreign, torn>>
  BY <1>1, <1>s, QuietExact
<1>2. CASE /\ k \notin Bound
           /\ Bound' = Bound \cup {k}
           /\ Mine' = Mine \cup {s}
           /\ bindings'[k] = s
           /\ \A j \in Bound : bindings'[j] = bindings[j] /\ bindings[j] # s
           /\ probe'[k].mappings = NoMapping /\ probe'[k].lost = {}
           /\ \A j \in Key \ {k} : probe'[j] = probe[j]
           /\ dock' = [dock EXCEPT ![bound] = s]
           /\ quic[direct] = None
           /\ quic' = [quic EXCEPT ![direct] = s]
           /\ \/ bound \in Unscoped /\ book' = book
              \/ /\ bound \notin Unscoped
                 /\ book[direct] = None
                 /\ book' = [book EXCEPT ![direct] = s]
  <2>1. /\ dock'[bound] = s
        /\ \A t \in Sock \ {s} : dock'[AddrOf[t]] = t <=> dock[AddrOf[t]] = t
    BY <1>2, <1>s, DockAddSame
  <2>2. /\ EndpointsOf(quic', s) = {direct}
        /\ \A t \in Sock \ {s} : EndpointsOf(quic', t) = EndpointsOf(quic, t)
    <3>1. Inserted(quic, quic', direct, s)
      BY <1>t, <1>e, <1>2 DEF Inserted, Table
    <3>2. quic[direct] = None
      BY <1>2
    <3> QED
      BY <1>t, <1>e, <1>h, <3>1, <3>2, InsertOne
  <2>3. /\ EndpointsOf(book', s) = IF bound \in Unscoped THEN {} ELSE {direct}
        /\ \A t \in Sock \ {s} : EndpointsOf(book', t) = EndpointsOf(book, t)
    <3>1. CASE bound \in Unscoped
      BY <1>h, <1>2, <3>1
    <3>2. CASE bound \notin Unscoped
      <4>1. Inserted(book, book', direct, s)
        BY <1>t, <1>e, <1>2, <3>2 DEF Inserted, Table
      <4>2. book[direct] = None
        BY <1>2, <3>2
      <4> QED
        BY <1>t, <1>e, <1>h, <3>2, <4>1, <4>2, InsertOne
    <3> QED
      BY <3>1, <3>2
  <2>4. \A t \in Sock \ {s} : SameFor(t)
    BY <1>s, <2>1, <2>2, <2>3 DEF SameFor
  <2>5. Matches(s, probe'[k].nat, probe'[k].mappings, probe'[k].lost, WorkOf(k)',
                dock', quic', book', torn')
    <3>1. /\ RegisteredEndpoints(bound, NoMapping) = {direct}
          /\ PublishedEndpoints(bound, probe'[k].nat, NoMapping) = {}
      BY <1>e, NoMappingEndpoints
    <3>2. /\ BookOf(bound, probe'[k].nat, NoMapping, NoWork) = {}
          /\ QuicOf(bound, NoMapping, {}, NoWork) = {direct}
      BY <3>1 DEF BookOf, QuicOf, NoWork
    <3> QED
      BY <1>2, <1>w, <2>1, <2>2, <2>3, <3>2 DEF Matches
  <2>6. ASSUME NEW j \in Bound'
        PROVE  \/ /\ bindings'[j] = s
                  /\ Matches(s, probe'[j].nat, probe'[j].mappings, probe'[j].lost,
                             WorkOf(j)', dock', quic', book', torn')
               \/ /\ j \in Bound /\ bindings'[j] = bindings[j] /\ bindings[j] # s
                  /\ probe'[j].nat = probe[j].nat /\ probe'[j].mappings = probe[j].mappings
                  /\ probe'[j].lost = probe[j].lost /\ WorkOf(j)' = WorkOf(j)
    <3>1. CASE j = k
      BY <1>2, <2>5, <3>1
    <3>2. CASE j # k
      <4>1. j \in Bound /\ j \in Key
        BY <1>2, <3>2 DEF Bound
      <4> QED
        BY <1>2, <1>w, <3>2, <4>1
    <3> QED
      BY <3>1, <3>2
  <2>7. \A a \in Addr : natOf'[a] # NoNat => \E t \in Mine' : AddrOf[t] = a
    BY <1>n, <1>s, <1>2 DEF NoResidue
  <2>8. \A t \in Sock \ {s} : t \in Mine' \cup foreign' <=> t \in Mine \cup foreign
    BY <1>2, <1>s
  <2>9. s \in Mine' /\ s \notin foreign /\ ~stopped'
    BY <1>2, <1>h, <1>s
  <2> QED
    BY <2>4, <2>6, <2>7, <2>8, <2>9, OneSocket
<1> QED
  BY <1>i, <1>1, <1>2, BindEffect

\* Another owner arrives, registers, publishes and leaves: ours is not affected.
LEMMA ForeignExact ==
    ASSUME IndInv, NEW s \in Sock,
           \/ ForeignAdd(s) \/ ForeignLeave(s)
           \/ \E e \in Contested : ForeignRegister(s, e) \/ ForeignPublish(s, e)
    PROVE  Exact
<1> USE RegistriesAssumption, InterfacesAssumption
<1>i. TypeOK /\ OwnersInv /\ DockInv /\ NoResidue
  BY DEF IndInv
<1>t. quic \in Table /\ book \in Table
  BY <1>i DEF TypeOK, Table
<1>u. UNCHANGED <<natOf, stopped, bindings, probe, torn, work, polling>>
  BY DEF ForeignAdd, ForeignLeave, ForeignRegister, ForeignPublish, ctx, lock
<1>m. Mine' = Mine /\ Bound' = Bound
  BY <1>u DEF Mine, Bound
<1>e. AddrOf[s] \in Addr /\ Direct(AddrOf[s]) \in Endpoint
  BY DEF Direct, Endpoint
<1>r. /\ \A a \in Addr : natOf'[a] # NoNat => \E t \in Mine' : AddrOf[t] = a
      /\ stopped' => Mine' = {}
  BY <1>i, <1>u, <1>m DEF NoResidue
<1>b. ASSUME s \notin Mine, NEW j \in Bound'
      PROVE  /\ j \in Bound /\ bindings'[j] = bindings[j] /\ bindings[j] # s
             /\ probe'[j].nat = probe[j].nat /\ probe'[j].mappings = probe[j].mappings
             /\ probe'[j].lost = probe[j].lost /\ WorkOf(j)' = WorkOf(j)
  <2>1. bindings[j] \in Mine
    BY <1>m, BoundFacts
  <2> QED
    BY <1>b, <1>u, <1>m, <2>1 DEF WorkOf
<1>1. CASE ForeignAdd(s)
  <2>1. s \in Sock \ Held /\ Available(s)
    BY <1>1 DEF ForeignAdd
  <2>2. s \notin Mine \cup foreign
    BY <1>i, <2>1, HeldIs
  <2>3. /\ foreign' = foreign \cup {s}
        /\ dock' = [dock EXCEPT ![AddrOf[s]] = s]
        /\ quic[Direct(AddrOf[s])] = None
        /\ quic' = [quic EXCEPT ![Direct(AddrOf[s])] = s]
        /\ book' = book
    BY <1>1 DEF ForeignAdd
  <2>4. \A t \in Sock \ {s} : SameFor(t)
    <3>1. \A t \in Sock \ {s} : dock'[AddrOf[t]] = t <=> dock[AddrOf[t]] = t
      BY <2>1, <2>3, DockAddSame
    <3>2. /\ EndpointsOf(quic', s) = EndpointsOf(quic, s) \cup {Direct(AddrOf[s])}
          /\ \A t \in Sock \ {s} : EndpointsOf(quic', t) = EndpointsOf(quic, t)
      <4>1. PICK e \in Endpoint : e = Direct(AddrOf[s])
        BY <1>e
      <4>2. Inserted(quic, quic', e, s) /\ quic[e] = None
        BY <1>t, <2>3, <4>1 DEF Inserted, Table
      <4> QED
        BY <1>t, <4>1, <4>2, InsertOne
    <3> QED
      BY <1>u, <2>3, <3>1, <3>2 DEF SameFor
  <2>5. s \notin foreign /\ s \in foreign'
    BY <2>2, <2>3
  <2>6. \A t \in Sock \ {s} : t \in Mine' \cup foreign' <=> t \in Mine \cup foreign
    BY <1>m, <2>3
  <2> QED
    BY <1>r, <1>b, <2>2, <2>4, <2>5, <2>6, OneSocket
<1>2. CASE ForeignLeave(s)
  <2>1. /\ s \in foreign
        /\ foreign' = foreign \ {s}
        /\ dock' = DockRemove(dock, s)
        /\ quic' = RemoveBound(quic, AddrOf[s])
        /\ book' = RemoveBound(book, AddrOf[s])
    BY <1>2 DEF ForeignLeave
  <2>2. s \notin Mine
    BY <1>i, <2>1 DEF OwnersInv
  <2>3. /\ \A t \in Sock \ {s} : SameFor(t)
        /\ EndpointsOf(book', s) = {} /\ EndpointsOf(quic', s) = {} /\ dock'[AddrOf[s]] # s
    BY <1>u, <2>1, DropSame DEF SameFor
  <2>4. s \notin foreign' /\ \A t \in Sock \ {s} : t \in Mine' \cup foreign' <=> t \in Mine \cup foreign
    BY <1>m, <2>1
  <2> QED
    BY <1>r, <1>b, <2>2, <2>3, <2>4, OneSocket
<1>3. ASSUME NEW e \in Contested, ForeignRegister(s, e) PROVE Exact
  <2>1. /\ s \in foreign /\ e \in Endpoint /\ quic[e] = None
        /\ quic' = [quic EXCEPT ![e] = s]
        /\ UNCHANGED <<dock, book, foreign>>
    BY <1>3 DEF ForeignRegister
  <2>2. s \notin Mine
    BY <1>i, <2>1 DEF OwnersInv
  <2>3. /\ EndpointsOf(quic', s) = EndpointsOf(quic, s) \cup {e}
        /\ \A t \in Sock \ {s} : EndpointsOf(quic', t) = EndpointsOf(quic, t)
    <3>1. Inserted(quic, quic', e, s)
      BY <1>t, <2>1 DEF Inserted, Table
    <3>2. e \in Endpoint /\ quic[e] = None
      BY <2>1
    <3> QED
      BY <1>t, <3>1, <3>2, InsertOne
  <2>4. \A t \in Sock \ {s} : SameFor(t)
    BY <1>u, <2>1, <2>3 DEF SameFor
  <2>5. EndpointsOf(book, s) \subseteq EndpointsOf(book', s)
        /\ EndpointsOf(quic, s) \subseteq EndpointsOf(quic', s)
    BY <2>1, <2>3
  <2> QED
    BY <1>r, <1>b, <1>m, <2>1, <2>2, <2>4, <2>5, OneSocket
<1>4. ASSUME NEW e \in Contested, ForeignPublish(s, e) PROVE Exact
  <2>1. /\ s \in foreign /\ e \in Endpoint /\ book[e] = None
        /\ book' = [book EXCEPT ![e] = s]
        /\ UNCHANGED <<dock, quic, foreign>>
    BY <1>4 DEF ForeignPublish
  <2>2. s \notin Mine
    BY <1>i, <2>1 DEF OwnersInv
  <2>3. /\ EndpointsOf(book', s) = EndpointsOf(book, s) \cup {e}
        /\ \A t \in Sock \ {s} : EndpointsOf(book', t) = EndpointsOf(book, t)
    <3>1. Inserted(book, book', e, s)
      BY <1>t, <2>1 DEF Inserted, Table
    <3>2. e \in Endpoint /\ book[e] = None
      BY <2>1
    <3> QED
      BY <1>t, <3>1, <3>2, InsertOne
  <2>4. \A t \in Sock \ {s} : SameFor(t)
    BY <1>u, <2>1, <2>3 DEF SameFor
  <2>5. EndpointsOf(book, s) \subseteq EndpointsOf(book', s)
        /\ EndpointsOf(quic, s) \subseteq EndpointsOf(quic', s)
    BY <2>1, <2>3
  <2> QED
    BY <1>r, <1>b, <1>m, <2>1, <2>2, <2>4, <2>5, OneSocket
<1> QED
  BY <1>1, <1>2, <1>3, <1>4

\* The binding that is polled, and what it says of the registries.
LEMMA PollingFacts ==
    ASSUME IndInv, NEW k \in Key, polling = k
    PROVE  /\ k \in Bound /\ bindings[k] \in Sock /\ bindings[k] \in Mine
           /\ bindings[k] \notin foreign /\ AddrOf[bindings[k]] \in Addr
           /\ WorkOf(k) = work
           /\ Matches(bindings[k], probe[k].nat, probe[k].mappings, probe[k].lost, work,
                      dock, quic, book, torn)
<1>1. k \in Bound
  BY InterfacesAssumption DEF IndInv, StageInv
<1>2. WorkOf(k) = work
  BY DEF WorkOf
<1>3. /\ bindings[k] \in Sock /\ bindings[k] \in Mine
      /\ Matches(bindings[k], probe[k].nat, probe[k].mappings, probe[k].lost, WorkOf(k),
                 dock, quic, book, torn)
  BY <1>1, BoundFacts
<1>4. bindings[k] \notin foreign
  BY <1>3 DEF IndInv, OwnersInv
<1> QED
  BY <1>1, <1>2, <1>3, <1>4, RegistriesAssumption

\* A step of the binding that is polled has to account for its socket only.
LEMMA PollingOne ==
    ASSUME IndInv, NEW k \in Key, polling = k,
           UNCHANGED <<dock, foreign, torn, bindings, stopped>>,
           polling' = k \/ (polling' = None /\ work' = NoWork),
           natOf' = natOf \/ \E nat : natOf' = [natOf EXCEPT ![AddrOf[bindings[k]]] = nat],
           \A t \in Sock \ {bindings[k]} :
             /\ EndpointsOf(book', t) = EndpointsOf(book, t)
             /\ EndpointsOf(quic', t) = EndpointsOf(quic, t),
           \A j \in Key \ {k} : probe'[j] = probe[j],
           Matches(bindings[k], probe'[k].nat, probe'[k].mappings, probe'[k].lost, work',
                   dock', quic', book', torn')
    PROVE  Exact
<1>i. TypeOK /\ OwnersInv /\ NoResidue
  BY DEF IndInv
<1>k. /\ k \in Bound /\ bindings[k] \in Sock /\ bindings[k] \in Mine
      /\ bindings[k] \notin foreign
  BY PollingFacts
<1>m. Mine' = Mine /\ Bound' = Bound
  BY DEF Mine, Bound
<1>w. /\ WorkOf(k)' = work'
      /\ \A j \in Key \ {k} : WorkOf(j)' = WorkOf(j)
  BY InterfacesAssumption DEF WorkOf
<1>1. ASSUME NEW j \in Bound'
      PROVE  \/ /\ bindings'[j] = bindings[k]
                /\ Matches(bindings[k], probe'[j].nat, probe'[j].mappings, probe'[j].lost,
                           WorkOf(j)', dock', quic', book', torn')
             \/ /\ j \in Bound /\ bindings'[j] = bindings[j] /\ bindings[j] # bindings[k]
                /\ probe'[j].nat = probe[j].nat /\ probe'[j].mappings = probe[j].mappings
                /\ probe'[j].lost = probe[j].lost /\ WorkOf(j)' = WorkOf(j)
  <2>1. CASE j = k
    BY <1>w, <2>1
  <2>2. CASE j # k
    <3>1. j \in Key /\ j \in Bound /\ bindings[j] # bindings[k]
      BY <1>i, <1>k, <1>m, <2>2 DEF OwnersInv, Bound
    <3> QED
      BY <1>w, <2>2, <3>1
  <2> QED
    BY <2>1, <2>2
<1>2. \A t \in Sock \ {bindings[k]} : SameFor(t)
  BY DEF SameFor
<1>3. ASSUME NEW a \in Addr, natOf'[a] # NoNat PROVE \E t \in Mine' : AddrOf[t] = a
  <2>1. natOf[a] # NoNat \/ a = AddrOf[bindings[k]]
    BY <1>i, <1>3 DEF TypeOK
  <2> QED
    BY <1>i, <1>k, <1>m, <2>1 DEF NoResidue
<1>4. /\ bindings[k] \in Mine'
      /\ \A t \in Sock \ {bindings[k]} : t \in Mine' \cup foreign' <=> t \in Mine \cup foreign
      /\ stopped' => Mine' = {}
  BY <1>i, <1>k, <1>m DEF NoResidue
<1>5. PICK s \in Sock : s = bindings[k]
  BY <1>k
<1> QED
  BY <1>k, <1>1, <1>2, <1>3, <1>4, <1>5, OneSocket

\* The NAT type is recorded for a tracked address; no mapping exists yet.
LEMMA ClassifiedExact ==
    ASSUME IndInv, NEW k \in Key, NEW nat \in NatType \cup {NoNat}, Classified(k, nat)
    PROVE  Exact
<1>i. TypeOK /\ ProbeInv /\ WorkInv
  BY DEF IndInv
<1>1. /\ UNCHANGED <<dock, quic, book, foreign, torn, bindings, stopped, polling, work>>
      /\ probe[k].phase = "classifying"
      /\ probe' = [probe EXCEPT ![k].phase = "heartbeat", ![k].nat = nat,
                                ![k].mappings = NoMapping, ![k].measuring = FALSE]
      /\ natOf' = natOf \/ natOf' = [natOf EXCEPT ![AddrOf[bindings[k]]] = nat]
      /\ polling = k
  BY DEF Classified, lock
<1>2. /\ probe'[k].nat = nat /\ probe'[k].mappings = NoMapping
      /\ probe'[k].lost = probe[k].lost
      /\ \A j \in Key \ {k} : probe'[j] = probe[j]
  BY <1>i, <1>1 DEF TypeOK, Probe
<1>3. work = NoWork /\ probe[k].mappings = NoMapping
  BY <1>i, <1>1 DEF WorkInv, ProbeInv
<1>4. /\ AddrOf[bindings[k]] \in Addr
      /\ Matches(bindings[k], probe[k].nat, NoMapping, probe[k].lost, NoWork,
                 dock, quic, book, torn)
  BY <1>1, <1>3, PollingFacts
<1>5. \A n : BookOf(AddrOf[bindings[k]], n, NoMapping, NoWork) = {}
  BY <1>4, NoMappingEndpoints DEF BookOf, NoWork
<1>6. Matches(bindings[k], nat, NoMapping, probe[k].lost, NoWork, dock, quic, book, torn)
  BY <1>4, <1>5 DEF Matches
<1>7. Matches(bindings[k], probe'[k].nat, probe'[k].mappings, probe'[k].lost, work',
              dock', quic', book', torn')
  BY <1>1, <1>2, <1>3, <1>6
<1> QED
  BY <1>1, <1>2, <1>7, PollingOne

\* A measurement that is ready starts an update or changes nothing.
LEMMA MeasuredExact ==
    ASSUME IndInv, NEW k \in Key, NEW m \in Mapping, MeasurementReady(k, m)
    PROVE  Exact
<1>i. TypeOK /\ WorkInv /\ NoResidue
  BY DEF IndInv
<1>1. /\ polling = k /\ probe[k].measuring
      /\ probe' = [probe EXCEPT ![k].measuring = FALSE]
      /\ UNCHANGED <<dock, quic, book, natOf, foreign, torn, bindings, stopped>>
      /\ \/ work' = work
         \/ work'.phase = "check" /\ polling' = k /\ dock[AddrOf[bindings[k]]] = bindings[k]
  BY DEF MeasurementReady, registries, NoWork, EnsureRegisteredSocket
<1>2. work.phase = "idle"
  BY <1>i, <1>1 DEF WorkInv
<1>3. \A j \in Key : /\ probe'[j].nat = probe[j].nat
                     /\ probe'[j].mappings = probe[j].mappings
                     /\ probe'[j].lost = probe[j].lost
  BY <1>i, <1>1 DEF TypeOK, Probe
<1>4. CASE work' = work
  BY <1>1, <1>2, <1>3, <1>4, <1>i, QuietExact DEF NoResidue
<1>5. CASE work'.phase = "check" /\ polling' = k /\ dock[AddrOf[bindings[k]]] = bindings[k]
  <2>1. Matches(bindings[k], probe[k].nat, probe[k].mappings, probe[k].lost, work,
                dock, quic, book, torn)
    BY <1>1, PollingFacts
  <2>2. Matches(bindings[k], probe[k].nat, probe[k].mappings, probe[k].lost, work',
                dock, quic, book, torn)
    BY <1>2, <1>5, <2>1, RestMatches
  <2>3. \A j \in Key \ {k} : probe'[j] = probe[j]
    BY <1>i, <1>1 DEF TypeOK
  <2>4. Matches(bindings[k], probe'[k].nat, probe'[k].mappings, probe'[k].lost, work',
                dock', quic', book', torn')
    BY <1>1, <1>3, <2>2
  <2> QED
    BY <1>1, <1>5, <2>3, <2>4, PollingOne
<1> QED
  BY <1>1, <1>4, <1>5

\* What the lemmas on the calls of an update start from.
LEMMA ApplyFacts ==
    ASSUME IndInv, NEW k \in Key, ApplyStep(k)
    PROVE  /\ polling = k /\ bindings[k] \in Mine /\ bindings[k] \in Sock
           /\ AddrOf[bindings[k]] \in Addr
           /\ work.phase # "idle" /\ work \in Work /\ probe \in [Key -> Probe]
           /\ quic \in Table /\ book \in Table
           /\ Matches(bindings[k], probe[k].nat, probe[k].mappings, probe[k].lost, work,
                      dock, quic, book, torn)
           /\ Planned(AddrOf[bindings[k]], probe[k].nat, probe[k].mappings, probe[k].lost, work)
           /\ UNCHANGED <<dock, natOf, foreign, torn, bindings, stopped>>
           /\ polling' = k \/ (polling' = None /\ work' = NoWork)
<1>1. /\ polling = k /\ work.phase # "idle"
      /\ UNCHANGED <<dock, natOf, foreign, torn, bindings, stopped>>
      /\ polling' = k \/ (polling' = None /\ work' = NoWork)
  BY ApplyIs
<1> QED
  BY <1>1, PollingFacts DEF IndInv, TypeOK, WorkInv, Table

\* The checks before an update touch nothing.
LEMMA CheckExact ==
    ASSUME IndInv, NEW k \in Key, ApplyStep(k),
           MappingConflict(k) \/ \E e \in Endpoint : CheckEndpoint(k, e)
    PROVE  Exact
<1>1. /\ UNCHANGED <<quic, book, probe>> /\ work.phase = "check"
      /\ work' = NoWork \/ \E e \in Endpoint : work' = [work EXCEPT !.register = @ \ {e}]
  BY DEF MappingConflict, CheckEndpoint, Applying, registries, ctx
<1>2. work'.phase \in {"idle", "check"}
  BY <1>1, ApplyFacts DEF Work, NoWork
<1>3. Matches(bindings[k], probe[k].nat, probe[k].mappings, probe[k].lost, work',
              dock, quic, book, torn)
  BY <1>1, <1>2, ApplyFacts, RestMatches
<1>4. Matches(bindings[k], probe'[k].nat, probe'[k].mappings, probe'[k].lost, work',
              dock', quic', book', torn')
  BY <1>1, <1>3, ApplyFacts
<1> QED
  BY <1>1, <1>4, ApplyFacts, PollingOne

\* Dropping the registrations, to apply an update or to roll it back, takes the
\* socket's own and leaves everything still to be registered.
LEMMA DropExact ==
    ASSUME IndInv, NEW k \in Key, ApplyStep(k), UnregisterAll(k) \/ UpdateFails(k)
    PROVE  Exact
<1> DEFINE s == bindings[k]
           bound == AddrOf[s]
           nat == probe[k].nat
           m == probe[k].mappings
           old == PublishedEndpoints(bound, nat, m)
           new == PublishedEndpoints(bound, nat, work.refreshed)
<1>1. quic' = RemoveBound(quic, bound) /\ book' = book
  BY DEF UnregisterAll, UpdateFails
<1>2. /\ EndpointsOf(quic', s) = {}
      /\ \A t \in Sock \ {s} : EndpointsOf(quic', t) = EndpointsOf(quic, t)
  BY <1>1, ApplyFacts, DropSame
<1>3. Matches(s, nat, m, probe[k].lost, work, dock, quic, book, torn)
  BY ApplyFacts
<1>p. Planned(bound, nat, m, probe[k].lost, work)
  BY ApplyFacts
<1>4. CASE UnregisterAll(k)
  <2>1. /\ work'.phase = "apply" /\ work'.refreshed = work.refreshed
        /\ work'.register = RegisteredEndpoints(bound, work.refreshed)
        /\ work'.publish = new \ old /\ work'.withdraw = old \ new
        /\ probe' = probe
    BY <1>4, ApplyFacts DEF UnregisterAll, Work, Additions, Removals, ctx
  <2>2. work.phase = "check"
    BY <1>4 DEF UnregisterAll, Applying
  <2>3. /\ BookOf(bound, nat, m, work) = old /\ BookOf(bound, nat, m, work') = old
        /\ QuicOf(bound, m, probe[k].lost, work') = {}
    <3> HIDE DEF bound, nat, m
    <3> QED
      BY <2>1, <2>2 DEF BookOf, QuicOf
  <2>4. Matches(s, nat, m, probe[k].lost, work', dock, quic', book, torn)
    BY <1>2, <1>3, <2>1, <2>2, <2>3 DEF Matches
  <2>5. Matches(s, probe'[k].nat, probe'[k].mappings, probe'[k].lost, work',
                dock', quic', book', torn')
    BY <1>1, <2>1, <2>4, ApplyFacts
  <2> QED
    BY <1>1, <1>2, <2>1, <2>5, ApplyFacts, PollingOne
<1>5. CASE UpdateFails(k)
  <2>1. /\ work'.phase = "rollback" /\ work'.refreshed = work.refreshed
        /\ work'.register = RegisteredEndpoints(bound, m)
        /\ work'.publish = {} /\ work'.withdraw = (new \ old) \ work.publish
    BY <1>5, ApplyFacts DEF UpdateFails, Work, Additions
  <2>2. /\ probe'[k].nat = nat /\ probe'[k].mappings = m /\ probe'[k].lost = {}
        /\ \A j \in Key \ {k} : probe'[j] = probe[j]
    BY <1>5, ApplyFacts DEF UpdateFails, Probe
  <2>3. work.phase = "apply" /\ (work.register # {} \/ work.publish # {})
    BY <1>5 DEF UpdateFails, Applying
  <2>4. work.withdraw = old \ new
    BY <1>p, <2>3 DEF Planned
  <2>5. /\ BookOf(bound, nat, m, work) = old \cup ((new \ old) \ work.publish)
        /\ BookOf(bound, nat, m, work') = old \cup ((new \ old) \ work.publish)
        /\ QuicOf(bound, m, {}, work') = {}
    <3> HIDE DEF bound, nat, m
    <3>1. BookOf(bound, nat, m, work)
            = (old \cup ((new \ old) \ work.publish)) \ ((old \ new) \ work.withdraw)
      BY <2>3 DEF BookOf
    <3>2. BookOf(bound, nat, m, work') = old \cup work'.withdraw
      BY <2>1 DEF BookOf
    <3>3. QuicOf(bound, m, {}, work') = {}
      BY <2>1 DEF QuicOf
    <3> HIDE DEF old, new
    <3> QED
      BY <2>1, <2>4, <3>1, <3>2, <3>3
  <2>6. Matches(s, nat, m, {}, work', dock, quic', book, torn)
    BY <1>2, <1>3, <2>1, <2>3, <2>5 DEF Matches
  <2>7. Matches(s, probe'[k].nat, probe'[k].mappings, probe'[k].lost, work',
                dock', quic', book', torn')
    BY <1>1, <2>2, <2>6, ApplyFacts
  <2> QED
    BY <1>1, <1>2, <2>2, <2>7, ApplyFacts, PollingOne
<1> QED
  BY <1>4, <1>5

\* An endpoint that was free is registered for the socket.
LEMMA RegisterExact ==
    ASSUME IndInv, NEW k \in Key, ApplyStep(k), NEW e \in Endpoint, RegisterEndpoint(k, e)
    PROVE  Exact
<1> DEFINE s == bindings[k]
           bound == AddrOf[s]
           nat == probe[k].nat
           m == probe[k].mappings
           lost == probe[k].lost
<1>1. /\ quic' = [quic EXCEPT ![e] = s] /\ quic[e] = None
      /\ UNCHANGED <<book, probe>>
      /\ e \in work.register
      /\ work.phase \in {"apply", "rollback"}
      /\ work' = [work EXCEPT !.register = @ \ {e}]
  BY DEF RegisterEndpoint, Applying, ctx
<1>2. /\ EndpointsOf(quic', s) = EndpointsOf(quic, s) \cup {e}
      /\ \A t \in Sock \ {s} : EndpointsOf(quic', t) = EndpointsOf(quic, t)
  <2>1. quic \in Table /\ s \in Sock
    BY ApplyFacts
  <2>2. PICK owner \in Sock : owner = s
    BY <2>1
  <2>3. Inserted(quic, quic', e, owner) /\ quic[e] = None
    BY <1>1, <2>1, <2>2 DEF Inserted, Table
  <2>4. /\ EndpointsOf(quic', owner) = EndpointsOf(quic, owner) \cup {e}
        /\ \A t \in Sock \ {owner} : EndpointsOf(quic', t) = EndpointsOf(quic, t)
    BY <2>1, <2>3, InsertOne
  <2> QED
    BY <2>2, <2>4
<1>3. Matches(s, nat, m, lost, work, dock, quic, book, torn)
  BY ApplyFacts
<1>4. Planned(bound, nat, m, lost, work)
  BY ApplyFacts
<1>5. /\ work'.phase = work.phase /\ work'.refreshed = work.refreshed
      /\ work'.register = work.register \ {e}
      /\ work'.publish = work.publish /\ work'.withdraw = work.withdraw
  BY <1>1, ApplyFacts DEF Work
<1>6. BookOf(bound, nat, m, work') = BookOf(bound, nat, m, work)
  <2> HIDE DEF bound, nat, m
  <2> QED
    BY <1>5 DEF BookOf
<1>7. QuicOf(bound, m, lost, work') = QuicOf(bound, m, lost, work) \cup {e}
  <2> HIDE DEF bound, nat, m, lost
  <2>1. CASE work.phase = "apply"
    <3>1. e \in RegisteredEndpoints(bound, work.refreshed)
      BY <1>1, <1>4, <2>1 DEF Planned
    <3> QED
      BY <1>5, <2>1, <3>1 DEF QuicOf
  <2>2. CASE work.phase = "rollback"
    <3>1. e \in RegisteredEndpoints(bound, m) /\ e \notin lost
      BY <1>1, <1>4, <2>2 DEF Planned
    <3> QED
      BY <1>5, <2>2, <3>1 DEF QuicOf
  <2> QED
    BY <1>1, <2>1, <2>2
<1>8. Matches(s, nat, m, lost, work', dock, quic', book, torn)
  <2> HIDE DEF s, nat, m, lost
  <2> QED
    BY <1>1, <1>2, <1>3, <1>5, <1>6, <1>7 DEF Matches, bound
<1>9. Matches(s, probe'[k].nat, probe'[k].mappings, probe'[k].lost, work',
              dock', quic', book', torn')
  BY <1>1, <1>8, ApplyFacts
<1> QED
  BY <1>1, <1>2, <1>9, ApplyFacts, PollingOne

\* An addition nobody has published is published for the socket.
LEMMA PublishExact ==
    ASSUME IndInv, NEW k \in Key, ApplyStep(k), NEW e \in Endpoint, PublishEndpoint(k, e)
    PROVE  Exact
<1> DEFINE s == bindings[k]
           bound == AddrOf[s]
           nat == probe[k].nat
           m == probe[k].mappings
           lost == probe[k].lost
           old == PublishedEndpoints(bound, nat, m)
           new == PublishedEndpoints(bound, nat, work.refreshed)
<1>1. /\ book' = [book EXCEPT ![e] = s] /\ book[e] = None
      /\ UNCHANGED <<quic, probe>>
      /\ e \in work.publish
      /\ work.phase = "apply"
      /\ work' = [work EXCEPT !.publish = @ \ {e}]
  BY DEF PublishEndpoint, Applying, ctx
<1>2. /\ EndpointsOf(book', s) = EndpointsOf(book, s) \cup {e}
      /\ \A t \in Sock \ {s} : EndpointsOf(book', t) = EndpointsOf(book, t)
  <2>1. book \in Table /\ s \in Sock
    BY ApplyFacts
  <2>2. PICK owner \in Sock : owner = s
    BY <2>1
  <2>3. Inserted(book, book', e, owner) /\ book[e] = None
    BY <1>1, <2>1, <2>2 DEF Inserted, Table
  <2>4. /\ EndpointsOf(book', owner) = EndpointsOf(book, owner) \cup {e}
        /\ \A t \in Sock \ {owner} : EndpointsOf(book', t) = EndpointsOf(book, t)
    BY <2>1, <2>3, InsertOne
  <2> QED
    BY <2>2, <2>4
<1>3. Matches(s, nat, m, lost, work, dock, quic, book, torn)
  BY ApplyFacts
<1>4. Planned(bound, nat, m, lost, work)
  BY ApplyFacts
<1>5. /\ work'.phase = "apply" /\ work'.refreshed = work.refreshed
      /\ work'.register = work.register
      /\ work'.publish = work.publish \ {e} /\ work'.withdraw = work.withdraw
  BY <1>1, ApplyFacts DEF Work
<1>6. BookOf(bound, nat, m, work') = BookOf(bound, nat, m, work) \cup {e}
  <2>1. e \in new \ old /\ work.withdraw = old \ new
    BY <1>1, <1>4 DEF Planned
  <2> HIDE DEF bound, nat, m
  <2>2. /\ BookOf(bound, nat, m, work)
             = (old \cup ((new \ old) \ work.publish)) \ ((old \ new) \ work.withdraw)
        /\ BookOf(bound, nat, m, work')
             = (old \cup ((new \ old) \ (work.publish \ {e}))) \ ((old \ new) \ work.withdraw)
    BY <1>1, <1>5 DEF BookOf
  <2> HIDE DEF old, new
  <2> QED
    BY <2>1, <2>2
<1>7. QuicOf(bound, m, lost, work') = QuicOf(bound, m, lost, work)
  <2> HIDE DEF bound, m, lost
  <2> QED
    BY <1>1, <1>5 DEF QuicOf
<1>8. Matches(s, nat, m, lost, work', dock, quic, book', torn)
  <2> HIDE DEF s, nat, m, lost
  <2> QED
    BY <1>1, <1>2, <1>3, <1>5, <1>6, <1>7 DEF Matches, bound
<1>9. Matches(s, probe'[k].nat, probe'[k].mappings, probe'[k].lost, work',
              dock', quic', book', torn')
  BY <1>1, <1>8, ApplyFacts
<1> QED
  BY <1>1, <1>2, <1>9, ApplyFacts, PollingOne

\* A record is withdrawn: it is the socket's own, and not its direct one.
LEMMA WithdrawExact ==
    ASSUME IndInv, NEW k \in Key, ApplyStep(k), NEW e \in Endpoint, WithdrawEndpoint(k, e)
    PROVE  Exact
<1> DEFINE s == bindings[k]
           bound == AddrOf[s]
           nat == probe[k].nat
           m == probe[k].mappings
           lost == probe[k].lost
           old == PublishedEndpoints(bound, nat, m)
           new == PublishedEndpoints(bound, nat, work.refreshed)
<1>1. /\ book' = RemoveAll(book, {e})
      /\ UNCHANGED <<quic, probe>>
      /\ e \in work.withdraw /\ work.publish = {}
      /\ work.phase \in {"apply", "rollback"}
      /\ work' = [work EXCEPT !.withdraw = @ \ {e}]
  BY DEF WithdrawEndpoint, Applying, ctx
<1>3. Matches(s, nat, m, lost, work, dock, quic, book, torn)
  BY ApplyFacts
<1>4. Planned(bound, nat, m, lost, work)
  BY ApplyFacts
<1>5. /\ work'.phase = work.phase /\ work'.refreshed = work.refreshed
      /\ work'.register = work.register
      /\ work'.publish = work.publish /\ work'.withdraw = work.withdraw \ {e}
  BY <1>1, ApplyFacts DEF Work
<1>6. /\ e \in BookOf(bound, nat, m, work)
      /\ BookOf(bound, nat, m, work') = BookOf(bound, nat, m, work) \ {e}
      /\ e # Direct(bound)
  <2>0. Direct(bound) \notin old /\ Direct(bound) \notin new
    BY PublishedNotDirect
  <2>1. CASE work.phase = "apply"
    <3>1. e \in old \ new /\ work.withdraw \subseteq old \ new
      BY <1>1, <1>4, <2>1 DEF Planned
    <3> HIDE DEF bound, nat, m
    <3>2. /\ BookOf(bound, nat, m, work)
               = (old \cup ((new \ old) \ work.publish)) \ ((old \ new) \ work.withdraw)
          /\ BookOf(bound, nat, m, work')
               = (old \cup ((new \ old) \ work.publish)) \ ((old \ new) \ (work.withdraw \ {e}))
      BY <1>5, <2>1 DEF BookOf
    <3> HIDE DEF old, new
    <3> QED
      BY <1>1, <2>0, <3>1, <3>2
  <2>2. CASE work.phase = "rollback"
    <3>1. e \in new \ old
      BY <1>1, <1>4, <2>2 DEF Planned
    <3> HIDE DEF bound, nat, m
    <3>2. /\ BookOf(bound, nat, m, work) = old \cup work.withdraw
          /\ BookOf(bound, nat, m, work') = old \cup (work.withdraw \ {e})
      BY <1>5, <2>2 DEF BookOf
    <3> HIDE DEF old, new
    <3> QED
      BY <1>1, <2>0, <3>1, <3>2
  <2> QED
    BY <1>1, <2>1, <2>2
<1>2. /\ EndpointsOf(book', s) = EndpointsOf(book, s) \ {e}
      /\ \A t \in Sock \ {s} : EndpointsOf(book', t) = EndpointsOf(book, t)
  <2>1. book \in Table /\ s \in Sock
    BY ApplyFacts
  <2>2. e \in EndpointsOf(book, s)
    <3> HIDE DEF s, nat, m, lost
    <3> QED
      BY <1>3, <1>6 DEF Matches, bound
  <2>3. book[e] = s
    BY <2>2 DEF EndpointsOf
  <2> HIDE DEF s
  <2> QED
    BY <1>1, <2>1, <2>3, RemoveOne
<1>7. QuicOf(bound, m, lost, work') = QuicOf(bound, m, lost, work)
  <2> HIDE DEF bound, m, lost
  <2> QED
    BY <1>5 DEF QuicOf
<1>8. Matches(s, nat, m, lost, work', dock, quic, book', torn)
  <2> HIDE DEF s, nat, m, lost
  <2> QED
    BY <1>1, <1>2, <1>3, <1>5, <1>6, <1>7 DEF Matches, bound
<1>9. Matches(s, probe'[k].nat, probe'[k].mappings, probe'[k].lost, work',
              dock', quic', book', torn')
  BY <1>1, <1>8, ApplyFacts
<1> QED
  BY <1>1, <1>2, <1>9, ApplyFacts, PollingOne

\* A registration that cannot be restored is accounted for as lost.
LEMMA RestoreExact ==
    ASSUME IndInv, NEW k \in Key, ApplyStep(k), NEW e \in Endpoint, RestoreFails(k, e)
    PROVE  Exact
<1> DEFINE s == bindings[k]
           bound == AddrOf[s]
           nat == probe[k].nat
           m == probe[k].mappings
           lost == probe[k].lost
<1>1. /\ UNCHANGED <<quic, book>>
      /\ e \in work.register /\ work.phase = "rollback"
      /\ work' = [work EXCEPT !.register = @ \ {e}]
      /\ probe' = [probe EXCEPT ![k].lost = @ \cup {e}]
  BY DEF RestoreFails, Applying, registries
<1>2. Matches(s, nat, m, lost, work, dock, quic, book, torn)
  BY ApplyFacts
<1>3. /\ work'.phase = "rollback" /\ work'.refreshed = work.refreshed
      /\ work'.register = work.register \ {e}
      /\ work'.publish = work.publish /\ work'.withdraw = work.withdraw
  BY <1>1, ApplyFacts DEF Work
<1>4. /\ probe'[k].nat = nat /\ probe'[k].mappings = m /\ probe'[k].lost = lost \cup {e}
      /\ \A j \in Key \ {k} : probe'[j] = probe[j]
  BY <1>1, ApplyFacts DEF Probe
<1>5. BookOf(bound, nat, m, work') = BookOf(bound, nat, m, work)
  <2> HIDE DEF bound, nat, m
  <2> QED
    BY <1>1, <1>3 DEF BookOf
<1>6. QuicOf(bound, m, lost \cup {e}, work') = QuicOf(bound, m, lost, work)
  <2> HIDE DEF bound, nat, m, lost
  <2> QED
    BY <1>1, <1>3 DEF QuicOf
<1>7. Matches(s, nat, m, lost \cup {e}, work', dock, quic, book, torn)
  <2> HIDE DEF s, nat, m, lost
  <2> QED
    BY <1>1, <1>2, <1>3, <1>5, <1>6 DEF Matches, bound
<1>8. Matches(s, probe'[k].nat, probe'[k].mappings, probe'[k].lost, work',
              dock', quic', book', torn')
  BY <1>1, <1>4, <1>7, ApplyFacts
<1> QED
  BY <1>1, <1>4, <1>8, ApplyFacts, PollingOne

\* When nothing is left to do the registries agree with the mappings remembered.
LEMMA ApplyEndExact ==
    ASSUME IndInv, NEW k \in Key, ApplyStep(k), ApplyEnd(k)
    PROVE  Exact
<1> DEFINE s == bindings[k]
           bound == AddrOf[s]
           nat == probe[k].nat
           m == probe[k].mappings
           lost == probe[k].lost
           old == PublishedEndpoints(bound, nat, m)
           new == PublishedEndpoints(bound, nat, work.refreshed)
<1>1. /\ UNCHANGED <<quic, book>>
      /\ work.register = {} /\ work.publish = {} /\ work.withdraw = {}
      /\ work' = NoWork
      /\ \/ /\ work.phase = "apply"
            /\ probe' = [probe EXCEPT ![k].mappings = work.refreshed, ![k].lost = {}]
         \/ work.phase = "rollback" /\ probe' = probe
  BY DEF ApplyEnd, Applying, registries
<1>2. Matches(s, nat, m, lost, work, dock, quic, book, torn)
  BY ApplyFacts
<1>3. CASE work.phase = "apply"
  <2>1. /\ probe'[k].nat = nat /\ probe'[k].mappings = work.refreshed /\ probe'[k].lost = {}
        /\ \A j \in Key \ {k} : probe'[j] = probe[j]
    BY <1>1, <1>3, ApplyFacts DEF Probe
  <2>2. /\ BookOf(bound, nat, work.refreshed, NoWork) = BookOf(bound, nat, m, work)
        /\ QuicOf(bound, work.refreshed, {}, NoWork) = QuicOf(bound, m, lost, work)
    <3> HIDE DEF bound, nat, m, lost
    <3>1. /\ BookOf(bound, nat, m, work) = (old \cup ((new \ old) \ {})) \ ((old \ new) \ {})
          /\ BookOf(bound, nat, work.refreshed, NoWork) = new
      BY <1>1, <1>3 DEF BookOf, NoWork
    <3>2. QuicOf(bound, work.refreshed, {}, NoWork) = QuicOf(bound, m, lost, work)
      BY <1>1, <1>3 DEF QuicOf, NoWork
    <3> HIDE DEF old, new
    <3> QED
      BY <3>1, <3>2
  <2>3. Matches(s, nat, work.refreshed, {}, NoWork, dock, quic, book, torn)
    <3> HIDE DEF s, nat, m, lost
    <3> QED
      BY <1>2, <1>3, <2>2 DEF Matches, bound
  <2>4. Matches(s, probe'[k].nat, probe'[k].mappings, probe'[k].lost, work',
                dock', quic', book', torn')
    BY <1>1, <2>1, <2>3, ApplyFacts
  <2> QED
    BY <1>1, <2>1, <2>4, ApplyFacts, PollingOne
<1>4. CASE work.phase = "rollback"
  <2>1. probe' = probe
    BY <1>1, <1>4
  <2>2. /\ BookOf(bound, nat, m, NoWork) = BookOf(bound, nat, m, work)
        /\ QuicOf(bound, m, lost, NoWork) = QuicOf(bound, m, lost, work)
    <3> HIDE DEF bound, nat, m, lost
    <3> QED
      BY <1>1, <1>4 DEF BookOf, QuicOf, NoWork
  <2>3. Matches(s, nat, m, lost, NoWork, dock, quic, book, torn)
    <3> HIDE DEF s, nat, m, lost
    <3> QED
      BY <1>2, <1>4, <2>2 DEF Matches, bound
  <2>4. Matches(s, probe'[k].nat, probe'[k].mappings, probe'[k].lost, work',
                dock', quic', book', torn')
    BY <1>1, <2>1, <2>3, ApplyFacts
  <2> QED
    BY <1>1, <2>1, <2>4, ApplyFacts, PollingOne
<1> QED
  BY <1>1, <1>3, <1>4

\* Every step keeps the registries exact and other owners' records in place.
LEMMA ExactStep == IndInv /\ [Next]_vars => Exact
<1> SUFFICES ASSUME IndInv, [Next]_vars PROVE Exact
  OBVIOUS
<1>i. TypeOK /\ StageInv /\ NoResidue
  BY DEF IndInv
<1>n. /\ stopped => Mine = {}
      /\ polling = None => work.phase = "idle"
  BY <1>i DEF NoResidue, StageInv
<1>1. ASSUME UNCHANGED <<registries, bindings, probe, stopped, work>>,
             polling' = polling \/ work.phase = "idle"
      PROVE  Exact
  BY <1>1, <1>n, QuietExact DEF registries
<1>2. ASSUME NEW k \in Key, HeartbeatTick(k) PROVE Exact
  <2>1. \A j \in Key : /\ probe'[j].nat = probe[j].nat
                       /\ probe'[j].mappings = probe[j].mappings
                       /\ probe'[j].lost = probe[j].lost
    BY <1>i, <1>2 DEF HeartbeatTick, TypeOK, Probe
  <2> QED
    BY <1>2, <1>n, <2>1, QuietExact DEF HeartbeatTick, registries, lock
<1>3. ASSUME NEW k \in Key, NEW servers \in SUBSET Server, Discovered(k, servers)
      PROVE Exact
  <2>1. \A j \in Key : /\ probe'[j].nat = probe[j].nat
                       /\ probe'[j].mappings = probe[j].mappings
                       /\ probe'[j].lost = probe[j].lost
    BY <1>i, <1>3 DEF Discovered, TypeOK, Probe
  <2> QED
    BY <1>3, <1>n, <2>1, QuietExact DEF Discovered, registries, lock
<1>4. ASSUME NEW r \in Resumer, ResumeEnd(r) PROVE Exact
  <2>1. \A j \in Key : /\ probe'[j].nat = probe[j].nat
                       /\ probe'[j].mappings = probe[j].mappings
                       /\ probe'[j].lost = probe[j].lost
    BY <1>i, <1>4 DEF ResumeEnd, TypeOK, Probe
  <2> QED
    BY <1>4, <1>n, <2>1, QuietExact DEF ResumeEnd, registries
<1>5. CASE StopEnd
  <2>1. Bound = {}
    BY <1>i, <1>5 DEF StopEnd, StageInv
  <2>2. Mine = {}
    BY <2>1, RegistriesAssumption DEF Bound, Mine
  <2> QED
    BY <1>5, <2>2, QuietExact DEF StopEnd, registries
<1>6. ASSUME \/ InterfacesChange \/ ScanCollect \/ ScanRemoved \/ ScanBound
             \/ \E k \in Key : BindFails(k) \/ NatEnter(k)
             \/ NatPending \/ PollBegin \/ PollEnd \/ StopBegin
             \/ \E r \in Resumer : ResumeCall(r) \/ ResumeLock(r) \/ ResumeFails(r)
             \/ UNCHANGED vars
      PROVE Exact
  BY <1>1, <1>n, <1>6 DEF InterfacesChange, ScanCollect, ScanRemoved, ScanBound, BindFails,
       NatEnter, NatPending, PollBegin, PollEnd, StopBegin, ResumeCall, ResumeLock,
       ResumeFails, vars, ctx, lock
<1>7. ASSUME NEW k \in Key, ApplyStep(k) PROVE Exact
  BY <1>7, CheckExact, DropExact, RegisterExact, PublishExact, WithdrawExact, RestoreExact,
     ApplyEndExact DEF ApplyStep
<1>8. CASE Idle
  BY <1>2, <1>3, <1>4, <1>5, <1>6, <1>7, <1>8, ClassifiedExact, MeasuredExact
     DEF Idle, NatStep, ResumeStep
<1> QED
  BY <1>8, NextIs, RemoveExact, BindExact, ReceiverExact, ForgetExact, ForeignExact

-----------------------------------------------------------------------------

\* After Interfaces::init nothing is bound and nothing is registered.
LEMMA InitInv == Init => IndInv
<1> SUFFICES ASSUME Init PROVE IndInv
  OBVIOUS
<1> USE RegistriesAssumption, InterfacesAssumption DEF Init
<1>0. Mine = {} /\ Bound = {}
  BY DEF Mine, Bound
<1>1. TypeOK
  <2>1. probe \in [Key -> Probe] /\ work \in Work
    BY ProbeTypes, WorkTypes
  <2>2. /\ dock \in [Addr -> Sock \cup {None}]
        /\ quic \in [Endpoint -> Sock \cup {None}]
        /\ book \in [Endpoint -> Sock \cup {None}]
        /\ natOf \in [Addr -> NatType \cup {NoNat}]
        /\ bindings \in [Key -> Sock \cup {None}]
    BY DEF NoEndpoint
  <2>3. /\ caller \in [Resumer -> {"idle", "subscribed", "locked", "ok", "err"}]
        /\ fresh \in [Resumer -> BOOLEAN]
        /\ since \in [Resumer -> 0 .. MaxVersion]
    OBVIOUS
  <2>4. /\ version \in 0 .. MaxVersion /\ seen \in 0 .. MaxVersion
        /\ os \subseteq Key /\ snapshot \subseteq Key
    OBVIOUS
  <2>5. /\ finished \subseteq Sock /\ foreign \subseteq Sock /\ torn \subseteq Sock
        /\ stopped \in BOOLEAN /\ notified \in BOOLEAN
        /\ holder \in {"none", "poll", "stop"} \cup Resumer
        /\ stage \in {"free", "scan", "remove", "bind", "nat"}
        /\ todo \subseteq Key /\ polling \in Key \cup {None}
    OBVIOUS
  <2> QED
    BY <2>1, <2>2, <2>3, <2>4, <2>5 DEF TypeOK
<1>2. OwnersInv /\ DockInv /\ StageInv /\ WorkInv
  BY <1>0 DEF OwnersInv, DockInv, StageInv, WorkInv, NoWork
<1>3. ProbeInv
  BY DEF ProbeInv, FreshProbe
<1>4. FreshInv /\ ResumeIsFresh
  BY DEF FreshInv, ResumeIsFresh
<1>5. TablesInv /\ NoResidue
  <2>1. \A s \in Sock : EndpointsOf(book, s) = {} /\ EndpointsOf(quic, s) = {}
    BY DEF EndpointsOf, NoEndpoint
  <2>2. NoResidue
    BY <1>0, <2>1 DEF NoResidue
  <2> QED
    BY <1>0, <2>2 DEF TablesInv
<1> QED
  BY <1>1, <1>2, <1>3, <1>4, <1>5 DEF IndInv

\* The inductive invariant of the interface manager: one owner per address, work
\* lists that are true to the bindings, mappings only under a heartbeat, and
\* registries that hold what the bindings call for at every moment, those in the
\* middle of an update included, minus what a roll back could not restore.
THEOREM Inductive == Spec => []IndInv
<1>1. IndInv /\ [Next]_vars => IndInv'
  BY TypeStep, OwnersStep, DockStep, ProbeStep, StageStep, WorkStep, FreshStep, ExactStep
     DEF IndInv, Exact
<1> QED
  BY InitInv, <1>1, PTL DEF Spec

\* The state of the interface manager keeps its types.
THEOREM TypeCorrect == Spec => []TypeOK
<1>1. IndInv => TypeOK
  BY DEF IndInv
<1> QED
  BY Inductive, <1>1, PTL

\* For any interfaces, sockets, servers and other owners, whatever these do between
\* two calls of an update of the mappings: when no update of a binding is under way,
\* the address book holds exactly what the binding owns, and the QUIC table all of
\* it but what a roll back tried and failed to register again; nothing is left of
\* what was withdrawn (RegistriesExact).
THEOREM RegistriesCorrect == Spec => []RegistriesExact
<1>1. ASSUME IndInv PROVE RegistriesExact
  <2>1. ASSUME NEW k \in Bound, AtRest(k)
        PROVE  /\ EndpointsOf(book, bindings[k]) =
                    PublishedEndpoints(AddrOf[bindings[k]], probe[k].nat, probe[k].mappings)
                      \cup (IF AddrOf[bindings[k]] \in Unscoped THEN {}
                            ELSE {Direct(AddrOf[bindings[k]])})
               /\ bindings[k] \notin torn =>
                    EndpointsOf(quic, bindings[k]) =
                      IF EnsureRegisteredSocket(bindings[k])
                        THEN RegisteredEndpoints(AddrOf[bindings[k]], probe[k].mappings)
                               \ probe[k].lost
                        ELSE {}
    <3>1. WorkOf(k).phase = "idle"
      BY <2>1 DEF AtRest, WorkOf, NoWork
    <3>2. Matches(bindings[k], probe[k].nat, probe[k].mappings, probe[k].lost, WorkOf(k),
                  dock, quic, book, torn)
      BY <1>1, BoundFacts
    <3> QED
      BY <3>1, <3>2 DEF Matches, BookOf, QuicOf, EnsureRegisteredSocket
  <2>2. RegistriesMatchMappings
    BY <2>1 DEF RegistriesMatchMappings
  <2> QED
    BY <1>1, <2>2 DEF IndInv, RegistriesExact
<1>2. IndInv => RegistriesExact
  BY <1>1
<1> QED
  BY Inductive, <1>2, PTL

\* A resume that succeeded enumerated after it was called, and no change of the
\* interfaces is both missing from the snapshot and unannounced (ResumeIsFresh).
THEOREM ResumeCorrect == Spec => []ResumeIsFresh
<1>1. IndInv => ResumeIsFresh
  BY DEF IndInv
<1> QED
  BY Inductive, <1>1, PTL

\* No step of the interface manager takes a record from another owner of the
\* registries, although removal goes by address and by endpoint and the calls of an
\* update are interleaved with that owner's own (ForeignPreserved).
THEOREM ForeignCorrect == Spec => ForeignPreserved
<1>1. IndInv /\ [Next]_vars =>
        [\A s \in foreign \cap foreign' :
           /\ EndpointsOf(book, s) \subseteq EndpointsOf(book', s)
           /\ EndpointsOf(quic, s) \subseteq EndpointsOf(quic', s)
           /\ dock[AddrOf[s]] = s => dock'[AddrOf[s]] = s]_vars
  BY ExactStep DEF ForeignKept, Exact
<1> QED
  BY Inductive, <1>1, PTL DEF Spec, ForeignPreserved

=============================================================================
