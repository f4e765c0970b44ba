----------------------------- MODULE Interfaces -----------------------------
(***************************************************************************)
(* Network interfaces, bindings and NAT maintenance of a dhttp process:    *)
(* dhttp/src/network/interfaces.rs and interfaces/nat.rs.                  *)
(*                                                                         *)
(* One Mutex<Option<InterfacesCtx>> serializes the background poll, any    *)
(* number of resume() calls and the cleanup of the maintenance task.  What *)
(* the mutex does not stop is everything around it: the OS changes its     *)
(* interfaces, a receive loop ends, other owners use the same registries.  *)
(* The lock holder therefore works in small steps (one binding at a time,  *)
(* one call on a registry at a time while mappings are applied) and those  *)
(* events may fall between any two of them.                                *)
(***************************************************************************)
EXTENDS Registries, Naturals

CONSTANTS
    Key,        \* InterfaceAddress: device name, index, hardware id and ip
    Binds,      \* Binds[k]: addresses the OS may give a socket bound for k
    Unscoped,   \* addresses whose endpoint has no Scope: never published
    NoProbe,    \* loopback and link-local addresses: no STUN traffic
    Outer,      \* usable public addresses a STUN server may report
    Resumer,    \* concurrent callers of Interfaces::resume
    EnumMayFail, \* whether netwatcher::list_interfaces may fail
    Contested,  \* bound: endpoints other owners register or publish
    MaxVersion  \* bound: how often the OS interface list changes

ASSUME InterfacesAssumption ==
    /\ Binds \in [Key -> SUBSET Addr]
    /\ Unscoped \subseteq Addr
    /\ NoProbe \subseteq Addr
    /\ Outer \subseteq Addr
    /\ Contested \subseteq Endpoint
    /\ MaxVersion \in Nat
    /\ EnumMayFail \in BOOLEAN
    /\ None \notin Resumer
    /\ None \notin Key
    /\ {"poll", "stop", "none"} \cap Resumer = {}

NatType == {"FullCone", "Restricted"}
NoNat == "unknown"

Mapping == [Server -> Outer \cup {None}]
NoMapping == [v \in Server |-> None]

Probe == [phase     : {"absent", "initial", "classifying", "heartbeat"},
          servers   : SUBSET Server,
          nat       : NatType \cup {NoNat},
          mappings  : Mapping,
          measuring : BOOLEAN,
          lost      : SUBSET Endpoint]  \* history: not restored by a roll back

FreshProbe(phase) ==
    [phase |-> phase, servers |-> {}, nat |-> NoNat,
     mappings |-> NoMapping, measuring |-> FALSE, lost |-> {}]

\* apply_outer_mappings under way for the binding that is being polled: the
\* endpoints still to check or to register, to publish, and to withdraw.
Work == [phase     : {"idle", "check", "apply", "rollback"},
         refreshed : Mapping,
         register  : SUBSET Endpoint,
         publish   : SUBSET Endpoint,
         withdraw  : SUBSET Endpoint]

NoWork == [phase |-> "idle", refreshed |-> NoMapping,
           register |-> {}, publish |-> {}, withdraw |-> {}]

VARIABLES
    \* the operating system
    os,         \* interface addresses that exist now
    version,    \* how often os has changed
    \* registries (external, shared with other owners)
    dock, quic, book, natOf,
    finished,   \* tracked sockets whose receive loop has ended
    foreign,    \* sockets that other owners keep open
    torn,       \* sockets the Dock dropped while their mappings were applied
    \* InterfacesCtx
    stopped,    \* the Option is None
    snapshot,   \* last enumerated interface addresses
    seen,       \* version at which snapshot was enumerated
    notified,   \* the watcher has a change to report
    bindings,   \* Key -> socket or None
    probe,      \* Key -> Nat state of the binding
    \* the holder of the mutex and where it is
    holder, stage, todo,
    polling,    \* the binding whose Nat future is being polled
    work,       \* what apply_outer_mappings has still to do for it
    \* resume() callers
    caller,     \* progress of each call
    fresh,      \* the caller's new watcher has a change to report
    since       \* version when the call began

env == <<os, version>>
registries == <<dock, quic, book, natOf, finished, foreign, torn>>
ctx == <<stopped, snapshot, seen, notified, bindings, probe>>
lock == <<holder, stage, todo, polling, work>>
callers == <<caller, fresh, since>>
vars == <<env, registries, ctx, lock, callers>>

TypeOK ==
    /\ os \subseteq Key
    /\ version \in 0 .. MaxVersion
    /\ dock \in [Addr -> Sock \cup {None}]
    /\ quic \in [Endpoint -> Sock \cup {None}]
    /\ book \in [Endpoint -> Sock \cup {None}]
    /\ natOf \in [Addr -> NatType \cup {NoNat}]
    /\ finished \subseteq Sock
    /\ foreign \subseteq Sock
    /\ torn \subseteq Sock
    /\ stopped \in BOOLEAN
    /\ snapshot \subseteq Key
    /\ seen \in 0 .. MaxVersion
    /\ notified \in BOOLEAN
    /\ bindings \in [Key -> Sock \cup {None}]
    /\ probe \in [Key -> Probe]
    /\ holder \in {"none", "poll", "stop"} \cup Resumer
    /\ stage \in {"free", "scan", "remove", "bind", "nat"}
    /\ todo \subseteq Key
    /\ polling \in Key \cup {None}
    /\ work \in Work
    /\ caller \in [Resumer -> {"idle", "subscribed", "locked", "ok", "err"}]
    /\ fresh \in [Resumer -> BOOLEAN]
    /\ since \in [Resumer -> 0 .. MaxVersion]

(***************************************************************************)
(* The state after Interfaces::init has subscribed and enumerated: nothing *)
(* is bound yet and the initial scan is about to run, before start() and   *)
(* so before anybody else can take the lock.  It is the first poll here.   *)
(***************************************************************************)
Init ==
    /\ os \in SUBSET Key
    /\ version = 0
    /\ dock = [a \in Addr |-> None]
    /\ quic = NoEndpoint
    /\ book = NoEndpoint
    /\ natOf = [a \in Addr |-> NoNat]
    /\ finished = {}
    /\ foreign = {}
    /\ torn = {}
    /\ stopped = FALSE
    /\ snapshot = os
    /\ seen = 0
    /\ notified = FALSE
    /\ bindings = [k \in Key |-> None]
    /\ probe = [k \in Key |-> FreshProbe("absent")]
    /\ holder = "poll"
    /\ stage = "scan"
    /\ todo = {}
    /\ polling = None
    /\ work = NoWork
    /\ caller = [r \in Resumer |-> "idle"]
    /\ fresh = [r \in Resumer |-> FALSE]
    /\ since = [r \in Resumer |-> 0]

-----------------------------------------------------------------------------
\* The operating system and the other owners of the registries.

InterfacesChange ==
    /\ version < MaxVersion
    /\ os' \in SUBSET Key \ {os}
    /\ version' = version + 1
    /\ notified' = TRUE
    /\ fresh' = [r \in Resumer |-> caller[r] = "subscribed"]
    /\ UNCHANGED <<registries, stopped, snapshot, seen, bindings, probe,
                   lock, caller, since>>

Mine == {s \in Sock : \E k \in Key : bindings[k] = s}

\* A socket somebody still holds, a table of the registries included; the OS
\* gives its address to nobody else.
Held == Mine \cup foreign \cup torn \cup {s \in Sock : \E a \in Addr : dock[a] = s}

Available(s) == \A t \in Held : AddrOf[t] # AddrOf[s]

\* The receive loop of one of our sockets ends (an I/O error or an abort).
\* The Dock may have dropped the socket, and with it its QUIC endpoints; the
\* publication is left to the interface scan.  Mappings being applied to that
\* socket meanwhile are applied on, to a socket that is not in the Dock.
ReceiverExit(s) ==
    /\ s \in Mine \ finished
    /\ finished' = finished \cup {s}
    /\ \/ UNCHANGED <<dock, quic, torn>>
       \/ /\ dock' = DockRemove(dock, s)
          /\ quic' = RemoveBound(quic, AddrOf[s])
          /\ torn' = torn \cup {t \in {s} : work.phase # "idle" /\ bindings[polling] = t}
    /\ UNCHANGED <<env, book, natOf, foreign, ctx, lock, callers>>

\* The QUIC table forgets a socket that nobody else refers to any more (if its
\* references are strong ones, this never happens).
TableForgets(s) ==
    /\ s \in torn \ Mine
    /\ torn' = torn \ {s}
    /\ quic' = RemoveBound(quic, AddrOf[s])
    /\ UNCHANGED <<env, dock, book, natOf, finished, foreign, ctx, lock, callers>>

ForeignAdd(s) ==
    /\ s \in Sock \ Held
    /\ Available(s)
    /\ quic[Direct(AddrOf[s])] = None
    /\ foreign' = foreign \cup {s}
    /\ dock' = [dock EXCEPT ![AddrOf[s]] = s]
    /\ quic' = [quic EXCEPT ![Direct(AddrOf[s])] = s]
    /\ UNCHANGED <<env, book, natOf, finished, torn, ctx, lock, callers>>

ForeignRegister(s, e) ==
    /\ s \in foreign
    /\ quic[e] = None
    /\ quic' = [quic EXCEPT ![e] = s]
    /\ UNCHANGED <<env, dock, book, natOf, finished, foreign, torn, ctx, lock, callers>>

ForeignPublish(s, e) ==
    /\ s \in foreign
    /\ book[e] = None
    /\ book' = [book EXCEPT ![e] = s]
    /\ UNCHANGED <<env, dock, quic, natOf, finished, foreign, torn, ctx, lock, callers>>

ForeignLeave(s) ==
    /\ s \in foreign
    /\ foreign' = foreign \ {s}
    /\ dock' = DockRemove(dock, s)
    /\ quic' = RemoveBound(quic, AddrOf[s])
    /\ book' = RemoveBound(book, AddrOf[s])
    /\ UNCHANGED <<env, natOf, finished, torn, ctx, lock, callers>>

-----------------------------------------------------------------------------
\* InterfacesCtx::scan, entered by the holder of the lock at stage "scan".

EnsureRegisteredSocket(s) == dock[AddrOf[s]] = s

Live(k) ==
    /\ bindings[k] # None
    /\ bindings[k] \notin finished
    /\ EnsureRegisteredSocket(bindings[k])

Bound == {k \in Key : bindings[k] # None}

Obsolete == {k \in Bound : ~Live(k) \/ k \notin snapshot}

\* Mutant: the scan looks only at the snapshot, not at the receive loops.
ScanCollectIgnoresDead ==
    /\ stage = "scan"
    /\ stage' = "remove"
    /\ todo' = IF holder = "stop" THEN Bound ELSE Bound \ snapshot
    /\ UNCHANGED <<env, registries, ctx, holder, polling, work, callers>>

ScanCollect ==
    /\ stage = "scan"
    /\ stage' = "remove"
    /\ todo' = IF holder = "stop" THEN Bound ELSE Obsolete
    /\ UNCHANGED <<env, registries, ctx, holder, polling, work, callers>>

\* Drop the binding with its NAT future, then InterfacesCtx::remove.
RemoveBinding(k) ==
    /\ stage = "remove"
    /\ k \in todo
    /\ LET s == bindings[k] IN
         /\ book' = RemoveBound(book, AddrOf[s])
         /\ natOf' = [natOf EXCEPT ![AddrOf[s]] = NoNat]
         /\ finished' = finished \ {s}
         /\ IF EnsureRegisteredSocket(s)
              THEN /\ dock' = DockRemove(dock, s)
                   /\ quic' = RemoveBound(quic, AddrOf[s])
              ELSE UNCHANGED <<dock, quic>>
    /\ bindings' = [bindings EXCEPT ![k] = None]
    /\ probe' = [probe EXCEPT ![k] = FreshProbe("absent")]
    /\ todo' = todo \ {k}
    /\ UNCHANGED <<env, foreign, torn, stopped, snapshot, seen, notified,
                   holder, stage, polling, work, callers>>

ScanRemoved ==
    /\ stage = "remove"
    /\ todo = {}
    /\ holder # "stop"
    /\ stage' = "bind"
    /\ todo' = snapshot \ Bound
    /\ UNCHANGED <<env, registries, ctx, holder, polling, work, callers>>

\* bind_to_device fails, Dock::add fails or reports the address as taken.
BindFails(k) ==
    /\ stage = "bind"
    /\ k \in todo
    /\ todo' = todo \ {k}
    /\ UNCHANGED <<env, registries, ctx, holder, stage, polling, work, callers>>

\* InterfacesCtx::register of a newly bound socket.
BindKey(k, s) ==
    /\ stage = "bind"
    /\ k \in todo
    /\ s \in Sock \ Held
    /\ AddrOf[s] \in Binds[k]
    /\ Available(s)
    /\ LET bound == AddrOf[s]
           direct == Direct(bound)
           added == [dock EXCEPT ![bound] = s]
           registered == [quic EXCEPT ![direct] = s]
       IN
         /\ quic[direct] = None           \* otherwise Dock::add fails
         /\ \/ /\ bound \in Unscoped \/ book[direct] = None
               /\ dock' = added
               /\ quic' = registered
               /\ book' = IF bound \in Unscoped THEN book
                          ELSE [book EXCEPT ![direct] = s]
               /\ bindings' = [bindings EXCEPT ![k] = s]
               /\ probe' = [probe EXCEPT ![k] =
                     FreshProbe(IF bound \in NoProbe THEN "absent" ELSE "initial")]
            \/ \* the publication exists already: undo the registration
               /\ bound \notin Unscoped /\ book[direct] # None
               /\ dock' = DockRemove(added, s)
               /\ quic' = RemoveBound(registered, bound)
               /\ UNCHANGED <<book, bindings, probe>>
    /\ todo' = todo \ {k}
    /\ UNCHANGED <<env, natOf, finished, foreign, torn, stopped, snapshot, seen,
                   notified, holder, stage, polling, work, callers>>

Probing == {k \in Bound : probe[k].phase # "absent"}

ScanBound ==
    /\ stage = "bind"
    /\ todo = {}
    /\ stage' = "nat"
    /\ todo' = Probing
    /\ UNCHANGED <<env, registries, ctx, holder, polling, work, callers>>

-----------------------------------------------------------------------------
\* InterfacesCtx::poll, run by the maintenance task.

PollBegin ==
    /\ stage = "free"
    /\ ~stopped
    /\ holder' = "poll"
    /\ stage' = "scan"
    /\ notified' = FALSE
    /\ \/ notified /\ snapshot' = os /\ seen' = version
       \/ \* no event, or an event whose enumeration failed
          (notified => EnumMayFail) /\ UNCHANGED <<snapshot, seen>>
    /\ UNCHANGED <<env, registries, stopped, bindings, probe, todo, polling,
                   work, callers>>

\* Nat::poll is entered only for a socket the Dock still knows.
NatEnter(k) ==
    /\ holder = "poll"
    /\ stage = "nat"
    /\ polling = None
    /\ k \in todo
    /\ todo' = todo \ {k}
    /\ polling' = IF EnsureRegisteredSocket(bindings[k]) THEN k ELSE None
    /\ UNCHANGED <<env, registries, ctx, holder, stage, work, callers>>

\* The future the current phase waits for is not ready.
NatPending ==
    /\ polling # None
    /\ work.phase = "idle"
    /\ polling' = None
    /\ UNCHANGED <<env, registries, ctx, holder, stage, todo, work, callers>>

\* Probe::Initial: discovery returned servers of the socket's family.
Discovered(k, servers) ==
    /\ polling = k
    /\ probe[k].phase = "initial"
    /\ servers # {}
    /\ probe' = [probe EXCEPT ![k].phase = "classifying", ![k].servers = servers]
    /\ UNCHANGED <<env, registries, stopped, snapshot, seen, notified, bindings,
                   lock, callers>>

\* Probe::Classifying: an answer, or NoNat for an error or the timeout.
Classified(k, nat) ==
    /\ polling = k
    /\ probe[k].phase = "classifying"
    /\ natOf' = IF nat = NoNat THEN natOf
                ELSE [natOf EXCEPT ![AddrOf[bindings[k]]] = nat]
    /\ probe' = [probe EXCEPT ![k].phase = "heartbeat", ![k].nat = nat,
                              ![k].mappings = NoMapping, ![k].measuring = FALSE]
    /\ UNCHANGED <<env, dock, quic, book, finished, foreign, torn, stopped,
                   snapshot, seen, notified, bindings, lock, callers>>

\* Probe::Heartbeat: the interval ticks and a measurement starts.
HeartbeatTick(k) ==
    /\ polling = k
    /\ probe[k].phase = "heartbeat"
    /\ ~probe[k].measuring
    /\ work.phase = "idle"
    /\ probe' = [probe EXCEPT ![k].measuring = TRUE]
    /\ UNCHANGED <<env, registries, stopped, snapshot, seen, notified, bindings,
                   lock, callers>>

RegisteredEndpoints(bound, m) ==
    {Direct(bound)}
      \cup {Direct(m[v]) : v \in {w \in Server : m[w] # None}}
      \cup {Mediate(v, m[v]) : v \in {w \in Server : m[w] # None}}

PublishedEndpoints(bound, nat, m) ==
    ({Mediate(v, m[v]) : v \in {w \in Server : m[w] # None}}
       \cup {Direct(m[v]) : v \in {w \in Server : m[w] # None /\ nat = "FullCone"}})
      \ {Direct(bound)}

\* What a refreshed mapping publishes that the applied one does not, or conversely.
Additions(k, m) ==
    LET bound == AddrOf[bindings[k]]
    IN  PublishedEndpoints(bound, probe[k].nat, m)
          \ PublishedEndpoints(bound, probe[k].nat, probe[k].mappings)

Removals(k, m) ==
    LET bound == AddrOf[bindings[k]]
    IN  PublishedEndpoints(bound, probe[k].nat, probe[k].mappings)
          \ PublishedEndpoints(bound, probe[k].nat, m)

\* The measurement is ready; servers that failed are absent from refreshed.
\* apply_outer_mappings begins unless there is nothing to do.
MeasurementReady(k, refreshed) ==
    LET s == bindings[k] IN
    /\ polling = k
    /\ probe[k].phase = "heartbeat"
    /\ probe[k].measuring
    /\ \A v \in Server \ probe[k].servers : refreshed[v] = None
    /\ probe' = [probe EXCEPT ![k].measuring = FALSE]
    /\ \/ /\ ~EnsureRegisteredSocket(s) \/ probe[k].mappings = refreshed
          /\ polling' = None
          /\ UNCHANGED work
       \/ /\ EnsureRegisteredSocket(s)
          /\ probe[k].mappings # refreshed
          /\ work' = [NoWork EXCEPT !.phase = "check", !.refreshed = refreshed,
                        !.register = RegisteredEndpoints(AddrOf[s], refreshed)]
          /\ UNCHANGED polling
    /\ UNCHANGED <<env, registries, stopped, snapshot, seen, notified, bindings,
                   holder, stage, todo, callers>>

\* The rest of apply_outer_mappings is done by the binding that is polled, in
\* calls on the registries between which their other users act.
Applying(k, phase) == polling = k /\ work.phase = phase

\* A desired endpoint belongs to nobody else ...
CheckEndpoint(k, e) ==
    /\ Applying(k, "check")
    /\ e \in work.register
    /\ quic[e] \in {None, bindings[k]}
    /\ work' = [work EXCEPT !.register = @ \ {e}]
    /\ UNCHANGED <<env, registries, ctx, holder, stage, todo, polling, callers>>

\* ... or the update is refused before anything is touched.
MappingConflict(k) ==
    /\ Applying(k, "check")
    /\ \E e \in work.register : quic[e] \notin {None, bindings[k]}
    /\ work' = NoWork
    /\ polling' = None
    /\ UNCHANGED <<env, registries, ctx, holder, stage, todo, callers>>

\* All checked: every QUIC registration of the socket is dropped.
UnregisterAll(k) ==
    /\ Applying(k, "check")
    /\ work.register = {}
    /\ quic' = RemoveBound(quic, AddrOf[bindings[k]])
    /\ work' = [work EXCEPT !.phase = "apply",
                  !.register = RegisteredEndpoints(AddrOf[bindings[k]], work.refreshed),
                  !.publish = Additions(k, work.refreshed),
                  !.withdraw = Removals(k, work.refreshed)]
    /\ UNCHANGED <<env, dock, book, natOf, finished, foreign, torn, ctx, holder, stage,
                   todo, polling, callers>>

RegisterEndpoint(k, e) ==
    /\ Applying(k, "apply") \/ Applying(k, "rollback")
    /\ e \in work.register
    /\ quic[e] = None
    /\ quic' = [quic EXCEPT ![e] = bindings[k]]
    /\ work' = [work EXCEPT !.register = @ \ {e}]
    /\ UNCHANGED <<env, dock, book, natOf, finished, foreign, torn, ctx, holder, stage,
                   todo, polling, callers>>

PublishEndpoint(k, e) ==
    /\ Applying(k, "apply")
    /\ work.register = {}
    /\ e \in work.publish
    /\ book[e] = None
    /\ book' = [book EXCEPT ![e] = bindings[k]]
    /\ work' = [work EXCEPT !.publish = @ \ {e}]
    /\ UNCHANGED <<env, dock, quic, natOf, finished, foreign, torn, ctx, holder, stage,
                   todo, polling, callers>>

\* AddressBook::remove of an obsolete record, or of an addition rolled back.
WithdrawEndpoint(k, e) ==
    /\ Applying(k, "apply") \/ Applying(k, "rollback")
    /\ work.register = {} /\ work.publish = {}
    /\ e \in work.withdraw
    /\ book' = RemoveAll(book, {e})
    /\ work' = [work EXCEPT !.withdraw = @ \ {e}]
    /\ UNCHANGED <<env, dock, quic, natOf, finished, foreign, torn, ctx, holder, stage,
                   todo, polling, callers>>

\* The QUIC table refuses an endpoint that belongs to somebody else, and it may
\* refuse a socket the Dock does not know.
Refused(k, e) == quic[e] # None \/ ~EnsureRegisteredSocket(bindings[k])

\* Mutant: the previous mappings are restored but not the direct binding.
UpdateFailsWithoutDirect(k) ==
    /\ Applying(k, "apply")
    /\ work.register = {} /\ work.publish # {}
    /\ quic' = RemoveBound(quic, AddrOf[bindings[k]])
    /\ work' = [work EXCEPT !.phase = "rollback",
                  !.register = RegisteredEndpoints(AddrOf[bindings[k]], probe[k].mappings)
                                 \ {Direct(AddrOf[bindings[k]])},
                  !.withdraw = Additions(k, work.refreshed) \ work.publish,
                  !.publish = {}]
    /\ probe' = [probe EXCEPT ![k].lost = {}]
    /\ UNCHANGED <<env, dock, book, natOf, finished, foreign, torn, stopped, snapshot, seen,
                   notified, bindings, holder, stage, todo, polling, callers>>

\* Mutant: every addition is withdrawn, also those that were not published.
UpdateFailsWithdrawsAll(k) ==
    /\ Applying(k, "apply")
    /\ work.register = {} /\ work.publish # {}
    /\ quic' = RemoveBound(quic, AddrOf[bindings[k]])
    /\ work' = [work EXCEPT !.phase = "rollback",
                  !.register = RegisteredEndpoints(AddrOf[bindings[k]], probe[k].mappings),
                  !.withdraw = Additions(k, work.refreshed),
                  !.publish = {}]
    /\ probe' = [probe EXCEPT ![k].lost = {}]
    /\ UNCHANGED <<env, dock, book, natOf, finished, foreign, torn, stopped, snapshot, seen,
                   notified, bindings, holder, stage, todo, polling, callers>>

\* A registration or a publication fails: what is registered is dropped, to be
\* registered again as before, and what was published is withdrawn.
UpdateFails(k) ==
    /\ Applying(k, "apply")
    /\ \/ \E e \in work.register : Refused(k, e)
       \/ work.register = {} /\ work.publish # {}
    /\ quic' = RemoveBound(quic, AddrOf[bindings[k]])
    /\ work' = [work EXCEPT !.phase = "rollback",
                  !.register = RegisteredEndpoints(AddrOf[bindings[k]], probe[k].mappings),
                  !.withdraw = Additions(k, work.refreshed) \ work.publish,
                  !.publish = {}]
    /\ probe' = [probe EXCEPT ![k].lost = {}]
    /\ UNCHANGED <<env, dock, book, natOf, finished, foreign, torn, stopped, snapshot, seen,
                   notified, bindings, holder, stage, todo, polling, callers>>

\* Mutant: the roll back stops at the first registration that fails.
RestoreStops(k, e) ==
    /\ Applying(k, "rollback")
    /\ e \in work.register
    /\ Refused(k, e)
    /\ work' = [work EXCEPT !.register = {}]
    /\ probe' = [probe EXCEPT ![k].lost = @ \cup {e}]
    /\ UNCHANGED <<env, registries, stopped, snapshot, seen, notified, bindings,
                   holder, stage, todo, polling, callers>>

\* A registration of the roll back fails, and nobody is told.
RestoreFails(k, e) ==
    /\ Applying(k, "rollback")
    /\ e \in work.register
    /\ Refused(k, e)
    /\ work' = [work EXCEPT !.register = @ \ {e}]
    /\ probe' = [probe EXCEPT ![k].lost = @ \cup {e}]
    /\ UNCHANGED <<env, registries, stopped, snapshot, seen, notified, bindings,
                   holder, stage, todo, polling, callers>>

\* Nothing is left to do.  Only an update that did not fail is remembered; the
\* next tick is not due, so the future is pending.
ApplyEnd(k) ==
    /\ Applying(k, "apply") \/ Applying(k, "rollback")
    /\ work.register = {} /\ work.publish = {} /\ work.withdraw = {}
    /\ probe' = IF work.phase = "apply"
                  THEN [probe EXCEPT ![k].mappings = work.refreshed, ![k].lost = {}]
                  ELSE probe
    /\ work' = NoWork
    /\ polling' = None
    /\ UNCHANGED <<env, registries, stopped, snapshot, seen, notified, bindings,
                   holder, stage, todo, callers>>

PollEnd ==
    /\ holder = "poll"
    /\ stage = "nat"
    /\ todo = {}
    /\ polling = None
    /\ holder' = "none"
    /\ stage' = "free"
    /\ UNCHANGED <<env, registries, ctx, todo, polling, work, callers>>

-----------------------------------------------------------------------------
\* Interfaces::resume.  The lock is taken twice and not held while the new
\* watcher's first event is awaited.

ResumeCall(r) ==
    /\ caller[r] = "idle"
    /\ stage = "free"
    /\ \/ /\ ~stopped
          /\ caller' = [caller EXCEPT ![r] = "subscribed"]
       \/ \* stopped, or the new watcher cannot be created
          caller' = [caller EXCEPT ![r] = "err"]
    /\ fresh' = [fresh EXCEPT ![r] = FALSE]
    /\ since' = [since EXCEPT ![r] = version]
    /\ UNCHANGED <<env, registries, ctx, lock>>

\* Mutant: the interfaces are enumerated when the call begins, before the lock.
ResumeLockOldSnapshot(r) ==
    /\ caller[r] = "subscribed"
    /\ stage = "free"
    /\ ~stopped
    /\ holder' = r
    /\ stage' = "scan"
    /\ snapshot' \in SUBSET Key
    /\ seen' = since[r]
    /\ notified' \in {FALSE, fresh[r]}
    /\ caller' = [caller EXCEPT ![r] = "locked"]
    /\ UNCHANGED <<env, registries, stopped, bindings, probe, todo, polling,
                   work, fresh, since>>

\* The second lock: enumerate, install the new watcher and its snapshot.
ResumeLock(r) ==
    /\ caller[r] = "subscribed"
    /\ stage = "free"
    /\ ~stopped
    /\ holder' = r
    /\ stage' = "scan"
    /\ snapshot' = os
    /\ seen' = version
    /\ notified' \in {FALSE, fresh[r]}
    /\ caller' = [caller EXCEPT ![r] = "locked"]
    /\ UNCHANGED <<env, registries, stopped, bindings, probe, todo, polling,
                   work, fresh, since>>

\* Stopped meanwhile, enumeration failed, or the caller dropped the future.
ResumeFails(r) ==
    /\ caller[r] = "subscribed"
    /\ caller' = [caller EXCEPT ![r] = "err"]
    /\ UNCHANGED <<env, registries, ctx, lock, fresh, since>>

\* Nat::resume for every binding, then unlock.
ResumeEnd(r) ==
    /\ holder = r
    /\ stage = "nat"
    /\ probe' = [k \in Key |-> [probe[k] EXCEPT !.measuring = FALSE]]
    /\ todo' = {}
    /\ holder' = "none"
    /\ stage' = "free"
    /\ caller' = [caller EXCEPT ![r] = "ok"]
    /\ UNCHANGED <<env, registries, stopped, snapshot, seen, notified, bindings,
                   polling, work, fresh, since>>

-----------------------------------------------------------------------------
\* The maintenance task ends or is aborted: its guard takes the state out of
\* the mutex and InterfacesCtx::drop withdraws every binding.

StopBegin ==
    /\ stage = "free"
    /\ ~stopped
    /\ holder' = "stop"
    /\ stage' = "scan"
    /\ UNCHANGED <<env, registries, ctx, todo, polling, work, callers>>

StopEnd ==
    /\ holder = "stop"
    /\ stage = "remove"
    /\ todo = {}
    /\ stopped' = TRUE
    /\ holder' = "none"
    /\ stage' = "free"
    /\ UNCHANGED <<env, registries, snapshot, seen, notified, bindings, probe,
                   todo, polling, work, callers>>

-----------------------------------------------------------------------------

Scan ==
    \/ ScanCollect \/ ScanRemoved \/ ScanBound
    \/ \E k \in Key : RemoveBinding(k) \/ BindFails(k)
    \/ \E k \in Key, s \in Sock : BindKey(k, s)

\* apply_outer_mappings, one call at a time.
ApplyStep(k) ==
    \/ MappingConflict(k) \/ UnregisterAll(k) \/ UpdateFails(k) \/ ApplyEnd(k)
    \/ \E e \in Endpoint :
         \/ CheckEndpoint(k, e) \/ RegisterEndpoint(k, e) \/ PublishEndpoint(k, e)
         \/ WithdrawEndpoint(k, e) \/ RestoreFails(k, e)

NatStep ==
    \/ \E k \in Key : NatEnter(k) \/ HeartbeatTick(k)
    \/ NatPending
    \/ \E k \in Key, servers \in SUBSET Server : Discovered(k, servers)
    \/ \E k \in Key, nat \in NatType \cup {NoNat} : Classified(k, nat)
    \/ \E k \in Key, m \in Mapping : MeasurementReady(k, m)
    \/ \E k \in Key : ApplyStep(k)

ResumeStep(r) == ResumeCall(r) \/ ResumeLock(r) \/ ResumeFails(r) \/ ResumeEnd(r)

Others ==
    \/ InterfacesChange
    \/ \E s \in Sock : ReceiverExit(s) \/ TableForgets(s) \/ ForeignAdd(s) \/ ForeignLeave(s)
    \/ \E s \in Sock, e \in Contested : ForeignRegister(s, e) \/ ForeignPublish(s, e)

Next ==
    \/ Others
    \/ Scan \/ NatStep
    \/ PollBegin \/ PollEnd \/ StopBegin \/ StopEnd
    \/ \E r \in Resumer : ResumeStep(r)

Spec == Init /\ [][Next]_vars

\* The maintenance task is polled at least once per BINDING_CHECK_INTERVAL and
\* whoever holds the mutex runs synchronous code to its end.
Fairness ==
    /\ WF_vars(PollBegin)
    /\ WF_vars(Scan)
    /\ WF_vars(NatStep)
    /\ WF_vars(PollEnd \/ StopEnd)
    /\ \A r \in Resumer : WF_vars(ResumeLock(r)) /\ WF_vars(ResumeEnd(r))

FairSpec == Spec /\ Fairness

-----------------------------------------------------------------------------
\* Properties.

\* No update of the mappings of binding k is under way.
AtRest(k) == polling = k => work.phase = "idle"

\* Whenever no update of a binding's mappings is under way, the address book
\* holds exactly what they call for, and the QUIC table all of it but what a roll
\* back could not get back (nat.rs apply_outer_mappings): after an update that
\* was applied, refused or rolled back in competition with other owners, after a
\* resume or a lost receiver.  A socket the Dock has dropped accepts nothing any
\* more, unless it was dropped in the middle of an update.
RegistriesMatchMappings ==
    \A k \in Bound :
      LET s == bindings[k]
          bound == AddrOf[s]
          m == probe[k].mappings
      IN  AtRest(k) =>
            /\ EndpointsOf(book, s) =
                 PublishedEndpoints(bound, probe[k].nat, m)
                   \cup (IF bound \in Unscoped THEN {} ELSE {Direct(bound)})
            /\ s \notin torn =>
                 EndpointsOf(quic, s) =
                   IF EnsureRegisteredSocket(s)
                     THEN RegisteredEndpoints(bound, m) \ probe[k].lost
                     ELSE {}

\* Withdrawal (InterfacesCtx::remove) leaves nothing behind: a record of any
\* registry belongs to a tracked binding or to another owner, a NAT type is
\* kept only for a tracked address, and once the maintenance task has stopped
\* nothing of ours is left.  Only the QUIC table may keep what was registered
\* for a socket after the Dock had dropped it in the middle of an update.
NoResidue ==
    /\ \A s \in Sock \ (Mine \cup foreign) :
         /\ EndpointsOf(book, s) = {}
         /\ EndpointsOf(quic, s) # {} => s \in torn
         /\ dock[AddrOf[s]] # s
    /\ \A a \in Addr : natOf[a] # NoNat => \E s \in Mine : AddrOf[s] = a
    /\ stopped => Mine = {}

\* After any interleaving the registries hold exactly what our bindings own.
RegistriesExact == RegistriesMatchMappings /\ NoResidue

\* What the comment of apply_outer_mappings asks of its roll back: between
\* updates a socket in the Dock has its direct binding and every endpoint of its
\* previous mappings registered.
RollbackRestores ==
    \A k \in Bound :
        AtRest(k) /\ EnsureRegisteredSocket(bindings[k]) =>
            RegisteredEndpoints(AddrOf[bindings[k]], probe[k].mappings)
              \subseteq EndpointsOf(quic, bindings[k])

\* No step of ours takes a registration or a publication from another owner of
\* the shared registries (removal goes by address and by endpoint, not by owner).
ForeignPreserved ==
    [][\A s \in foreign \cap foreign' :
         /\ EndpointsOf(book, s) \subseteq EndpointsOf(book', s)
         /\ EndpointsOf(quic, s) \subseteq EndpointsOf(quic', s)
         /\ dock[AddrOf[s]] = s => dock'[AddrOf[s]] = s]_vars

\* A resume that reports success has enumerated after the call began, and every
\* interface change is either in the snapshot or announced by the watcher in use.
ResumeIsFresh ==
    /\ \A r \in Resumer : caller[r] \in {"locked", "ok"} => seen >= since[r]
    /\ EnumMayFail \/ seen = version \/ notified

\* A binding whose socket died or whose interface vanished from the snapshot is
\* eventually withdrawn; nothing else has to happen first.
DeadBindingWithdrawn ==
    \A k \in Key, s \in Sock :
        (bindings[k] = s /\ k \in Obsolete) ~> (bindings[k] # s)

\* When enumeration works, every change of the OS interfaces reaches the
\* snapshot, unless maintenance stops.
ChangeObserved == (seen < version) ~> (seen = version \/ stopped)

\* The maintenance task catches up with whatever happens outside of it: dead
\* sockets, vanished and changed interfaces (interfaces.rs poll and scan).
MaintenanceCatchesUp == DeadBindingWithdrawn /\ ChangeObserved

=============================================================================
