---------------------------- MODULE SdkLifecycle ----------------------------
(***************************************************************************)
(* Ownership and shutdown in the SDK: api/src/lifecycle.rs, server.rs and  *)
(* the control paths of client.rs.                                         *)
(*                                                                         *)
(* A Client owns a Scope; requests and listeners register operations in    *)
(* it.  A Listener owns a Scope of its own, in which every handler         *)
(* registers two: one for the handler and its response Body, one for the   *)
(* worker that reads the request Body.  Client::close, Listener::close,    *)
(* reload, dropped futures and dropped handles race with all of that.  An  *)
(* operation is a token of a TaskTracker: here, the process that holds it  *)
(* is in one of the places named below.                                    *)
(***************************************************************************)
CONSTANTS
    Request,    \* Client::request calls
    Listener,   \* Client::listen calls, each with the listener it creates
    Handler,    \* request streams that reach the server
    Caller,     \* calls of Client::close, Client::reload and Listener::close
    None

ASSUME LifecycleAssumption ==
    /\ None \notin Listener \cup Caller
    /\ Listener \cap Caller = {}

VARIABLES
    \* ClientInner
    closed, cancelled,  \* Scope: the flag under its mutex, the token
    gone,               \* every clone was dropped
    control,            \* holder of the control mutex
    request,
    \* listeners
    listener,           \* progress of listen() and then of the listener task
    stop,               \* OperationState of the listener was failed
    scopeClosed, scopeCancelled,
    handle,             \* the JoinHandle under the task mutex
    registered,         \* listener whose service DhttpNetwork serves
    \* handlers
    handler, service, reading,
    \* callers
    caller, target

scopes == <<closed, cancelled, scopeClosed, scopeCancelled>>
serving == <<handler, service, reading>>
vars == <<scopes, gone, control, request, listener, stop, handle, registered,
          serving, caller, target>>

\* The places in which a process holds an operation.
RequestLive == {"waiting", "running"}
TaskLive == {"up", "unregistered", "closing", "joining"}
ListenerLive == {"starting"} \cup TaskLive
HandlerLive == {"operation", "running", "writing", "body"}
Pending == {"locking", "closing", "joining", "reloading", "shutlock", "shutjoin"}

TypeOK ==
    /\ closed \in BOOLEAN
    /\ cancelled \in BOOLEAN
    /\ gone \in BOOLEAN
    /\ control \in Listener \cup Caller \cup {None}
    /\ request \in [Request -> {"idle", "refused", "done"} \cup RequestLive]
    /\ listener \in [Listener -> {"idle", "refused", "finished"} \cup ListenerLive]
    /\ stop \in [Listener -> BOOLEAN]
    /\ scopeClosed \in [Listener -> BOOLEAN]
    /\ scopeCancelled \in [Listener -> BOOLEAN]
    /\ handle \in [Listener -> {"none", "ready", "taken", "joined", "lost", "dropped"}]
    /\ registered \in Listener \cup {None}
    /\ handler \in [Handler -> {"idle", "routed", "ready", "done"} \cup HandlerLive]
    /\ service \in [Handler -> Listener \cup {None}]
    /\ reading \in [Handler -> BOOLEAN]
    /\ caller \in [Caller -> {"idle", "refused", "closed", "reloaded", "shut", "dropped"}
                               \cup Pending]
    /\ target \in [Caller -> Listener \cup {None}]

Init ==
    /\ closed = FALSE
    /\ cancelled = FALSE
    /\ gone = FALSE
    /\ control = None
    /\ request = [q \in Request |-> "idle"]
    /\ listener = [l \in Listener |-> "idle"]
    /\ stop = [l \in Listener |-> FALSE]
    /\ scopeClosed = [l \in Listener |-> FALSE]
    /\ scopeCancelled = [l \in Listener |-> FALSE]
    /\ handle = [l \in Listener |-> "none"]
    /\ registered = None
    /\ handler = [h \in Handler |-> "idle"]
    /\ service = [h \in Handler |-> None]
    /\ reading = [h \in Handler |-> FALSE]
    /\ caller = [c \in Caller |-> "idle"]
    /\ target = [c \in Caller |-> None]

\* The tokens that the TaskTracker of the client, or of a listener, waits for.
ClientTokens ==
    {q \in Request : request[q] \in RequestLive}
      \cup {l \in Listener : listener[l] \in ListenerLive}

ListenerTokens(l) ==
    {h \in Handler : service[h] = l /\ (handler[h] \in HandlerLive \/ reading[h])}

-----------------------------------------------------------------------------
\* Client::request

\* Mutant: a request does not look at the closed flag of the scope.
RequestCallAlways(q) ==
    /\ ~gone
    /\ request[q] = "idle"
    /\ request' = [request EXCEPT ![q] = "waiting"]
    /\ UNCHANGED <<scopes, gone, control, listener, stop, handle, registered,
                   serving, caller, target>>

RequestCall(q) ==
    /\ ~gone
    /\ request[q] = "idle"
    /\ request' = [request EXCEPT ![q] = IF closed THEN "refused" ELSE "waiting"]
    /\ UNCHANGED <<scopes, gone, control, listener, stop, handle, registered,
                   serving, caller, target>>

\* The endpoint is read; a reload holds its write lock.  The task is spawned.
RequestStart(q) ==
    /\ request[q] = "waiting"
    /\ \A c \in Caller : caller[c] # "reloading"
    /\ request' = [request EXCEPT ![q] = "running"]
    /\ UNCHANGED <<scopes, gone, control, listener, stop, handle, registered,
                   serving, caller, target>>

\* The exchange succeeds, fails or is cancelled, or the caller gives up.
RequestEnds(q) ==
    /\ request[q] \in RequestLive
    /\ request' = [request EXCEPT ![q] = "done"]
    /\ UNCHANGED <<scopes, gone, control, listener, stop, handle, registered,
                   serving, caller, target>>

-----------------------------------------------------------------------------
\* Client::listen and the task of the listener

ListenCall(l) ==
    /\ ~gone
    /\ control = None
    /\ listener[l] = "idle"
    /\ IF closed
         THEN /\ listener' = [listener EXCEPT ![l] = "refused"]
              /\ UNCHANGED control
         ELSE /\ listener' = [listener EXCEPT ![l] = "starting"]
              /\ control' = l
    /\ UNCHANGED <<scopes, gone, request, stop, handle, registered, serving,
                   caller, target>>

ListenSucceeds(l) ==
    /\ listener[l] = "starting"
    /\ registered = None
    /\ registered' = l
    /\ listener' = [listener EXCEPT ![l] = "up"]
    /\ handle' = [handle EXCEPT ![l] = "ready"]
    /\ control' = None
    /\ UNCHANGED <<scopes, gone, request, stop, serving, caller, target>>

\* The name is taken, init or listen fails, or the caller gives up.
ListenFails(l) ==
    /\ listener[l] = "starting"
    /\ listener' = [listener EXCEPT ![l] = "refused"]
    /\ control' = None
    /\ UNCHANGED <<scopes, gone, request, stop, handle, registered, serving,
                   caller, target>>

\* The last clone of the Listener is dropped.
DropListener(l) ==
    /\ listener[l] \in TaskLive
    /\ ~stop[l]
    /\ \A c \in Caller : target[c] = l => caller[c] \notin {"shutlock", "shutjoin"}
    /\ stop' = [stop EXCEPT ![l] = TRUE]
    /\ handle' = [handle EXCEPT ![l] = IF @ = "ready" THEN "dropped" ELSE @]
    /\ UNCHANGED <<scopes, gone, control, request, listener, registered, serving,
                   caller, target>>

\* Mutant: the service stays registered while the scope goes down.
TaskKeepsService(l) ==
    /\ listener[l] = "up"
    /\ stop[l] \/ cancelled
    /\ listener' = [listener EXCEPT ![l] = "unregistered"]
    /\ UNCHANGED <<scopes, gone, control, request, stop, handle, registered, serving,
                   caller, target>>

TaskUnregisters(l) ==
    /\ listener[l] = "up"
    /\ stop[l] \/ cancelled
    /\ listener' = [listener EXCEPT ![l] = "unregistered"]
    /\ registered' = None
    /\ UNCHANGED <<scopes, gone, control, request, stop, handle, serving, caller,
                   target>>

\* Scope::cancel: the flag first ...
TaskClosesScope(l) ==
    /\ listener[l] = "unregistered"
    /\ listener' = [listener EXCEPT ![l] = "closing"]
    /\ scopeClosed' = [scopeClosed EXCEPT ![l] = TRUE]
    /\ UNCHANGED <<closed, cancelled, scopeCancelled, gone, control, request, stop,
                   handle, registered, serving, caller, target>>

\* Mutant: the scope of the listener is closed but its token is not cancelled.
TaskForgetsToken(l) ==
    /\ listener[l] = "closing"
    /\ listener' = [listener EXCEPT ![l] = "joining"]
    /\ UNCHANGED <<scopes, gone, control, request, stop, handle, registered, serving,
                   caller, target>>

\* ... then the token.
TaskCancelsScope(l) ==
    /\ listener[l] = "closing"
    /\ listener' = [listener EXCEPT ![l] = "joining"]
    /\ scopeCancelled' = [scopeCancelled EXCEPT ![l] = TRUE]
    /\ UNCHANGED <<closed, cancelled, scopeClosed, gone, control, request, stop,
                   handle, registered, serving, caller, target>>

\* Mutant: the task does not wait for the operations of its scope.
TaskEndsEarly(l) ==
    /\ listener[l] = "joining"
    /\ listener' = [listener EXCEPT ![l] = "finished"]
    /\ UNCHANGED <<scopes, gone, control, request, stop, handle, registered,
                   serving, caller, target>>

TaskEnds(l) ==
    /\ listener[l] = "joining"
    /\ ListenerTokens(l) = {}
    /\ listener' = [listener EXCEPT ![l] = "finished"]
    /\ UNCHANGED <<scopes, gone, control, request, stop, handle, registered,
                   serving, caller, target>>

-----------------------------------------------------------------------------
\* serve_connection looks the service up; Service::poll_ready and ::call

Route(h) ==
    /\ handler[h] = "idle"
    /\ handler' = [handler EXCEPT ![h] = IF registered = None THEN "done" ELSE "routed"]
    /\ service' = [service EXCEPT ![h] = registered]
    /\ UNCHANGED <<scopes, gone, control, request, listener, stop, handle,
                   registered, reading, caller, target>>

\* A step of the service that an already closed scope turns into an error; the
\* operation of the handler, if it has one, is dropped with the future.
Admit(h, from, to) ==
    /\ handler[h] = from
    /\ handler' = [handler EXCEPT ![h] = IF scopeClosed[service[h]] THEN "done" ELSE to]
    /\ UNCHANGED <<scopes, gone, control, request, listener, stop, handle,
                   registered, service, caller, target>>

PollReady(h) == Admit(h, "routed", "ready") /\ UNCHANGED reading

RegisterOperation(h) == Admit(h, "ready", "operation") /\ UNCHANGED reading

\* The second registration; the receive worker is spawned with it.
RegisterReading(h) ==
    /\ Admit(h, "operation", "running")
    /\ reading' = [reading EXCEPT ![h] = ~scopeClosed[service[h]]]

\* The scope that the handler registered in was cancelled.
HandlerCancelled(h) == \E l \in Listener : service[h] = l /\ scopeCancelled[l]

\* The handler answered, failed or panicked: OwnedBody keeps the operation, and
\* write_response begins with the head of the response.
HandlerReturns(h) ==
    /\ handler[h] = "running"
    /\ handler' = [handler EXCEPT ![h] = "writing"]
    /\ UNCHANGED <<scopes, gone, control, request, listener, stop, handle,
                   registered, service, reading, caller, target>>

\* The peer made room for what is being written; poll_frame is next.
FrameWritten(h) ==
    /\ handler[h] = "writing"
    /\ handler' = [handler EXCEPT ![h] = "body"]
    /\ UNCHANGED <<scopes, gone, control, request, listener, stop, handle,
                   registered, service, reading, caller, target>>

\* poll_frame looks at the token first and returns a frame only if nobody has
\* cancelled it; while the frame is being written, the token is not looked at.
FrameTaken(h) ==
    /\ handler[h] = "body" /\ ~HandlerCancelled(h)
    /\ handler' = [handler EXCEPT ![h] = "writing"]
    /\ UNCHANGED <<scopes, gone, control, request, listener, stop, handle,
                   registered, service, reading, caller, target>>

\* Cancelled while running; a write fails; end, error or cancellation of the
\* OwnedBody.
HandlerEnds(h) ==
    /\ handler[h] \in {"running", "writing", "body"}
    /\ handler' = [handler EXCEPT ![h] = "done"]
    /\ UNCHANGED <<scopes, gone, control, request, listener, stop, handle,
                   registered, service, reading, caller, target>>

\* The receive worker meets the end of the body, an error or its cancellation.
ReadingEnds(h) ==
    /\ reading[h]
    /\ reading' = [reading EXCEPT ![h] = FALSE]
    /\ UNCHANGED <<scopes, gone, control, request, listener, stop, handle,
                   registered, handler, service, caller, target>>

-----------------------------------------------------------------------------
\* Client::close, Client::reload, Listener::close

CloseCall(c) ==
    /\ ~gone
    /\ caller[c] = "idle"
    /\ caller' = [caller EXCEPT ![c] = "locking"]
    /\ UNCHANGED <<scopes, gone, control, request, listener, stop, handle,
                   registered, serving, target>>

CloseMarks(c) ==
    /\ caller[c] = "locking"
    /\ control = None
    /\ control' = c
    /\ closed' = TRUE
    /\ caller' = [caller EXCEPT ![c] = "closing"]
    /\ UNCHANGED <<cancelled, scopeClosed, scopeCancelled, gone, request, listener,
                   stop, handle, registered, serving, target>>

CloseCancels(c) ==
    /\ caller[c] = "closing"
    /\ cancelled' = TRUE
    /\ caller' = [caller EXCEPT ![c] = "joining"]
    /\ UNCHANGED <<closed, scopeClosed, scopeCancelled, gone, control, request,
                   listener, stop, handle, registered, serving, target>>

CloseReturns(c) ==
    /\ caller[c] = "joining"
    /\ ClientTokens = {}
    /\ control' = None
    /\ caller' = [caller EXCEPT ![c] = "closed"]
    /\ UNCHANGED <<scopes, gone, request, listener, stop, handle, registered,
                   serving, target>>

ReloadCall(c) ==
    /\ ~gone
    /\ caller[c] = "idle"
    /\ control = None
    /\ IF closed
         THEN /\ caller' = [caller EXCEPT ![c] = "refused"]
              /\ UNCHANGED control
         ELSE /\ caller' = [caller EXCEPT ![c] = "reloading"]
              /\ control' = c
    /\ UNCHANGED <<scopes, gone, request, listener, stop, handle, registered,
                   serving, target>>

ReloadEnds(c) ==
    /\ caller[c] = "reloading"
    /\ control' = None
    /\ caller' = [caller EXCEPT ![c] = "reloaded"]
    /\ UNCHANGED <<scopes, gone, request, listener, stop, handle, registered,
                   serving, target>>

ShutCall(c, l) ==
    /\ caller[c] = "idle"
    /\ listener[l] \in TaskLive \cup {"finished"}
    /\ handle[l] # "dropped"
    /\ stop' = [stop EXCEPT ![l] = TRUE]
    /\ caller' = [caller EXCEPT ![c] = "shutlock"]
    /\ target' = [target EXCEPT ![c] = l]
    /\ UNCHANGED <<scopes, gone, control, request, listener, handle, registered,
                   serving>>

\* The task mutex: the first caller takes the JoinHandle, later ones wait for
\* the first and find nothing to join.
ShutLocks(c) ==
    LET l == target[c] IN
    /\ caller[c] = "shutlock"
    /\ \A d \in Caller : target[d] = l => caller[d] # "shutjoin"
    /\ IF handle[l] = "ready"
         THEN /\ caller' = [caller EXCEPT ![c] = "shutjoin"]
              /\ handle' = [handle EXCEPT ![l] = "taken"]
         ELSE /\ caller' = [caller EXCEPT ![c] = "shut"]
              /\ UNCHANGED handle
    /\ UNCHANGED <<scopes, gone, control, request, listener, stop, registered,
                   serving, target>>

ShutReturns(c) ==
    /\ caller[c] = "shutjoin"
    /\ listener[target[c]] = "finished"
    /\ caller' = [caller EXCEPT ![c] = "shut"]
    /\ handle' = [handle EXCEPT ![target[c]] = "joined"]
    /\ UNCHANGED <<scopes, gone, control, request, listener, stop, registered,
                   serving, target>>

\* The caller's future is dropped at an await: a mutex guard is released, a
\* JoinHandle it had taken is lost.
DropCall(c) ==
    /\ caller[c] \in Pending \ {"closing"}
    /\ caller' = [caller EXCEPT ![c] = "dropped"]
    /\ control' = IF control = c THEN None ELSE control
    /\ handle' = IF caller[c] = "shutjoin" THEN [handle EXCEPT ![target[c]] = "lost"]
                 ELSE handle
    /\ UNCHANGED <<scopes, gone, request, listener, stop, registered, serving,
                   target>>

\* Mutant: dropping the client does not cancel its scope.
DropClientOnly ==
    /\ ~gone
    /\ control = None
    /\ \A q \in Request : request[q] # "waiting"
    /\ \A c \in Caller : caller[c] # "locking"
    /\ gone' = TRUE
    /\ UNCHANGED <<scopes, control, request, listener, stop, handle, registered,
                   serving, caller, target>>

\* The last clone of the Client goes: Drop cancels the token of the scope.
DropClient ==
    /\ ~gone
    /\ control = None
    /\ \A q \in Request : request[q] # "waiting"
    /\ \A c \in Caller : caller[c] # "locking"
    /\ gone' = TRUE
    /\ cancelled' = TRUE
    /\ UNCHANGED <<closed, scopeClosed, scopeCancelled, control, request, listener,
                   stop, handle, registered, serving, caller, target>>

-----------------------------------------------------------------------------

Task(l) ==
    TaskUnregisters(l) \/ TaskClosesScope(l) \/ TaskCancelsScope(l) \/ TaskEnds(l)

Admission(h) == PollReady(h) \/ RegisterOperation(h) \/ RegisterReading(h)

CallerStep(c) ==
    \/ CloseMarks(c) \/ CloseCancels(c) \/ CloseReturns(c)
    \/ ReloadEnds(c) \/ ShutLocks(c) \/ ShutReturns(c)

Next ==
    \/ \E q \in Request : RequestCall(q) \/ RequestStart(q) \/ RequestEnds(q)
    \/ \E l \in Listener :
         ListenCall(l) \/ ListenSucceeds(l) \/ ListenFails(l) \/ DropListener(l) \/ Task(l)
    \/ \E h \in Handler :
         \/ Route(h) \/ Admission(h) \/ HandlerReturns(h)
         \/ FrameWritten(h) \/ FrameTaken(h) \/ HandlerEnds(h) \/ ReadingEnds(h)
    \/ \E c \in Caller :
         CloseCall(c) \/ ReloadCall(c) \/ DropCall(c) \/ CallerStep(c)
           \/ \E l \in Listener : ShutCall(c, l)
    \/ DropClient

Spec == Init /\ [][Next]_vars

-----------------------------------------------------------------------------
\* Properties.

\* When Client::close has returned, nothing that the client owned is left and
\* nothing can start again: no exchange, no registered service, no handler, no
\* receive worker, whatever was dropped or admitted concurrently.
ClosedIsQuiescent ==
    (\E c \in Caller : caller[c] = "closed") =>
        /\ ClientTokens = {}
        /\ registered = None
        /\ \A l \in Listener : ListenerTokens(l) = {}

\* When Listener::close has returned, its service is unregistered and its
\* handlers and receive workers have gone, unless an earlier close was dropped
\* while it waited and took the JoinHandle with it (server.rs Listener::close).
ShutIsQuiescent ==
    \A c \in Caller :
        (caller[c] = "shut" /\ handle[target[c]] # "lost") =>
            registered # target[c] /\ ListenerTokens(target[c]) = {}

\* A service that can still be looked up admits requests: the listener task
\* unregisters before it closes the scope, so a late stream is rejected as
\* unknown and never accepted by a service that is going away.
UnregisteredFirst ==
    \A l \in Listener : registered = l => ~scopeClosed[l] /\ ~scopeCancelled[l]

\* A cancelled response that is stuck in a write, where OwnedBody is not polled and
\* its operation stays.  No peer keeps one there for ever: it reads or it resets.
Stalled(h) == handler[h] = "writing" /\ HandlerCancelled(h)
NoneStalls == \A h \in Handler : []<>~Stalled(h)

\* Every close, reload and listener close returns (or was dropped): neither the
\* control mutex nor the task mutex nor the trackers are waited on for ever.  Only a
\* peer that neither reads a response nor resets it can hold one up (server.rs
\* OwnedBody::poll_frame); close has no deadline of its own.
CallsReturn ==
    NoneStalls => \A c \in Caller : caller[c] \in Pending ~> caller[c] \notin Pending

\* Dropping the last Client cleans up as well, with the same reservation: the
\* listeners it had stop.
DropCleansUp == NoneStalls => (gone ~> ClientTokens = {} /\ registered = None)

=============================================================================
