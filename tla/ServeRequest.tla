---------------------------- MODULE ServeRequest ----------------------------
(***************************************************************************)
(* One request at the server: the name it was sent to (dhttp/src/uri.rs),  *)
(* handle_request of dhttp/src/endpoint.rs, the SDK's Service and the      *)
(* OwnedBody around its response (api/src/server.rs), and the errors of    *)
(* the stream (dhttp/src/transport.rs).  write_response of h3x is modelled *)
(* from this use: it polls the body until its end, resets the stream when  *)
(* the body fails, and does not poll the body of a response to HEAD.       *)
(*                                                                         *)
(* A host is a sequence of parts: words without a dot, some of them not in *)
(* lower case or not valid in DNS, ".", "~" and "dhttp.net".               *)
(***************************************************************************)
EXTENDS SequencesExt, Naturals

CONSTANTS
    Host,           \* hosts of requests
    Bases,          \* names of clients, and None for an anonymous one
    MaxFrames,      \* frames of a response
    None

VARIABLES
    host,           \* of the request's URI, as the client has sent it
    userinfo,       \* the authority has a user part
    name,           \* the server's, under which the client has reached it
    head,           \* a HEAD request
    phase,          \* of handle_request
    closed,         \* the listener has cancelled its scope
    held,           \* the operation of the handler is registered
    produced, ending, broken,   \* the body of the handler's response
    stopped,        \* why the peer or the connection stopped the stream, or None
    delivered, outcome,         \* what the peer has got: "open", "eof" or "failed"
    result          \* of handle_request

vars == <<host, userinfo, name, head, phase, closed, held, produced, ending, broken,
          stopped, delivered, outcome, result>>

request == <<host, userinfo, name, head>>
bodyVars == <<produced, ending, broken>>

-----------------------------------------------------------------------------
\* Names.

Suffix == <<".", "dhttp.net">>
Lower(h) == [i \in DOMAIN h |-> IF h[i] = "BOB" THEN "bob" ELSE h[i]]
Expand(h) == FlattenSeq([i \in DOMAIN h |-> IF h[i] = "~" THEN Suffix ELSE <<h[i]>>])
HasSuffix(h) == IsSuffix(Suffix, h)
NoRoot(h) == IF IsSuffix(<<".">>, h) THEN Front(h) ELSE h

\* No label is empty, and none has characters that DNS does not have.
Labels(h) ==
    /\ h # <<>> /\ ~IsPrefix(<<".">>, h) /\ ~IsSuffix(<<".">>, h)
    /\ \A i \in 1 .. Len(h) - 1 : <<h[i], h[i + 1]>> # <<".", ".">>
    /\ \A i \in DOMAIN h : h[i] \notin {"~", "_"}

\* is_valid_dns_name, of a name in lower case
ValidName(h) == Labels(h) /\ \E i \in DOMAIN h : h[i] \in {".", "dhttp.net"}

Canonical(h) == IF ValidName(Lower(h)) THEN Lower(h) ELSE None

\* expand_authority_with_base; None if it refuses.
ExpandWithBase(base, h) ==
    IF h = <<"~">> THEN IF base = None \/ HasSuffix(base) THEN base ELSE base \o Suffix
    ELSE IF "~" \in Range(h) THEN Canonical(Expand(h))
    ELSE IF HasSuffix(Lower(h)) THEN Canonical(h)
    ELSE h

\* resolve_request_uri: the name to connect to, or None.
RemoteName(base, h) ==
    LET sent == ExpandWithBase(base, h)
    IN  IF sent # None /\ Labels(NoRoot(sent)) THEN Lower(NoRoot(sent)) ELSE None

\* Mutant: the root label is not taken off.
MatchesExactly(local, h) ==
    LET uri == ExpandWithBase(local, h) IN uri # None /\ Lower(uri) = local

\* The comparison of handle_request.
IsOwn(local, h) ==
    LET uri == ExpandWithBase(local, h) IN uri # None /\ Lower(NoRoot(uri)) = local

-----------------------------------------------------------------------------
\* Request::connect has replaced the URI by its expansion and found the server
\* under that name.
Init ==
    /\ \E h \in Host, base \in Bases :
         /\ RemoteName(base, h) # None
         /\ host = ExpandWithBase(base, h)
         /\ name = RemoteName(base, h)
    /\ userinfo \in BOOLEAN /\ head \in BOOLEAN
    /\ phase = "read"
    /\ closed = FALSE /\ held = FALSE
    /\ produced = 0 /\ ending = FALSE /\ broken = FALSE
    /\ stopped = None
    /\ delivered = 0 /\ outcome = "open"
    /\ result = None

\* The guard around the writer, or h3x, resets the stream.
Reset ==
    /\ phase' = "done"
    /\ held' = FALSE
    /\ outcome' = IF outcome = "open" THEN "failed" ELSE outcome
    /\ result' = "err"
    /\ UNCHANGED <<request, closed, bodyVars, stopped, delivered>>

\* read_request fails.
RequestMalformed == phase = "read" /\ Reset

\* The request's own URI is not read again; a 421 has an empty body.
RequestRead ==
    /\ phase = "read"
    /\ LET own == IsOwn(name, host) /\ ~userinfo
       IN  /\ phase' = IF own THEN "ready" ELSE "misdirected"
           /\ ending' = ~own
    /\ host' = <<>> /\ name' = <<>>
    /\ UNCHANGED <<userinfo, head, closed, held, produced, broken, stopped, delivered,
                   outcome, result>>

\* Service::poll_ready and the registrations of Service::call
PollReady ==
    /\ phase = "ready" /\ ~closed
    /\ phase' = "call"
    /\ UNCHANGED <<request, closed, held, bodyVars, stopped, delivered, outcome, result>>

Register ==
    /\ phase = "call" /\ ~closed
    /\ phase' = "handle"
    /\ held' = TRUE
    /\ UNCHANGED <<request, closed, bodyVars, stopped, delivered, outcome, result>>

ServiceClosed == phase \in {"ready", "call"} /\ closed /\ Reset

\* OperationState::run returns the cancellation.
HandlerCancelled == phase = "handle" /\ closed /\ Reset

\* A handler that fails or panics is answered with an empty 500.
HandlerReturns ==
    /\ phase = "handle"
    /\ phase' = "write"
    /\ ending' \in {head, TRUE}
    /\ UNCHANGED <<request, closed, held, produced, broken, stopped, delivered, outcome, result>>

-----------------------------------------------------------------------------
\* The body of the response.

Produces ==
    /\ phase = "write" /\ ~ending /\ ~broken
    /\ \/ produced < MaxFrames /\ produced' = produced + 1 /\ UNCHANGED <<ending, broken>>
       \/ ending' = TRUE /\ UNCHANGED <<produced, broken>>
       \/ broken' = TRUE /\ UNCHANGED <<produced, ending>>
    /\ UNCHANGED <<request, phase, closed, held, stopped, delivered, outcome, result>>

\* OwnedBody::poll_frame asks for a cancellation first.
WriteFrame ==
    /\ phase = "write" /\ stopped = None /\ ~closed
    /\ delivered < produced
    /\ delivered' = delivered + 1
    /\ UNCHANGED <<request, phase, closed, held, bodyVars, stopped, outcome, result>>

WriteEnd ==
    /\ stopped = None
    /\ \/ phase = "misdirected"
       \/ phase = "write" /\ (head \/ ~closed)
    /\ ending /\ delivered = produced
    /\ outcome' = "eof"
    /\ phase' = "done" /\ held' = FALSE /\ result' = "ok"
    /\ UNCHANGED <<request, closed, bodyVars, stopped, delivered>>

\* Mutant: a cancelled body ends.
BodyCancelledAsEnd ==
    /\ phase = "write" /\ closed /\ ~head /\ outcome = "open"
    /\ outcome' = "eof"
    /\ phase' = "done" /\ held' = FALSE /\ result' = "ok"
    /\ UNCHANGED <<request, closed, bodyVars, stopped, delivered>>

BodyCancelled == phase = "write" /\ closed /\ ~head /\ Reset

BodyFails == phase = "write" /\ broken /\ delivered = produced /\ Reset

\* map_stream_error keeps the code of a reset that HTTP/3 has, and makes of any
\* other, as of a lost connection, an internal error.
MapStreamError(stop) == IF stop \in {"unknown", "lost"} THEN "InternalError" ELSE stop

\* Only the response of the service may be declined by the peer.
WriteFails ==
    /\ phase \in {"misdirected", "write"}
    /\ stopped # None
    /\ phase' = "done" /\ held' = FALSE
    /\ result' = IF phase = "write" /\ MapStreamError(stopped) = "NoError" THEN "ok" ELSE "err"
    /\ UNCHANGED <<request, closed, bodyVars, stopped, delivered, outcome>>

-----------------------------------------------------------------------------
\* The peer and the listener.

PeerStops ==
    /\ outcome = "open"
    /\ stopped' \in {"NoError", "RequestCancelled", "unknown", "lost"}
    /\ outcome' = "failed"
    /\ UNCHANGED <<request, phase, closed, held, bodyVars, delivered, result>>

ListenerCloses ==
    /\ ~closed
    /\ closed' = TRUE
    /\ UNCHANGED <<request, phase, held, bodyVars, stopped, delivered, outcome, result>>

Next ==
    \/ RequestMalformed \/ RequestRead
    \/ PollReady \/ Register \/ ServiceClosed
    \/ HandlerCancelled \/ HandlerReturns
    \/ Produces \/ WriteFrame \/ WriteEnd \/ BodyCancelled \/ BodyFails \/ WriteFails
    \/ PeerStops \/ ListenerCloses

Spec == Init /\ [][Next]_vars

-----------------------------------------------------------------------------
\* Properties.

TypeOK ==
    /\ produced \in 0 .. MaxFrames /\ delivered \in 0 .. produced
    /\ phase \in {"read", "misdirected", "ready", "call", "handle", "write", "done"}
    /\ outcome \in {"open", "eof", "failed"}
    /\ result \in {None, "ok", "err"}

Response == INSTANCE BodyStream WITH
    accepted <- [i \in 1 .. produced |-> i], delivered <- [i \in 1 .. delivered |-> i],
    trailers <- 0, received <- 0

\* The peer takes a response for complete only if it is: a handler that is cancelled,
\* fails or breaks off after the headers never looks like one that has ended
\* (server.rs OwnedBody, endpoint.rs handle_request).
ResponseIsBodyStream == Response!Spec

\* A request that was routed to this server is misdirected only for its user part;
\* and when handle_request is done the peer has been told how the response ended,
\* the handler's operation is released, and success means that the peer has the
\* whole response or has declined the rest (endpoint.rs handle_request, uri.rs).
RequestIsAnswered ==
    /\ phase = "misdirected" => userinfo
    /\ result # None => outcome # "open" /\ ~held
    /\ result = "ok" => outcome = "eof" \/ stopped = "NoError"

=============================================================================
