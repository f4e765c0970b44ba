---------------------------- MODULE LanguageFetch ---------------------------
(***************************************************************************)
(* A request of a language SDK: Endpoint.fetch of api/js/index.js, which   *)
(* follows redirects with one native exchange after the other, _request of *)
(* api/python/dhttpy/endpoint.py, which makes one, and Endpoint.close of   *)
(* both.                                                                   *)
(*                                                                         *)
(* The event loop and the native runtime run concurrently: the loop hears  *)
(* of what a native call did some time later.  In between the application  *)
(* may abort the request (AbortSignal, or the cancellation of the asyncio  *)
(* task) or close the endpoint.  SdkExchange, SdkLifecycle and             *)
(* LanguagePump have the exchange, the native close and the pump in        *)
(* detail.                                                                 *)
(***************************************************************************)
EXTENDS Naturals

CONSTANTS
    Origin,         \* origins that URLs have
    First,          \* the one of the first request
    MaxRedirects    \* MAX_REDIRECTS, 20 in the code

VARIABLES
    language,
    mode,       \* request.redirect
    request,    \* of the current hop: origin, credentials, body, "POST" or not
    count, phase,
    exchange,   \* of each hop: the native exchange
    pump,       \* of each hop: the promise or task "uploading"
    aborted,
    endpoint,   \* progress of Endpoint.close
    scope,      \* the native client is closed
    awaited,    \* the pumps that close waits for
    sent        \* history: the requests that were started

vars == <<language, mode, request, count, phase, exchange, pump, aborted, endpoint,
          scope, awaited, sent>>

Hop == 0 .. MaxRedirects
Settled == {"response", "rejected"}
PumpLive == {"running", "trailers"}
HopRequest == [origin : Origin, credentials : BOOLEAN, body : BOOLEAN, post : BOOLEAN]

TypeOK ==
    /\ language \in {"js", "python"}
    /\ mode \in {"follow", "manual", "error"}
    /\ request \in HopRequest
    /\ count \in Hop
    /\ phase \in {"enter", "trailers", "starting", "started", "headers", "releasing",
                  "failing"} \cup Settled
    /\ exchange \in [Hop -> {"none", "live", "cancelled", "ended"}]
    /\ pump \in [Hop -> {"none", "settled"} \cup PumpLive]
    /\ aborted \in BOOLEAN /\ scope \in BOOLEAN
    /\ endpoint \in {"open", "closing", "pumps", "closed"}
    /\ awaited \subseteq Hop
    /\ sent \subseteq [hop : Hop, request : HopRequest]

Init ==
    /\ language \in {"js", "python"}
    /\ mode \in {"follow", "manual", "error"}
    /\ request \in [origin : {First}, credentials : BOOLEAN, body : BOOLEAN, post : BOOLEAN]
    /\ count = 0
    /\ phase = "enter"
    /\ exchange = [i \in Hop |-> "none"]
    /\ pump = [i \in Hop |-> "none"]
    /\ aborted = FALSE /\ scope = FALSE
    /\ endpoint = "open"
    /\ awaited = {}
    /\ sent = {}

Cancelled(i) == [exchange EXCEPT ![i] = IF @ = "live" THEN "cancelled" ELSE @]

-----------------------------------------------------------------------------
\* _fetch and _request.

\* Up to the first await.
Enter ==
    /\ phase = "enter"
    /\ phase' = IF endpoint # "open" \/ aborted THEN "rejected"
                ELSE IF request.body \/ language = "python" THEN "starting"
                ELSE "trailers"
    /\ UNCHANGED <<language, mode, request, count, exchange, pump, aborted, endpoint,
                   scope, awaited, sent>>

\* Without a body the trailers go with the request; only JavaScript waits for them,
\* and for nothing else meanwhile.
TrailersReady ==
    /\ phase = "trailers"
    /\ phase' \in {"starting", "rejected"}
    /\ UNCHANGED <<language, mode, request, count, exchange, pump, aborted, endpoint,
                   scope, awaited, sent>>

\* Exchange::start in the native runtime; it refuses what is invalid, and everything
\* once the client is closed.
NativeStarts ==
    /\ phase = "starting"
    /\ \/ /\ ~scope
          /\ phase' = "started"
          /\ exchange' = [exchange EXCEPT ![count] = "live"]
          /\ sent' = sent \cup {[hop |-> count, request |-> request]}
       \/ /\ phase' = "rejected"
          /\ UNCHANGED <<exchange, sent>>
    /\ UNCHANGED <<language, mode, request, count, pump, aborted, endpoint, scope, awaited>>

\* The loop resumes: an abort that came meanwhile is noticed only now.
StartReturns ==
    /\ phase = "started"
    /\ IF language = "js" /\ aborted
       THEN /\ phase' = "rejected"
            /\ exchange' = Cancelled(count)
            /\ UNCHANGED pump
       ELSE /\ phase' = "headers"
            /\ pump' = [pump EXCEPT ![count] = IF request.body THEN "running" ELSE @]
            /\ UNCHANGED exchange
    /\ UNCHANGED <<language, mode, request, count, aborted, endpoint, scope, awaited, sent>>

\* A response.  A redirect that is followed, or refused, is released first:
\* reader.cancel and exchange.cancel.
HeadersReturn(redirect) ==
    /\ phase = "headers"
    /\ IF language = "js" /\ redirect /\ mode # "manual"
       THEN phase' = "releasing" /\ exchange' = Cancelled(count)
       ELSE phase' = "response" /\ UNCHANGED exchange
    /\ UNCHANGED <<language, mode, request, count, pump, aborted, endpoint, scope,
                   awaited, sent>>

\* Mutant: the error is passed on without waiting for the upload.
HeadersFailAtOnce ==
    /\ phase = "headers"
    /\ phase' = "rejected"
    /\ exchange' = Cancelled(count)
    /\ UNCHANGED <<language, mode, request, count, pump, aborted, endpoint, scope,
                   awaited, sent>>

\* The exchange failed, or its response is not one that can be represented.
HeadersFail ==
    /\ phase = "headers"
    /\ phase' = "failing"
    /\ exchange' = Cancelled(count)
    /\ UNCHANGED <<language, mode, request, count, pump, aborted, endpoint, scope,
                   awaited, sent>>

\* "await uploading" of the handler.
FailReturns ==
    /\ phase = "failing" /\ pump[count] \notin PumpLive
    /\ phase' = "rejected"
    /\ UNCHANGED <<language, mode, request, count, exchange, pump, aborted, endpoint,
                   scope, awaited, sent>>

-----------------------------------------------------------------------------
\* fetch, after response.release().

\* Mutant: credentials go wherever the first request would have sent them.
HeadersForOrigin(origin) == (origin = First) /\ \E s \in sent : s.request.credentials

\* The headers of the next request are those of the last one, without credentials
\* when the origin changes.
KeepsCredentials(origin) == request.credentials /\ origin = request.origin

\* 303, or 301 and 302 after a POST: the next request is a GET without a body.
BecomesGet(status) == status = 303 \/ (status \in {301, 302} /\ request.post)

Redirect(status, origin) ==
    /\ phase = "releasing" /\ pump[count] \notin PumpLive
    /\ \/ /\ mode = "follow" /\ count < MaxRedirects
          /\ BecomesGet(status) \/ ~request.body
          /\ request' = [origin |-> origin, credentials |-> KeepsCredentials(origin),
                         body |-> FALSE, post |-> request.post /\ ~BecomesGet(status)]
          /\ count' = count + 1
          /\ phase' = "enter"
       \/ /\ mode = "error" \/ count = MaxRedirects \/ ~(BecomesGet(status) \/ ~request.body)
          /\ phase' = "rejected"
          /\ UNCHANGED <<request, count>>
    /\ UNCHANGED <<language, mode, exchange, pump, aborted, endpoint, scope, awaited, sent>>

-----------------------------------------------------------------------------
\* The application.

\* Mutant: nobody listens to the signal.
AbortUnheard ==
    /\ ~aborted
    /\ aborted' = TRUE
    /\ UNCHANGED <<language, mode, request, count, phase, exchange, pump, endpoint, scope,
                   awaited, sent>>

\* JavaScript: the listener cancels the exchange once there is one.  Python: the
\* await raises; before the response that destroys the native call, with the
\* exchange it may have made.  (asyncio.gather of the handler waits on.)
Abort ==
    /\ ~aborted
    /\ language = "js" \/ phase \notin Settled
    /\ aborted' = TRUE
    /\ IF language = "js"
       THEN /\ exchange' = IF phase \in {"headers", "releasing", "response"}
                           THEN Cancelled(count) ELSE exchange
            /\ UNCHANGED phase
       ELSE /\ exchange' = IF phase \in {"starting", "started", "headers"}
                           THEN Cancelled(count) ELSE exchange
            /\ phase' = CASE phase \in {"starting", "started"} -> "rejected"
                          [] phase = "headers" -> "failing"
                          [] OTHER -> phase
    /\ UNCHANGED <<language, mode, request, count, pump, endpoint, scope, awaited, sent>>

\* The body of the response is cancelled or fails, or release() is called.
ReleaseResponse ==
    /\ phase = "response"
    /\ exchange[count] = "live"
    /\ exchange' = Cancelled(count)
    /\ UNCHANGED <<language, mode, request, count, phase, pump, aborted, endpoint, scope,
                   awaited, sent>>

\* Endpoint.close: the flag, the native close, then the pumps there are by then.
Close ==
    /\ endpoint = "open"
    /\ endpoint' = "closing"
    /\ UNCHANGED <<language, mode, request, count, phase, exchange, pump, aborted, scope,
                   awaited, sent>>

CloseReturnsNative ==
    /\ endpoint = "closing" /\ scope
    /\ \A i \in Hop : exchange[i] \in {"none", "ended"}
    /\ endpoint' = "pumps"
    /\ awaited' = {i \in Hop : pump[i] \in PumpLive}
    /\ UNCHANGED <<language, mode, request, count, phase, exchange, pump, aborted, scope, sent>>

CloseReturns ==
    /\ endpoint = "pumps"
    /\ \A i \in awaited : pump[i] \notin PumpLive
    /\ endpoint' = "closed"
    /\ UNCHANGED <<language, mode, request, count, phase, exchange, pump, aborted, scope,
                   awaited, sent>>

-----------------------------------------------------------------------------
\* The native side and the pumps.

NativeCloses ==
    /\ endpoint = "closing" /\ ~scope
    /\ scope' = TRUE
    /\ exchange' = [i \in Hop |-> IF exchange[i] = "live" THEN "cancelled" ELSE exchange[i]]
    /\ UNCHANGED <<language, mode, request, count, phase, pump, aborted, endpoint, awaited, sent>>

\* An exchange ends when it is done or fails, and always once it is cancelled.
ExchangeEnds(i) ==
    /\ exchange[i] \in {"live", "cancelled"}
    /\ exchange' = [exchange EXCEPT ![i] = "ended"]
    /\ UNCHANGED <<language, mode, request, count, phase, pump, aborted, endpoint, scope,
                   awaited, sent>>

\* The body is over: JavaScript waits for the trailers of the application, and no
\* longer for the exchange.
AwaitTrailers(i) ==
    /\ language = "js" /\ pump[i] = "running"
    /\ pump' = [pump EXCEPT ![i] = "trailers"]
    /\ UNCHANGED <<language, mode, request, count, phase, exchange, aborted, endpoint, scope,
                   awaited, sent>>

\* A pump settles when it has finished and, unless it waits for trailers, always
\* once the body was released.
PumpEnds(i) ==
    /\ pump[i] \in PumpLive
    /\ pump' = [pump EXCEPT ![i] = "settled"]
    /\ UNCHANGED <<language, mode, request, count, phase, exchange, aborted, endpoint, scope,
                   awaited, sent>>

Status == {301, 303, 307}

LoopStep ==
    \/ Enter \/ StartReturns \/ FailReturns
    \/ \E status \in Status, o \in Origin : Redirect(status, o)
    \/ CloseReturnsNative \/ CloseReturns

Next ==
    \/ LoopStep
    \/ TrailersReady \/ NativeStarts \/ HeadersFail
    \/ \E redirect \in BOOLEAN : HeadersReturn(redirect)
    \/ Abort \/ ReleaseResponse \/ Close \/ NativeCloses
    \/ \E i \in Hop : ExchangeEnds(i) \/ AwaitTrailers(i) \/ PumpEnds(i)

Spec == Init /\ [][Next]_vars

-----------------------------------------------------------------------------
\* Properties.

\* Redirects give nothing away: credentials go to the first origin only, and no
\* more once the redirects have led elsewhere, even if they lead back; the body is
\* sent with the first request only (index.js fetch).
RedirectsAreSafe ==
    \A s \in sent :
        /\ s.request.credentials =>
              \A t \in sent : t.hop <= s.hop => t.request.origin = First
        /\ s.request.body => s.hop = 0

\* A request leaves nothing behind: when the next hop begins the previous exchange
\* was cancelled and its upload has settled, and a fetch that rejects, whether it
\* was aborted, closed, failed or led too far, has neither.
FetchHoldsOne ==
    \A i \in Hop :
        i < count \/ phase = "rejected" => exchange[i] # "live" /\ pump[i] \notin PumpLive

\* Once the application has aborted the request, or closes the endpoint, the fetch
\* settles and its upload ends, wherever the call came in between; only trailers of
\* the application that never settle can prevent it (index.js _fetch, pump).
GivenUp == aborted \/ endpoint # "open"
TrailersPending == phase = "trailers" \/ \E i \in Hop : pump[i] = "trailers"
FetchSettles ==
    []<>~TrailersPending =>
        (GivenUp ~> phase \in Settled /\ \A i \in Hop : pump[i] \notin PumpLive)

=============================================================================
