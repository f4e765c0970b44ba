-------------------------------- MODULE MCSdk -------------------------------
(***************************************************************************)
(* The SDK: ownership and shutdown of a client, one exchange, and above    *)
(* them the requests and the listeners of the language SDKs.  "part" says  *)
(* which of them a behaviour is about; the others keep an initial state.   *)
(***************************************************************************)
EXTENDS SdkLifecycle, Naturals

CONSTANTS
    MaxData,                        \* SdkExchange
    Origin, First, MaxRedirects,    \* LanguageFetch
    Stream                          \* LanguageServe

ASSUME SdkAssumption ==
    /\ MaxData \in Nat
    /\ MaxRedirects \in Nat
    /\ First \in Origin

VARIABLES
    part,
    \* SdkExchange; "failing" is its cancelled
    error, failing, owner, task, cause, upload, recv, left, response, reader, next,
    reply, completion, got, sawEnd, failed, abandoned,
    \* LanguageFetch
    client, mode, sending, count, phase, exchange, pump, aborted, endpoint, scope,
    awaited, sent,
    \* LanguageServe
    server, native, callback, body, pumping, listening, ended, joined

exchangeVars == <<error, failing, owner, task, cause, upload, recv, left, response, reader,
                  next, reply, completion, got, sawEnd, failed, abandoned>>
fetchVars == <<client, mode, sending, count, phase, exchange, pump, aborted, endpoint, scope,
               awaited, sent>>
serveVars == <<server, native, callback, body, pumping, listening, ended, joined>>
all == <<vars, exchangeVars, fetchVars, serveVars, part>>

Exchange == INSTANCE SdkExchange WITH cancelled <- failing, pump <- upload
Fetch == INSTANCE LanguageFetch WITH language <- client, request <- sending
Serve == INSTANCE LanguageServe WITH
    language <- server, pump <- pumping, listener <- listening, scope <- ended, awaited <- joined

NoFetch ==
    /\ client = "python" /\ mode = "manual"
    /\ sending = [origin |-> First, credentials |-> FALSE, body |-> FALSE, post |-> FALSE]
    /\ Fetch!Init

NoServe == server = "python" /\ Serve!Init

MCInit ==
    \/ part \in {"lifecycle", "exchange"} /\ Init /\ Exchange!Init /\ NoFetch /\ NoServe
    \/ part = "fetch" /\ Init /\ Exchange!Init /\ Fetch!Init /\ NoServe
    \/ part = "serve" /\ Init /\ Exchange!Init /\ NoFetch /\ Serve!Init

Living(A) == part = "lifecycle" /\ A /\ UNCHANGED <<exchangeVars, fetchVars, serveVars, part>>
Exchanging(A) == part = "exchange" /\ A /\ UNCHANGED <<vars, fetchVars, serveVars, part>>
Fetching(A) == part = "fetch" /\ A /\ UNCHANGED <<vars, exchangeVars, serveVars, part>>
Serving(A) == part = "serve" /\ A /\ UNCHANGED <<vars, exchangeVars, fetchVars, part>>

MCNext ==
    \/ Living(Next) \/ Exchanging(Exchange!Next) \/ Fetching(Fetch!Next) \/ Serving(Serve!Next)

(***************************************************************************)
(* Tasks and pending calls are polled; a call of listen or reload ends by  *)
(* itself; the control mutex is fair.  Work that was cancelled ends: the   *)
(* exchange, the handler and the receive worker select on the token, and   *)
(* OwnedBody looks at it whenever it is polled, which a response that is   *)
(* stuck in a write is not.  The runtime polls a task that was woken, by a *)
(* cancellation, an error to store or a reply to send; the event loop      *)
(* resumes what is ready.  Nothing is assumed of the peer, of handlers or  *)
(* of trailers: where a property depends on them, it says so.              *)
(***************************************************************************)
MCFairness ==
    /\ \A q \in Request :
         WF_all(Living(RequestStart(q))) /\ WF_all(Living(cancelled /\ RequestEnds(q)))
    /\ \A l \in Listener :
         WF_all(Living(Task(l))) /\ WF_all(Living(ListenSucceeds(l) \/ ListenFails(l)))
    /\ \A h \in Handler :
         /\ WF_all(Living(Admission(h)))
         /\ WF_all(Living(HandlerCancelled(h) /\ handler[h] \in {"running", "body"}
                          /\ HandlerEnds(h)))
         /\ WF_all(Living(HandlerCancelled(h) /\ ReadingEnds(h)))
    /\ \A c \in Caller : SF_all(Living(CallerStep(c)))
    /\ WF_all(Exchanging(Exchange!TaskCancelled))
    /\ WF_all(Exchanging(Exchange!WorkerEnd \/ Exchange!WorkerMarks
                           \/ Exchange!TaskMarks \/ Exchange!TaskEnds))
    /\ WF_all(Exchanging(Exchange!ResponseReturns))
    /\ WF_all(Exchanging(Exchange!NextReturns))
    /\ WF_all(Fetching(Fetch!LoopStep))
    /\ WF_all(Fetching(Fetch!NativeStarts))
    /\ WF_all(Fetching(Fetch!NativeCloses))
    /\ WF_all(Fetching(exchange[count] # "live" /\ Fetch!HeadersFail))
    /\ \A i \in 0 .. MaxRedirects :
         /\ WF_all(Fetching(exchange[i] = "cancelled" /\ Fetch!ExchangeEnds(i)))
         /\ WF_all(Fetching(exchange[i] # "live" /\ pump[i] = "running" /\ Fetch!PumpEnds(i)))
    /\ \A h \in Stream :
         /\ WF_all(Serving(Serve!LoopStep(h)))
         /\ WF_all(Serving(ended /\ native[h] \in {"calling", "body"} /\ Serve!NativeEnds(h)))
         /\ WF_all(Serving(native[h] = "done" /\ pumping[h] = "running" /\ Serve!PumpEnds(h)))
    /\ WF_all(Serving(Serve!NativeCloses))
    /\ WF_all(Serving(Serve!NativeCloseReturns \/ Serve!CloseReturns))

MCSpec == MCInit /\ [][MCNext]_all /\ MCFairness

-----------------------------------------------------------------------------
\* Properties.

\* A consumer that has read the body to its end may drop the reader at once: that
\* never cancels an upload that is still running (stream.rs BodyReader::drop).
EofKeepsUpload == Exchange!EofKeepsUpload

\* next() keeps the promise of BodyStream (stream.rs BodyReader).
IsBodyStream == Exchange!IsBodyStream

\* Once cancelled, closed or failed, the exchange releases its operation and leaves
\* nobody waiting (client.rs Client::request, stream.rs BodyReader::next).
CancelledExchangeEnds == Exchange!CancelledExchangeEnds

\* Redirects give neither credentials nor bodies away (index.js fetch).
RedirectsAreSafe == Fetch!RedirectsAreSafe

\* A request of a language SDK leaves no exchange and no upload behind, and nothing
\* of a closed listener is at work (index.js, endpoint.py, binding.rs).
NothingLeftBehind == Fetch!FetchHoldsOne /\ Serve!ListenerIsQuiet

\* A request that is aborted, or whose endpoint closes, settles, and Listener.close()
\* returns (index.js, endpoint.py).
LanguageCallsSettle == Fetch!FetchSettles /\ Serve!ListenerCloses

=============================================================================
