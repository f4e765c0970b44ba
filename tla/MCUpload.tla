------------------------------ MODULE MCUpload ------------------------------
(***************************************************************************)
(* The two carriers of an upload on their own: the channel of the SDK,     *)
(* used from Rust or by the pump of a language SDK, and the request writer *)
(* of dhttp.  "part" says which of them a behaviour is about; the others   *)
(* keep their initial state.  MCRequest joins the two.                     *)
(***************************************************************************)
EXTENDS LanguagePump

CONSTANTS
    Window, MaxBytes, MaxTrailers       \* RequestWriter

VARIABLES
    part,
    \* RequestWriter; "writing" is its call
    window, buffered, trailers, task, aborted, closed, owned, writing, dropped,
    response, written, sent, sentTrailers, ended

requestVars == <<window, buffered, trailers, task, aborted, closed, owned, writing,
                 dropped, response, written, sent, sentTrailers, ended>>
all == <<vars, pumpVars, requestVars, part>>

Request == INSTANCE RequestWriter WITH call <- writing

NoPump ==
    /\ language = "rust" /\ step = "read" /\ outer = "wait"
    /\ notice = "none" /\ noticed = FALSE

NoRequest == Request!Init /\ buffered = 0 /\ trailers = 0

MCInit ==
    \/ part = "channel" /\ Init /\ NoPump /\ NoRequest
    \/ part = "pump" /\ PumpInit /\ NoRequest
    \/ part = "request" /\ Request!Init /\ Init /\ NoPump

Channel(A) == part = "channel" /\ A /\ UNCHANGED <<pumpVars, requestVars, part>>
Pumping(A) == part = "pump" /\ A /\ UNCHANGED <<requestVars, part>>
Requesting(A) == part = "request" /\ A /\ UNCHANGED <<vars, pumpVars, part>>

MCNext == Channel(Next) \/ Pumping(PumpNext) \/ Requesting(Request!Next)

\* The exchange task polls its body until the end, and a started call is polled.
\* The event loop and the runtime resume what is ready and let go of what has ended;
\* the application's body and trailers may stall for ever, and so may the consumer
\* of its pump.
\* The runtime ends an aborted upload task and wakes the application; the peer
\* owes nothing, so sending is not fair.
MCFairness ==
    /\ WF_all(Channel(Poll))
    /\ \A w \in Writer : SF_all(Channel(CallStep(w)))
    /\ WF_all(Pumping(LoopStep))
    /\ WF_all(Pumping(WriterReleased))
    /\ WF_all(Pumping(ClosedReturns))
    /\ SF_all(Pumping(ClosedLocks))
    /\ SF_all(Pumping(CallStep(Pump) /\ UNCHANGED pumpVars))
    /\ WF_all(Requesting(Request!TaskAborts))
    /\ WF_all(Requesting(Request!WriteFails))
    /\ WF_all(Requesting(Request!ShutdownWindowFails \/ Request!ShutdownWindowDone))
    /\ WF_all(Requesting(Request!ShutdownJoins))

MCSpec == MCInit /\ [][MCNext]_all /\ MCFairness

-----------------------------------------------------------------------------
\* Properties.

\* No producer waits for ever.  A call on the channel returns, because the exchange
\* polls its body, ends it or drops it (stream.rs UploadWriter::send and finish);
\* a call on the request writer returns once the response has failed or the upload
\* was cancelled, whatever the peer does (request.rs).
CallsReturn ==
    /\ \A w \in Writer : part = "channel" /\ pc[w] # "idle" ~> pc[w] = "idle"
    /\ Request!CancelledCallsReturn

\* The request writer keeps the promise of BodyStream (request.rs RequestWriter).
RequestIsBodyStream == Request!IsBodyStream

\* An upload that one side has given up ends.  Once the consumer has released the
\* body the pump ends, although the application's body may have stalled; and
\* "Cancelling shutdown() cannot detach the task": once the request writer is
\* dropped its upload ends, although the peer may never read again.  And a consumer
\* hears of a pump that has ended, one that was cancelled before it began included.
AbandonedUploadEnds == ReleasedPumpEnds /\ EndedPumpIsHeard /\ Request!DropEndsUpload

\* No side waits for one that has failed, gone or given up: neither a producer in a
\* call (stream.rs, request.rs) nor a pump or an upload task without a consumer or a
\* writer (index.js, endpoint.py, request.rs), nor a consumer without a pump.
NobodyWaits == CallsReturn /\ AbandonedUploadEnds

=============================================================================
