---------------------------- MODULE SdkExchange -----------------------------
(***************************************************************************)
(* One client exchange of the SDK: the task spawned by Client::request     *)
(* (api/src/client.rs), the ResponseFuture it answers, and the BodyReader  *)
(* (api/src/stream.rs) through which the consumer pulls the response body. *)
(*                                                                         *)
(* Three parties run concurrently: the task, which polls the upload and    *)
(* the response; the consumer; and whoever cancels or closes.  They share  *)
(* an OperationState, a oneshot for the response, a command channel whose  *)
(* entries carry a reply oneshot, and the watched completion.  When the    *)
(* exchange fails its future is destroyed first, with the reply and the    *)
(* command receiver; the error is stored only after that.                  *)
(***************************************************************************)
EXTENDS Naturals

CONSTANTS
    MaxData     \* DATA frames of the response

\* Error codes; "closed" is the closed Client, "peer" any transport failure.
Error == {"cancelled", "closed", "deadline", "producer", "peer"}
NoError == "none"

VARIABLES
    error, cancelled,   \* OperationState
    owner,              \* the token of the owning scope is cancelled
    task,               \* the spawned task
    cause,              \* the Err the exchange ended with
    pump,               \* upload direction
    recv,               \* receive direction: waiting for headers, then the worker
    left,               \* DATA frames the peer has not sent yet
    response,           \* the oneshot of the ResponseFuture
    reader,             \* the BodyReader
    next,               \* the active next() call
    reply,              \* its reply oneshot
    completion,         \* the watch channel
    got, sawEnd, failed,    \* what next() has returned: frames, EOF, an error
    abandoned           \* somebody gave up on the exchange

state == <<error, cancelled, owner>>
consumer == <<reader, next, got, sawEnd, failed, abandoned>>
vars == <<state, task, cause, pump, recv, left, response, reply, completion, consumer>>

TypeOK ==
    /\ error \in Error \cup {NoError}
    /\ cancelled \in BOOLEAN
    /\ owner \in BOOLEAN
    /\ task \in {"connecting", "open", "failed", "marked", "ended"}
    /\ cause \in Error \cup {NoError}
    /\ pump \in {"run", "done"}
    /\ recv \in {"headers", "idle", "serving", "eof", "erred", "done"}
    /\ left \in 0 .. MaxData
    /\ response \in {"pending", "response", "error", "taken", "dropped"}
    /\ reader \in {"none", "held", "dropped"}
    /\ next \in {"idle", "waiting"}
    /\ reply \in {"none", "queued", "data", "eof", "error"}
    /\ completion \in {"none", "ok", "error"}
    /\ got \in 0 .. MaxData
    /\ sawEnd \in BOOLEAN
    /\ failed \in Error \cup {NoError}
    /\ abandoned \in BOOLEAN

Init ==
    /\ error = NoError
    /\ cancelled = FALSE
    /\ owner = FALSE
    /\ task = "connecting"
    /\ cause = NoError
    /\ pump = "run"
    /\ recv = "headers"
    /\ left = MaxData
    /\ response = "pending"
    /\ reader = "none"
    /\ next = "idle"
    /\ reply = "none"
    /\ completion = "none"
    /\ got = 0
    /\ sawEnd = FALSE
    /\ failed = NoError
    /\ abandoned = FALSE

-----------------------------------------------------------------------------
\* OperationState

Fail(e) ==
    /\ error' = IF error = NoError THEN e ELSE error
    /\ cancelled' = TRUE
    /\ UNCHANGED owner

IsCancelled == cancelled \/ owner

StateError ==
    IF error # NoError THEN error ELSE IF owner THEN "closed" ELSE "cancelled"

-----------------------------------------------------------------------------
\* The task.  It is one thread of control: between two of its awaits only the
\* consumer and the cancelling parties move.

AtAwait == task \in {"connecting", "open"} /\ recv \notin {"eof", "erred"}

\* The exchange ends with an error: its future goes, and with it the command
\* receiver and a reply that was not sent.
ExchangeFails(e) ==
    /\ task' = "failed"
    /\ cause' = e
    /\ reply' = IF reply = "queued" THEN "none" ELSE reply
    /\ recv' = "done"

Connected ==
    /\ AtAwait
    /\ ~IsCancelled
    /\ task = "connecting"
    /\ task' = "open"
    /\ UNCHANGED <<state, cause, pump, recv, left, response, reply, completion, consumer>>

\* OperationState::run sees the token before it polls the exchange.
TaskCancelled ==
    /\ AtAwait
    /\ IsCancelled
    /\ ExchangeFails(StateError)
    /\ UNCHANGED <<state, pump, left, response, completion, consumer>>

DeadlineExpires ==
    /\ AtAwait
    /\ ~IsCancelled
    /\ ExchangeFails("deadline")
    /\ UNCHANGED <<state, pump, left, response, completion, consumer>>

\* Connecting, the response headers or the upload fail.
TransportFails ==
    /\ AtAwait
    /\ ~IsCancelled
    /\ recv = "headers" \/ pump = "run"
    /\ \/ ExchangeFails("peer")
       \/ task = "open" /\ pump = "run" /\ ExchangeFails("producer")
    /\ UNCHANGED <<state, pump, left, response, completion, consumer>>

PumpEnds ==
    /\ AtAwait
    /\ task = "open"
    /\ ~IsCancelled
    /\ pump = "run"
    /\ pump' = "done"
    /\ UNCHANGED <<state, task, cause, recv, left, response, reply, completion, consumer>>

\* The response head; sending it fails when the ResponseFuture was dropped.
HeadersArrive ==
    /\ AtAwait
    /\ task = "open"
    /\ ~IsCancelled
    /\ recv = "headers"
    /\ \/ /\ response = "pending"
          /\ response' = "response"
          /\ recv' = "idle"
          /\ UNCHANGED <<task, cause, reply>>
       \/ /\ response = "dropped"
          /\ ExchangeFails("cancelled")
          /\ UNCHANGED response
    /\ UNCHANGED <<state, pump, left, completion, consumer>>

\* The receive worker takes a command and polls the body.
WorkerTakes ==
    /\ AtAwait
    /\ task = "open"
    /\ ~IsCancelled
    /\ recv = "idle"
    /\ reply = "queued"
    /\ recv' = "serving"
    /\ UNCHANGED <<state, task, cause, pump, left, response, reply, completion, consumer>>

\* reply.send: fails when the next() call that asked has gone.
WorkerData ==
    /\ AtAwait
    /\ task = "open"
    /\ ~IsCancelled
    /\ recv = "serving"
    /\ left > 0
    /\ left' = left - 1
    /\ IF next = "waiting"
         THEN /\ reply' = "data"
              /\ recv' = "idle"
              /\ UNCHANGED cause
         ELSE /\ recv' = "erred"
              /\ cause' = "cancelled"
              /\ UNCHANGED reply
    /\ UNCHANGED <<state, task, pump, response, completion, consumer>>

\* Mutant: the reply is sent without the completion having been published.
WorkerEndsUnpublished ==
    /\ AtAwait
    /\ task = "open"
    /\ ~IsCancelled
    /\ recv = "serving"
    /\ left = 0
    /\ recv' = "eof"
    /\ UNCHANGED <<state, task, cause, pump, left, response, reply, completion, consumer>>

\* End of the body: the completion is published before the reply is sent.
WorkerPublishesEnd ==
    /\ AtAwait
    /\ task = "open"
    /\ ~IsCancelled
    /\ recv = "serving"
    /\ left = 0
    /\ completion' = "ok"
    /\ recv' = "eof"
    /\ UNCHANGED <<state, task, cause, pump, left, response, reply, consumer>>

WorkerEnd ==
    /\ recv = "eof"
    /\ IF next = "waiting"
         THEN /\ reply' = "eof"
              /\ recv' = "done"
              /\ UNCHANGED cause
         ELSE /\ recv' = "erred"
              /\ cause' = "cancelled"
              /\ UNCHANGED reply
    /\ UNCHANGED <<state, task, pump, left, response, completion, consumer>>

\* Mutant: a failed body is taken for the end of the body.
WorkerErrsAsEnd ==
    /\ AtAwait
    /\ task = "open"
    /\ ~IsCancelled
    /\ recv = "serving"
    /\ completion' = "ok"
    /\ recv' = "eof"
    /\ UNCHANGED <<state, task, cause, pump, left, response, reply, consumer>>

\* The body fails: the consumer is told first ...
WorkerErrs ==
    /\ AtAwait
    /\ task = "open"
    /\ ~IsCancelled
    /\ recv = "serving"
    /\ reply' = "error"
    /\ recv' = "erred"
    /\ cause' = "peer"
    /\ UNCHANGED <<state, task, pump, left, response, completion, consumer>>

\* The worker's own OperationState::run notices the cancellation.
WorkerCancelled ==
    /\ AtAwait
    /\ task = "open"
    /\ IsCancelled
    /\ recv \in {"idle", "serving"}
    /\ recv' = "erred"
    /\ cause' = StateError
    /\ UNCHANGED <<state, task, pump, left, response, reply, completion, consumer>>

\* Either way the worker then stores the error and the exchange fails with it.
WorkerMarks ==
    /\ recv = "erred"
    /\ Fail(cause)
    /\ completion' = "error"
    /\ ExchangeFails(cause)
    /\ UNCHANGED <<pump, left, response, consumer>>

ExchangeSucceeds ==
    /\ task = "open"
    /\ pump = "done"
    /\ recv = "done"
    /\ task' = "ended"
    /\ UNCHANGED <<state, cause, pump, recv, left, response, reply, completion, consumer>>

\* After the exchange future is gone: store the error, answer, release.
TaskMarks ==
    /\ task = "failed"
    /\ task' = "marked"
    /\ Fail(cause)
    /\ UNCHANGED <<cause, pump, recv, left, response, reply, completion, consumer>>

\* Mutant: the error is stored but the ResponseFuture is not answered.
TaskEndsSilently ==
    /\ task = "marked"
    /\ task' = "ended"
    /\ UNCHANGED <<state, cause, pump, recv, left, response, reply, completion, consumer>>

TaskEnds ==
    /\ task = "marked"
    /\ task' = "ended"
    /\ response' = IF response = "pending" THEN "error" ELSE response
    /\ UNCHANGED <<state, cause, pump, recv, left, reply, completion, consumer>>

-----------------------------------------------------------------------------
\* The consumer.

worker == <<task, cause, pump, recv, left>>

ResponseReturns ==
    /\ \/ /\ response = "response"
          /\ reader' = "held"
       \/ /\ response = "error"         \* the error it carries is the cause
          /\ UNCHANGED reader
    /\ response' = "taken"
    /\ UNCHANGED <<state, worker, reply, completion, next, got, sawEnd, failed, abandoned>>

\* ResponseFuture::drop; a response nobody took is dropped with it.
ResponseDropped ==
    /\ response \in {"pending", "response", "error"}
    /\ response' = "dropped"
    /\ Fail("cancelled")
    /\ abandoned' = TRUE
    /\ UNCHANGED <<worker, reply, completion, reader, next, got, sawEnd, failed>>

\* BodyReader::next.  After completion, or once cancelled, it answers at once.
NextCall ==
    /\ reader = "held"
    /\ next = "idle"
    /\ ~sawEnd /\ failed = NoError
    /\ \/ /\ completion = "none" /\ ~IsCancelled /\ recv # "done"
          /\ next' = "waiting"
          /\ reply' = "queued"
          /\ UNCHANGED <<sawEnd, failed>>
       \/ /\ completion = "none" /\ (IsCancelled \/ recv = "done")
          /\ failed' = StateError
          /\ UNCHANGED <<next, reply, sawEnd>>
       \/ /\ completion = "ok"
          /\ sawEnd' = TRUE
          /\ UNCHANGED <<next, reply, failed>>
       \/ /\ completion = "error"
          /\ failed' = cause
          /\ UNCHANGED <<next, reply, sawEnd>>
    /\ UNCHANGED <<state, worker, response, completion, reader, got, abandoned>>

\* The pending call returns the reply, the stored error when it is cancelled,
\* or the stored error when its reply was dropped unsent.
NextReturns ==
    /\ next = "waiting"
    /\ \/ /\ IsCancelled
          /\ failed' = StateError
          /\ UNCHANGED <<got, sawEnd>>
       \/ /\ ~IsCancelled /\ reply = "data"
          /\ got' = got + 1
          /\ UNCHANGED <<sawEnd, failed>>
       \/ /\ ~IsCancelled /\ reply = "eof"
          /\ sawEnd' = TRUE
          /\ UNCHANGED <<got, failed>>
       \/ /\ ~IsCancelled /\ reply = "error"
          /\ failed' = cause
          /\ UNCHANGED <<got, sawEnd>>
       \/ /\ ~IsCancelled /\ reply = "none"
          /\ failed' = StateError
          /\ UNCHANGED <<got, sawEnd>>
    /\ next' = "idle"
    /\ reply' = "none"
    /\ UNCHANGED <<state, worker, response, completion, reader, abandoned>>

\* The consumer drops a pending next().
NextDropped ==
    /\ next = "waiting"
    /\ next' = "idle"
    /\ reply' = "none"
    /\ Fail("cancelled")
    /\ abandoned' = TRUE
    /\ UNCHANGED <<worker, response, completion, reader, got, sawEnd, failed>>

\* BodyReader::drop
ReaderDropped ==
    /\ reader = "held"
    /\ next = "idle"
    /\ reader' = "dropped"
    /\ IF completion = "ok" THEN UNCHANGED state ELSE Fail("cancelled")
    /\ abandoned' = (abandoned \/ ~sawEnd)
    /\ UNCHANGED <<worker, response, reply, completion, next, got, sawEnd, failed>>

\* Cancellation::cancel, BodyReader::cancel
Cancel ==
    /\ ~abandoned
    /\ Fail("cancelled")
    /\ abandoned' = TRUE
    /\ UNCHANGED <<worker, response, reply, completion, reader, next, got,
                   sawEnd, failed>>

\* The client's scope is cancelled.
OwnerCloses ==
    /\ ~owner
    /\ owner' = TRUE
    /\ UNCHANGED <<error, cancelled, worker, response, reply, completion, consumer>>

-----------------------------------------------------------------------------

TaskStep ==
    \/ Connected \/ TaskCancelled \/ DeadlineExpires \/ TransportFails \/ PumpEnds
    \/ HeadersArrive \/ WorkerTakes \/ WorkerData \/ WorkerPublishesEnd \/ WorkerEnd
    \/ WorkerErrs \/ WorkerCancelled \/ WorkerMarks \/ ExchangeSucceeds \/ TaskMarks \/ TaskEnds

Next ==
    \/ TaskStep
    \/ ResponseReturns \/ ResponseDropped
    \/ NextCall \/ NextReturns \/ NextDropped \/ ReaderDropped
    \/ Cancel \/ OwnerCloses

Spec == Init /\ [][Next]_vars

-----------------------------------------------------------------------------
\* Properties.

\* A consumer that has read the body to its end may drop the reader at once:
\* that never cancels the exchange and the upload that is still running.
EofKeepsUpload == error = "cancelled" => abandoned \/ owner

\* next() keeps the promise of BodyStream for a body that the peer sends whole: it
\* returns the DATA frames and reports EOF only after the last of them; no frame
\* is lost with a call that was dropped or cancelled between request and reply,
\* and nothing follows an error (stream.rs BodyReader).
Promise == INSTANCE BodyStream WITH
    accepted <- [i \in 1 .. MaxData |-> i],
    delivered <- [i \in 1 .. got |-> i],
    ending <- TRUE,
    trailers <- 0, received <- 0,
    outcome <- IF sawEnd THEN "eof" ELSE IF failed # NoError THEN "failed" ELSE "open"

IsBodyStream == Promise!Spec

\* When the producer of the upload fails, a next() that fails because of it says
\* so, as api/tests/test_python_sdk.py asserts of a read that is pending then.
ReaderSeesProducer ==
    (failed # NoError /\ cause = "producer" /\ ~abandoned /\ ~owner) => failed = "producer"

\* Once cancelled, closed or failed, the exchange releases its operation, and
\* neither the ResponseFuture nor a next() that is pending is left waiting,
\* although worker and reply channel may be gone (client.rs Client::request,
\* stream.rs BodyReader::next).
CancelledExchangeEnds ==
    IsCancelled \/ task = "failed" ~>
        task = "ended" /\ response # "pending" /\ next = "idle"

=============================================================================
