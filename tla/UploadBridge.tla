---------------------------- MODULE UploadBridge ----------------------------
(***************************************************************************)
(* The upload channel of the SDK (api/src/stream.rs): UploadWriter calls   *)
(* made by language producers, a bounded queue, and the UploadBody that    *)
(* the exchange task polls.                                                *)
(*                                                                         *)
(* A call is a future.  It waits for the sender mutex, enqueues its chunks *)
(* one reservation at a time, and may be dropped by its producer at any    *)
(* await.  Dropping destroys the inner future first, which releases the    *)
(* mutex, and only then runs CancelWriteOnDrop: two steps here.            *)
(***************************************************************************)
EXTENDS Naturals, Sequences

CONSTANTS
    Writer,         \* producer tasks that share one UploadWriter
    QueuedChunks,   \* capacity of the channel
    MaxChunks,      \* bound: chunks one send call splits into
    MaxSends,       \* bound: number of send calls
    DropsRace,      \* a call may be dropped while another one is pending
    NoWriter

ASSUME UploadAssumption ==
    /\ QueuedChunks \in Nat \ {0}
    /\ MaxChunks \in Nat
    /\ MaxSends \in Nat
    /\ DropsRace \in BOOLEAN
    /\ NoWriter \notin Writer

Call == 1 .. MaxSends
Data == Call \X (1 .. MaxChunks)     \* the i-th chunk of a send call
Finish == <<0, 0>>                   \* UploadFrame::Finish

VARIABLES
    queue,      \* the mpsc channel
    sender,     \* the Option<Sender> under the mutex is Some
    gone,       \* the UploadWriter itself was dropped
    mutex,      \* who holds the sender mutex
    pc,         \* progress of each producer's current call
    call,       \* the send call a producer is in
    sends,      \* send calls started so far
    total,      \* chunks of each send call
    pushed,     \* chunks of it that entered the queue
    result,     \* how it ended
    error,      \* OperationState.error
    cancelled,  \* OperationState.cancel
    open,       \* the receiver accepts frames
    outcome,    \* what UploadBody has reported
    delivered,  \* DATA frames it has yielded
    finished,   \* history: a finish call has enqueued its frame
    accepted    \* history: the sends that began to enter the queue, whole

vars == <<queue, sender, gone, mutex, pc, call, sends, total, pushed, result,
          error, cancelled, open, outcome, delivered, finished, accepted>>

TypeOK ==
    /\ queue \in Seq(Data \cup {Finish})
    /\ sender \in BOOLEAN
    /\ gone \in BOOLEAN
    /\ mutex \in Writer \cup {NoWriter}
    /\ pc \in [Writer -> {"idle", "sendlock", "finishlock", "send", "finish", "dropping"}]
    /\ call \in [Writer -> 0 .. MaxSends]
    /\ sends \in 0 .. MaxSends
    /\ total \in [Call -> 0 .. MaxChunks]
    /\ pushed \in [Call -> 0 .. MaxChunks]
    /\ result \in [Call -> {"none", "ok", "err", "dropped"}]
    /\ error \in {"none", "cancelled", "producer"}
    /\ cancelled \in BOOLEAN
    /\ open \in BOOLEAN
    /\ outcome \in {"run", "eof", "error", "dropped"}
    /\ delivered \in Seq(Data)
    /\ finished \in BOOLEAN
    /\ accepted \in Seq(Data)

Init ==
    /\ queue = <<>>
    /\ sender = TRUE
    /\ gone = FALSE
    /\ mutex = NoWriter
    /\ pc = [w \in Writer |-> "idle"]
    /\ call = [w \in Writer |-> 0]
    /\ sends = 0
    /\ total = [c \in Call |-> 0]
    /\ pushed = [c \in Call |-> 0]
    /\ result = [c \in Call |-> "none"]
    /\ error = "none"
    /\ cancelled = FALSE
    /\ open = TRUE
    /\ outcome = "run"
    /\ delivered = <<>>
    /\ finished = FALSE
    /\ accepted = <<>>

-----------------------------------------------------------------------------

body == <<open, outcome, delivered, finished, accepted>>
state == <<error, cancelled>>

\* OperationState::fail: the first error stays.
Fail(e) ==
    /\ error' = IF error = "none" THEN e ELSE error
    /\ cancelled' = TRUE

\* The call of w returns (or is destroyed) and its mutex guard with it.
Leave(w, next, r) ==
    /\ pc' = [pc EXCEPT ![w] = next]
    /\ mutex' = IF mutex = w THEN NoWriter ELSE mutex
    /\ call' = [call EXCEPT ![w] = 0]
    /\ result' = IF call[w] = 0 THEN result ELSE [result EXCEPT ![call[w]] = r]

\* Without racing drops, no call starts while another one is being destroyed.
MayStart == DropsRace \/ \A v \in Writer : pc[v] # "dropping"

StartSend(w, n) ==
    /\ ~gone
    /\ MayStart
    /\ pc[w] = "idle"
    /\ sends < MaxSends
    /\ sends' = sends + 1
    /\ pc' = [pc EXCEPT ![w] = "sendlock"]
    /\ call' = [call EXCEPT ![w] = sends + 1]
    /\ total' = [total EXCEPT ![sends + 1] = n]
    /\ UNCHANGED <<queue, sender, gone, mutex, pushed, result, state, body>>

StartFinish(w) ==
    /\ ~gone
    /\ MayStart
    /\ pc[w] = "idle"
    /\ pc' = [pc EXCEPT ![w] = "finishlock"]
    /\ UNCHANGED <<queue, sender, gone, mutex, call, sends, total, pushed,
                   result, state, body>>

\* The biased select looks at the cancellation before it polls the call.
Acquire(w) ==
    /\ pc[w] \in {"sendlock", "finishlock"}
    /\ mutex = NoWriter
    /\ ~cancelled
    /\ \/ /\ sender
          /\ mutex' = w
          /\ pc' = [pc EXCEPT ![w] = IF @ = "sendlock" THEN "send" ELSE "finish"]
          /\ UNCHANGED <<call, result>>
       \/ /\ ~sender                       \* "upload finished"
          /\ Leave(w, "idle", "err")
    /\ UNCHANGED <<queue, sender, gone, sends, total, pushed, state, body>>

\* The chunks a send call splits its bytes into.
Chunks(c) == [i \in 1 .. total[c] |-> <<c, i>>]

PushChunk(w) ==
    LET c == call[w] IN
    /\ pc[w] = "send"
    /\ pushed[c] < total[c]
    /\ open
    /\ Len(queue) < QueuedChunks
    /\ queue' = Append(queue, <<c, pushed[c] + 1>>)
    /\ pushed' = [pushed EXCEPT ![c] = @ + 1]
    /\ accepted' = IF pushed[c] = 0 THEN accepted \o Chunks(c) ELSE accepted
    /\ UNCHANGED <<sender, gone, mutex, pc, call, sends, total, result, state,
                   open, outcome, delivered, finished>>

SendReturns(w) ==
    /\ pc[w] = "send"
    /\ pushed[call[w]] = total[call[w]]
    /\ Leave(w, "idle", "ok")
    /\ UNCHANGED <<queue, sender, gone, sends, total, pushed, state, body>>

FinishReturns(w) ==
    /\ pc[w] = "finish"
    /\ open
    /\ Len(queue) < QueuedChunks
    /\ queue' = Append(queue, Finish)
    /\ sender' = FALSE
    /\ finished' = TRUE
    /\ Leave(w, "idle", "ok")
    /\ UNCHANGED <<gone, sends, total, pushed, state, open, outcome, delivered, accepted>>

\* Mutant: only finish notices that the consumer is gone.
ConsumerClosedFinishOnly(w) ==
    /\ pc[w] = "finish"
    /\ ~open
    /\ Leave(w, "idle", "err")
    /\ UNCHANGED <<queue, sender, gone, sends, total, pushed, state, body>>

\* "upload consumer closed"
ConsumerClosed(w) ==
    /\ \/ pc[w] = "finish"
       \/ pc[w] = "send" /\ pushed[call[w]] < total[call[w]]
    /\ ~open
    /\ Leave(w, "idle", "err")
    /\ UNCHANGED <<queue, sender, gone, sends, total, pushed, state, body>>

\* OperationState::run reports the stored error.
CallCancelled(w) ==
    /\ pc[w] \notin {"idle", "dropping"}
    /\ cancelled
    /\ Leave(w, "idle", "err")
    /\ UNCHANGED <<queue, sender, gone, sends, total, pushed, state, body>>

\* The producer drops the future: the inner future goes first ...
DropCall(w) ==
    /\ pc[w] \notin {"idle", "dropping"}
    /\ DropsRace \/ \A v \in Writer \ {w} : pc[v] = "idle"
    /\ Leave(w, "dropping", "dropped")
    /\ UNCHANGED <<queue, sender, gone, sends, total, pushed, state, body>>

\* Mutant: dropping a call does not fail the upload.
DropGuardDisarmed(w) ==
    /\ pc[w] = "dropping"
    /\ pc' = [pc EXCEPT ![w] = "idle"]
    /\ UNCHANGED <<queue, sender, gone, mutex, call, sends, total, pushed,
                   result, state, body>>

\* ... then CancelWriteOnDrop.
DropGuard(w) ==
    /\ pc[w] = "dropping"
    /\ pc' = [pc EXCEPT ![w] = "idle"]
    /\ Fail("cancelled")
    /\ UNCHANGED <<queue, sender, gone, mutex, call, sends, total, pushed,
                   result, body>>

\* UploadWriter::fail
ProducerFails ==
    /\ ~gone
    /\ Fail("producer")
    /\ UNCHANGED <<queue, sender, gone, mutex, pc, call, sends, total, pushed,
                   result, body>>

DropWriter ==
    /\ ~gone
    /\ \A w \in Writer : pc[w] = "idle"
    /\ gone' = TRUE
    /\ sender' = FALSE
    /\ UNCHANGED <<queue, mutex, pc, call, sends, total, pushed, result, state, body>>

-----------------------------------------------------------------------------
\* UploadBody::poll_frame, the cancellation check and the receive in one step;
\* once it has ended it only repeats None.

writers == <<sender, gone, mutex, pc, call, sends, total, pushed, result, finished,
             accepted>>

PollCancelled ==
    /\ outcome = "run"
    /\ cancelled
    /\ outcome' = "error"
    /\ open' = FALSE
    /\ UNCHANGED <<queue, writers, state, delivered>>

PollData ==
    /\ outcome = "run"
    /\ ~cancelled
    /\ queue # <<>> /\ Head(queue) # Finish
    /\ queue' = Tail(queue)
    /\ delivered' = Append(delivered, Head(queue))
    /\ UNCHANGED <<writers, state, open, outcome>>

PollFinish ==
    /\ outcome = "run"
    /\ ~cancelled
    /\ queue # <<>> /\ Head(queue) = Finish
    /\ queue' = Tail(queue)
    /\ outcome' = "eof"
    /\ open' = FALSE
    /\ UNCHANGED <<writers, state, delivered>>

\* Every sender is gone and no Finish was queued.
PollOrphaned ==
    /\ outcome = "run"
    /\ ~cancelled
    /\ queue = <<>>
    /\ ~sender
    /\ outcome' = "error"
    /\ UNCHANGED <<queue, writers, state, open, delivered>>

\* The exchange drops the body.
DropBody ==
    /\ outcome \in {"run", "error"}
    /\ outcome' = "dropped"
    /\ open' = FALSE
    /\ queue' = <<>>
    /\ UNCHANGED <<writers, state, delivered>>

Poll == PollCancelled \/ PollData \/ PollFinish \/ PollOrphaned

CallStep(w) ==
    Acquire(w) \/ PushChunk(w) \/ SendReturns(w) \/ FinishReturns(w)
      \/ ConsumerClosed(w) \/ CallCancelled(w) \/ DropGuard(w)

Next ==
    \/ \E w \in Writer :
         \/ CallStep(w) \/ DropCall(w) \/ StartFinish(w)
         \/ \E n \in 0 .. MaxChunks : StartSend(w, n)
    \/ ProducerFails \/ DropWriter
    \/ Poll \/ DropBody

Spec == Init /\ [][Next]_vars

-----------------------------------------------------------------------------
\* Properties.

\* Bytes are never lost silently: UploadBody reports EOF only after a finish,
\* and then every send call that put a chunk into the queue has been delivered
\* whole, although calls may be dropped, fail or overlap (stream.rs
\* UploadWriter::send and UploadBody::poll_frame).
EofIsComplete ==
    outcome = "eof" =>
      /\ finished
      /\ \A c \in Call : pushed[c] > 0 \/ result[c] = "ok" =>
            \A i \in 1 .. total[c] : \E j \in DOMAIN delivered : delivered[j] = <<c, i>>

\* The channel keeps the promise of BodyStream, a send being added as a whole:
\* chunks arrive in order, those of one send are not interleaved with another's,
\* and EOF is reported only after a finish and after every send that began to
\* enter the queue, however calls overlap, fail or are dropped (stream.rs
\* UploadWriter and UploadBody).
Promise == INSTANCE BodyStream WITH
    trailers <- 0, received <- 0,
    ending <- finished,
    outcome <- CASE outcome = "run" -> "open"
                 [] outcome = "eof" -> "eof"
                 [] OTHER -> "failed"

IsBodyStream == Promise!Spec

=============================================================================
