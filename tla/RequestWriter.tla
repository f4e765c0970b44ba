--------------------------- MODULE RequestWriter ---------------------------
(***************************************************************************)
(* The upload half of a streaming request (dhttp/src/endpoint/request.rs): *)
(* the RequestWriter the application holds, the task spawned to write the  *)
(* request to the stream, and the response future, all three sharing one   *)
(* window buffer and the trailers.                                         *)
(*                                                                         *)
(* h3x's WndBuf and write_request are external: a bounded buffer that can  *)
(* be ended or cancelled, and a loop that sends what is buffered, then the *)
(* trailers.  The peer may stop reading for ever.  Bytes are counted.      *)
(***************************************************************************)
EXTENDS Naturals

CONSTANTS
    Window,                     \* capacity of the window
    MaxBytes, MaxTrailers       \* bounds

ASSUME RequestWriterAssumption ==
    /\ Window \in Nat \ {0}
    /\ MaxBytes \in Nat /\ MaxTrailers \in Nat

VARIABLES
    window,         \* "open", "eof" or "cancelled"
    buffered,       \* bytes in the window
    trailers,       \* trailers set so far
    task,           \* the upload task
    aborted,        \* the task has been told to stop
    closed,         \* RequestWriter::closed
    owned,          \* RequestWriter::upload is Some
    call,           \* what the application awaits on the writer
    dropped,        \* the writer is gone
    response,       \* the response future
    written, sent, sentTrailers,    \* history: bytes accepted; bytes, trailers sent
    ended           \* history: shutdown has been called

vars == <<window, buffered, trailers, task, aborted, closed, owned, call, dropped,
          response, written, sent, sentTrailers, ended>>

shared == <<window, buffered, trailers>>
writer == <<closed, owned, call, dropped, ended>>
counts == <<written, sent, sentTrailers>>

TypeOK ==
    /\ window \in {"open", "eof", "cancelled"}
    /\ buffered \in 0 .. Window
    /\ trailers \in 0 .. MaxTrailers
    /\ task \in {"sending", "finishing", "ok", "error", "aborted"}
    /\ aborted \in BOOLEAN /\ closed \in BOOLEAN /\ owned \in BOOLEAN
    /\ call \in {"none", "write", "shutdown", "join"}
    /\ dropped \in BOOLEAN /\ ended \in BOOLEAN
    /\ response \in {"reading", "done", "dropped"}
    /\ written \in 0 .. MaxBytes
    /\ sent \in 0 .. written
    /\ sentTrailers \in 0 .. MaxTrailers

\* send_request; the window may hold initial bytes and trailers may be preset.
Init ==
    /\ window = "open"
    /\ buffered \in 0 .. Window
    /\ trailers \in 0 .. MaxTrailers
    /\ written = buffered /\ written <= MaxBytes
    /\ task = "sending" /\ aborted = FALSE
    /\ closed = FALSE /\ owned = TRUE /\ call = "none" /\ dropped = FALSE
    /\ response = "reading"
    /\ sent = 0 /\ sentTrailers = 0
    /\ ended = FALSE

Finished == task \in {"ok", "error", "aborted"}

Using == ~dropped /\ call = "none"

-----------------------------------------------------------------------------
\* The application.

\* trailer and append_trailer; BrokenPipe otherwise.
SetTrailer ==
    /\ Using
    /\ ~closed /\ owned /\ ~Finished
    /\ trailers < MaxTrailers
    /\ trailers' = trailers + 1
    /\ UNCHANGED <<window, buffered, task, aborted, writer, response, counts>>

Write ==
    /\ Using
    /\ ~closed
    /\ written < MaxBytes
    /\ call' = "write"
    /\ UNCHANGED <<shared, task, aborted, closed, owned, dropped, response, counts, ended>>

\* poll_write: as much as fits, or an error once the window is cancelled or
\* the task that reads it is gone.
WriteAccepted ==
    /\ call = "write"
    /\ window = "open" /\ ~Finished
    /\ buffered < Window
    /\ \E n \in 1 .. MaxBytes - written :
          /\ buffered + n <= Window
          /\ buffered' = buffered + n
          /\ written' = written + n
    /\ call' = "none"
    /\ UNCHANGED <<window, trailers, task, aborted, closed, owned, dropped, response,
                   sent, sentTrailers, ended>>

WriteFails ==
    /\ call = "write"
    /\ window = "cancelled" \/ Finished
    /\ call' = "none"
    /\ UNCHANGED <<shared, task, aborted, closed, owned, dropped, response, counts, ended>>

\* poll_shutdown freezes the trailers, then ends the window.
Shutdown ==
    /\ Using
    /\ closed' = TRUE
    /\ ended' = TRUE
    /\ window' = IF window = "open" THEN "eof" ELSE window
    /\ call' = "shutdown"
    /\ UNCHANGED <<buffered, trailers, task, aborted, owned, dropped, response, counts>>

\* The window reports its shutdown; a cancelled one reports an error.
ShutdownWindowFails ==
    /\ call = "shutdown"
    /\ window = "cancelled" \/ task \in {"error", "aborted"}
    /\ call' = "none"
    /\ UNCHANGED <<shared, task, aborted, closed, owned, dropped, response, counts, ended>>

ShutdownWindowDone ==
    /\ call = "shutdown"
    /\ window # "cancelled"
    /\ call' = IF owned THEN "join" ELSE "none"
    /\ UNCHANGED <<shared, task, aborted, closed, owned, dropped, response, counts, ended>>

\* The task's result is the result of shutdown.
ShutdownJoins ==
    /\ call = "join"
    /\ Finished
    /\ owned' = FALSE
    /\ call' = "none"
    /\ UNCHANGED <<shared, task, aborted, closed, dropped, response, counts, ended>>

\* The application drops the future of the call it awaits.
DropCall ==
    /\ call # "none"
    /\ call' = "none"
    /\ UNCHANGED <<shared, task, aborted, closed, owned, dropped, response, counts, ended>>

\* Mutant: cancelling ends the window.
CancelUploadAsEof ==
    /\ closed' = TRUE
    /\ IF owned /\ ~Finished
       THEN /\ window' = IF window = "open" THEN "eof" ELSE window
            /\ aborted' = TRUE
       ELSE UNCHANGED <<window, aborted>>
    /\ UNCHANGED <<buffered, trailers, task, owned, call, response, counts, ended>>

\* CancelStream::cancel: the window is reset before the task is aborted.
CancelUpload ==
    /\ closed' = TRUE
    /\ IF owned /\ ~Finished
       THEN window' = "cancelled" /\ aborted' = TRUE
       ELSE UNCHANGED <<window, aborted>>
    /\ UNCHANGED <<buffered, trailers, task, owned, call, response, counts, ended>>

Cancel ==
    /\ Using
    /\ CancelUpload
    /\ UNCHANGED dropped

Drop ==
    /\ Using
    /\ dropped' = TRUE
    /\ CancelUpload

-----------------------------------------------------------------------------
\* The upload task, write_request.

TaskSends ==
    /\ task = "sending"
    /\ window # "cancelled"
    /\ buffered > 0
    /\ \E n \in 1 .. buffered : buffered' = buffered - n /\ sent' = sent + n
    /\ UNCHANGED <<window, trailers, task, aborted, writer, response, written, sentTrailers>>

\* The end of the body: trailers are read and the stream's end is written.
TaskReadsEnd ==
    /\ task = "sending"
    /\ window = "eof" /\ buffered = 0
    /\ task' = "finishing"
    /\ sentTrailers' = trailers
    /\ UNCHANGED <<shared, aborted, writer, response, written, sent>>

TaskFinishes ==
    /\ task = "finishing"
    /\ task' = "ok"
    /\ UNCHANGED <<shared, aborted, writer, response, counts>>

\* The peer resets the stream, the connection fails, or the window is cancelled.
TaskFails ==
    /\ task \in {"sending", "finishing"}
    /\ task' = "error"
    /\ UNCHANGED <<shared, aborted, writer, response, counts>>

TaskAborts ==
    /\ ~Finished
    /\ aborted
    /\ task' = "aborted"
    /\ UNCHANGED <<shared, aborted, writer, response, counts>>

-----------------------------------------------------------------------------
\* The response future.

ResponseArrives ==
    /\ response = "reading"
    /\ response' = "done"
    /\ UNCHANGED <<shared, task, aborted, writer, counts>>

ResponseFails ==
    /\ response = "reading"
    /\ response' = "done"
    /\ window' = "cancelled"
    /\ aborted' = TRUE
    /\ UNCHANGED <<buffered, trailers, task, writer, counts>>

\* Dropping it leaves the upload to the writer.
ResponseDropped ==
    /\ response = "reading"
    /\ response' = "dropped"
    /\ UNCHANGED <<shared, task, aborted, writer, counts>>

-----------------------------------------------------------------------------
Next ==
    \/ SetTrailer \/ Write \/ WriteAccepted \/ WriteFails
    \/ Shutdown \/ ShutdownWindowFails \/ ShutdownWindowDone \/ ShutdownJoins
    \/ DropCall \/ Cancel \/ Drop
    \/ TaskSends \/ TaskReadsEnd \/ TaskFinishes \/ TaskFails \/ TaskAborts
    \/ ResponseArrives \/ ResponseFails \/ ResponseDropped

Spec == Init /\ [][Next]_vars

-----------------------------------------------------------------------------
\* Properties.

\* The upload keeps the promise of BodyStream: the stream ends cleanly only when
\* the application asked for it, after every byte that was accepted and with the
\* trailers that were set ("freeze trailers before publishing EOF, including while
\* shutdown is pending"); a dropped or cancelled writer, or a failing response,
\* never passes for an end.
Promise == INSTANCE BodyStream WITH
    accepted <- [i \in 1 .. written |-> i],
    delivered <- [i \in 1 .. sent |-> i],
    ending <- ended,
    received <- IF task = "ok" THEN sentTrailers ELSE 0,
    outcome <- CASE ~Finished -> "open"
                 [] task = "ok" -> "eof"
                 [] OTHER -> "failed"

IsBodyStream == Promise!Spec

\* "Cancelling shutdown() cannot detach the task": once the writer is dropped
\* the upload ends, although the peer may never read again.
DropEndsUpload == dropped ~> Finished

\* A response failure or a cancellation releases every call on the writer,
\* whatever the peer does.
CancelledCallsReturn == window = "cancelled" ~> call = "none"

=============================================================================
