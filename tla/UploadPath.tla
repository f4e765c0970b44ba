----------------------------- MODULE UploadPath -----------------------------
(***************************************************************************)
(* The way of a request body through the SDK: UploadBridge and             *)
(* RequestWriter composed by the pumping half of exchange                  *)
(* (api/src/client.rs).  It takes frames from UploadBody, writes all bytes *)
(* of each to the window, appends the trailers and shuts the writer down.  *)
(* When anything in the exchange fails, or it is cancelled, the pumping    *)
(* future is dropped, and with it the body and the writer.                 *)
(***************************************************************************)
EXTENDS RequestWriter, Sequences

CONSTANTS
    ChunkBytes,                     \* bytes of a chunk
    \* UploadBridge
    Writer, QueuedChunks, MaxSends, NoWriter

ASSUME UploadPathAssumption ==
    /\ ChunkBytes \in Nat \ {0}
    /\ QueuedChunks \in Nat \ {0}
    /\ MaxSends \in Nat
    /\ Writer # {} /\ NoWriter \notin Writer

\* RequestWriter's bound on the bytes bounds the chunks as well.
MaxChunks == MaxBytes \div ChunkBytes

VARIABLES
    pump,       \* what the pumping future awaits
    rest,       \* bytes of its frame that are not written yet
    fields,     \* trailers that finish() is given
    \* UploadBridge; "sending" is its call
    queue, sender, gone, mutex, pc, sending, sends, total, pushed, result,
    error, cancelled, open, outcome, delivered, finished, accepted

uploadVars == <<queue, sender, gone, mutex, pc, sending, sends, total, pushed, result,
                error, cancelled, open, outcome, delivered, finished, accepted>>
pathVars == <<vars, uploadVars, pump, rest, fields>>

\* Drops that race with other calls are a question to UploadBridge alone.
Upload == INSTANCE UploadBridge WITH call <- sending, DropsRace <- FALSE

PathTypeOK ==
    /\ TypeOK /\ Upload!TypeOK
    /\ pump \in {"frame", "write", "trailers", "shutdown", "dropping", "gone"}
    /\ rest \in 0 .. ChunkBytes
    /\ fields \in 0 .. MaxTrailers

\* The window starts empty and without trailers (WndBuf::new).
PathInit ==
    /\ Init /\ Upload!Init
    /\ buffered = 0 /\ trailers = 0
    /\ pump = "frame" /\ rest = 0
    /\ fields \in 0 .. MaxTrailers

-----------------------------------------------------------------------------
\* body.frame().await

PumpTakesData ==
    /\ pump = "frame"
    /\ Upload!PollData
    /\ pump' = "write"
    /\ rest' = ChunkBytes
    /\ UNCHANGED <<vars, fields>>

PumpTakesFinish ==
    /\ pump = "frame"
    /\ Upload!PollFinish
    /\ pump' = "trailers"
    /\ UNCHANGED <<vars, rest, fields>>

\* Mutant: an error of the body is taken for its end.
PumpTakesErrorAsEnd ==
    /\ pump = "frame"
    /\ Upload!PollCancelled \/ Upload!PollOrphaned
    /\ pump' = "trailers"
    /\ UNCHANGED <<vars, rest, fields>>

PumpTakesError ==
    /\ pump = "frame"
    /\ Upload!PollCancelled \/ Upload!PollOrphaned
    /\ pump' = "dropping"
    /\ UNCHANGED <<vars, rest, fields>>

\* write_all: one poll_write after another.
PumpWrites ==
    /\ pump = "write"
    /\ Write
    /\ UNCHANGED <<uploadVars, pump, rest, fields>>

PumpWritten ==
    /\ pump = "write"
    /\ WriteAccepted
    /\ written' - written <= rest
    /\ rest' = rest - (written' - written)
    /\ pump' = IF rest' = 0 THEN "frame" ELSE "write"
    /\ UNCHANGED <<uploadVars, fields>>

\* BrokenPipe: the window was cancelled, or the task that reads it is gone.
PumpWriteFails ==
    /\ pump = "write"
    /\ WriteFails \/ (closed /\ UNCHANGED vars)
    /\ pump' = "dropping"
    /\ UNCHANGED <<uploadVars, rest, fields>>

PumpAppendsTrailer ==
    /\ pump = "trailers"
    /\ trailers < fields
    /\ SetTrailer
    /\ UNCHANGED <<uploadVars, pump, rest, fields>>

PumpTrailerFails ==
    /\ pump = "trailers"
    /\ trailers < fields
    /\ closed \/ ~owned \/ Finished
    /\ pump' = "dropping"
    /\ UNCHANGED <<vars, uploadVars, rest, fields>>

PumpShutsDown ==
    /\ pump = "trailers"
    /\ trailers = fields
    /\ Shutdown
    /\ pump' = "shutdown"
    /\ UNCHANGED <<uploadVars, rest, fields>>

PumpAwaitsShutdown ==
    /\ pump = "shutdown"
    /\ ShutdownWindowFails \/ ShutdownWindowDone \/ ShutdownJoins
    /\ pump' = IF call' = "none" THEN "dropping" ELSE pump
    /\ UNCHANGED <<uploadVars, rest, fields>>

\* The exchange is cancelled, expires, or its receiving half fails.
ExchangeEnds ==
    /\ pump \notin {"dropping", "gone"}
    /\ pump' = "dropping"
    /\ UNCHANGED <<vars, uploadVars, rest, fields>>

\* Dropping the pumping future: the call it awaits, then body and writer.
PumpDropsCall ==
    /\ pump = "dropping"
    /\ DropCall
    /\ UNCHANGED <<uploadVars, pump, rest, fields>>

PumpDrops ==
    /\ pump = "dropping"
    /\ Drop
    /\ IF outcome \in {"run", "error"} THEN Upload!DropBody ELSE UNCHANGED uploadVars
    /\ pump' = "gone"
    /\ UNCHANGED <<rest, fields>>

-----------------------------------------------------------------------------
PumpStep ==
    \/ PumpTakesData \/ PumpTakesFinish \/ PumpTakesError
    \/ PumpWrites \/ PumpWritten \/ PumpWriteFails
    \/ PumpAppendsTrailer \/ PumpTrailerFails \/ PumpShutsDown \/ PumpAwaitsShutdown
    \/ ExchangeEnds \/ PumpDropsCall \/ PumpDrops

\* Language producers, and the upload task with the failing response future; one
\* that succeeds or is dropped leaves the upload alone.
ProducerStep ==
    /\ \/ \E w \in Writer :
            \/ Upload!CallStep(w) \/ Upload!DropCall(w) \/ Upload!StartFinish(w)
            \/ \E n \in 0 .. MaxChunks - Len(accepted) : Upload!StartSend(w, n)
       \/ Upload!ProducerFails \/ Upload!DropWriter
    /\ UNCHANGED <<vars, pump, rest, fields>>

StreamStep ==
    /\ \/ TaskSends \/ TaskReadsEnd \/ TaskFinishes
       \/ TaskFails \/ TaskAborts \/ ResponseFails
    /\ UNCHANGED <<uploadVars, pump, rest, fields>>

PathNext == PumpStep \/ ProducerStep \/ StreamStep

PathSpec == PathInit /\ [][PathNext]_pathVars

-----------------------------------------------------------------------------
\* Properties.

Byte(chunks, k) == <<chunks[1 + (k - 1) \div ChunkBytes], (k - 1) % ChunkBytes>>

\* From the producer to the stream the promise of BodyStream holds as well: the
\* bytes of the sends, in order and none twice, and a clean end of the stream
\* only after finish(), with all bytes and the trailers finish() was given, in
\* spite of partial writes and of failures and drops on either side (client.rs
\* exchange, the loop of "pumping").
PathPromise == INSTANCE BodyStream WITH
    accepted <- [k \in 1 .. ChunkBytes * Len(accepted) |-> Byte(accepted, k)],
    delivered <- [k \in 1 .. sent |-> Byte(delivered, k)],
    trailers <- fields,
    ending <- finished,
    received <- IF task = "ok" THEN sentTrailers ELSE 0,
    outcome <- CASE ~Finished -> "open"
                 [] task = "ok" -> "eof"
                 [] OTHER -> "failed"

PathIsBodyStream == PathPromise!Spec

=============================================================================
