---------------------------- MODULE LanguagePump ----------------------------
(***************************************************************************)
(* The producers above UploadBridge: _pump of the Python SDK               *)
(* (api/python/dhttpy/endpoint.py) and pump of the JavaScript SDK          *)
(* (api/js/index.js), which read a body of the application, write its      *)
(* chunks and finish the upload.                                           *)
(*                                                                         *)
(* A native call is a task of the Rust runtime; the event loop hears of    *)
(* its result some time after it has ended, and in any order with respect  *)
(* to others.  Both pumps also call writer.closed(), to be told when the   *)
(* native consumer has released the body.  In Python the body is written   *)
(* by a task of its own that _pump cancels; cancelling it destroys the     *)
(* native call it awaits.  _pump is a task as well, and one that is        *)
(* cancelled before its first step never enters its body.                  *)
(***************************************************************************)
EXTENDS UploadBridge

CONSTANTS
    Pump        \* the pump's place among the producers of UploadBridge

ASSUME PumpAssumption == Pump \in Writer

VARIABLES
    language,   \* "python" or "js", or "rust": no pump takes part
    step,       \* what the writing part awaits
    notice,     \* the native closed() call
    noticed,    \* the event loop has its result
    outer       \* Python: the part of _pump that waits for both

pumpVars == <<language, step, notice, noticed, outer>>

Settled == {"ended", "failed"}

PumpTypeOK ==
    /\ TypeOK
    /\ language \in {"python", "js", "rust"}
    /\ step \in {"read", "write", "trailers", "finish", "unstarted"} \cup Settled
    /\ notice \in {"none", "lock", "await", "returned"}
    /\ noticed \in BOOLEAN
    /\ outer \in {"new", "wait", "cancel", "done"}

\* Without a body the pump begins with the trailers.  An async function of
\* JavaScript runs at once; a Python task has been created, but has not begun.
PumpInit ==
    /\ Init
    /\ step \in {"read", "trailers"} /\ noticed = FALSE
    /\ \/ language = "js" /\ outer = "wait" /\ notice = "lock"
       \/ language = "python" /\ outer = "new" /\ notice = "none"

\* A Python task that was cancelled does nothing but end.
Running == outer = "wait"

-----------------------------------------------------------------------------
\* The writing part.

\* The exception handler: writer.fail, then the exception goes on.
Raise ==
    /\ Fail("producer")
    /\ step' = "failed"

ChunkRead(n) ==
    /\ Running /\ step = "read"
    /\ StartSend(Pump, n)
    /\ step' = "write"
    /\ UNCHANGED <<language, notice, noticed, outer>>

BodyEnds ==
    /\ Running /\ step = "read"
    /\ step' = "trailers"
    /\ UNCHANGED <<vars, language, notice, noticed, outer>>

TrailersReady ==
    /\ Running /\ step = "trailers"
    /\ StartFinish(Pump)
    /\ step' = "finish"
    /\ UNCHANGED <<language, notice, noticed, outer>>

\* The body or the trailers of the application raise.
ApplicationRaises ==
    /\ Running /\ step \in {"read", "trailers"}
    /\ Raise
    /\ UNCHANGED <<queue, writers, body, language, notice, noticed, outer>>

\* The loop resumes the coroutine that awaits write or finish.
CallReturns ==
    /\ Running /\ step \in {"write", "finish"}
    /\ pc[Pump] = "idle"
    /\ \/ /\ step = "write" /\ result[sends] = "ok"
          /\ step' = "read"
          /\ UNCHANGED state
       \/ /\ step = "finish" /\ finished
          /\ step' = "ended"
          /\ UNCHANGED state
       \/ /\ IF step = "write" THEN result[sends] # "ok" ELSE ~finished
          /\ Raise
    /\ UNCHANGED <<queue, writers, body, language, notice, noticed, outer>>

\* JavaScript races closed() with the read only.
ReadStops ==
    /\ language = "js"
    /\ step = "read" /\ noticed
    /\ Raise
    /\ UNCHANGED <<queue, writers, body, language, notice, noticed, outer>>

-----------------------------------------------------------------------------
\* UploadWriter::closed

\* It clones the sender, if finish has not taken it, and waits without the mutex.
ClosedLocks ==
    /\ notice = "lock"
    /\ mutex = NoWriter
    /\ notice' = IF sender THEN "await" ELSE "returned"
    /\ UNCHANGED <<vars, language, step, noticed, outer>>

ClosedReturns ==
    /\ notice = "await"
    /\ ~open
    /\ notice' = "returned"
    /\ UNCHANGED <<vars, language, step, noticed, outer>>

LoopNotices ==
    /\ notice = "returned" /\ ~noticed
    /\ noticed' = TRUE
    /\ UNCHANGED <<vars, language, step, notice, outer>>

-----------------------------------------------------------------------------
\* The outer part of the Python pump.

\* Mutant: the pump waits for its task only.
WaitsForTask ==
    /\ language = "python" /\ outer = "wait"
    /\ step \in Settled
    /\ outer' = "done"
    /\ UNCHANGED <<vars, language, step, notice, noticed>>

\* The first step of _pump: the writing task is created and closed() called.  The
\* loop starts that task before it can resume _pump, so it is past its first step
\* when _pump cancels it.
PumpStarts ==
    /\ outer = "new"
    /\ outer' = "wait" /\ notice' = "lock"
    /\ UNCHANGED <<vars, language, step, noticed>>

\* Mutant: the coroutine that never began leaves a call of closed() behind.
UnstartedKeepsWriter ==
    /\ outer = "new"
    /\ outer' = "done" /\ step' = "unstarted" /\ notice' = "lock"
    /\ UNCHANGED <<vars, language, noticed>>

\* The task of _pump is cancelled before its first step: nothing of it runs, and
\* neither finish nor fail is called.
UnstartedCancelled ==
    /\ outer = "new"
    /\ outer' = "done" /\ step' = "unstarted"
    /\ UNCHANGED <<vars, language, notice, noticed>>

\* Its arguments go with its frame.  A handler's writer is dropped with them; the
\* exchange of a request has been cancelled by then, or is with the response, and
\* drops the body.
WriterReleased ==
    /\ outer = "done" /\ step = "unstarted" /\ notice = "none"
    /\ DropWriter \/ DropBody
    /\ UNCHANGED pumpVars

\* asyncio.wait returns; a task that is not done by then is cancelled.
WaitReturns ==
    /\ language = "python" /\ outer = "wait"
    /\ noticed \/ step \in Settled
    /\ outer' = IF step \in Settled THEN "done" ELSE "cancel"
    /\ UNCHANGED <<vars, language, step, notice, noticed>>

\* release() or close() cancels the pump itself.
PumpCancelled ==
    /\ language = "python" /\ outer = "wait"
    /\ outer' = IF step \in Settled THEN "done" ELSE "cancel"
    /\ UNCHANGED <<vars, language, step, notice, noticed>>

\* Mutant: the handler does not see the cancellation ("except Exception").
TaskCancelledSilently ==
    /\ outer = "cancel"
    /\ step' = "failed"
    /\ outer' = "done"
    /\ UNCHANGED <<vars, language, notice, noticed>>

\* CancelledError reaches the task, which has begun, inside its try block, even if
\* its call has returned meanwhile.
TaskCancelled ==
    /\ outer = "cancel"
    /\ Raise
    /\ outer' = "done"
    /\ UNCHANGED <<queue, writers, body, language, notice, noticed>>

\* The native call it awaited is destroyed.
CallDestroyed ==
    /\ outer = "done"
    /\ DropCall(Pump)
    /\ UNCHANGED pumpVars

-----------------------------------------------------------------------------
LoopStep ==
    PumpStarts \/ CallReturns \/ ReadStops \/ LoopNotices \/ WaitReturns \/ TaskCancelled

NoticeStep == ClosedLocks \/ ClosedReturns

PumpNext ==
    \/ LoopStep \/ NoticeStep
    \/ BodyEnds \/ TrailersReady \/ ApplicationRaises
    \/ \E n \in 0 .. MaxChunks : ChunkRead(n)
    \/ PumpCancelled \/ CallDestroyed \/ UnstartedCancelled \/ WriterReleased
    \/ (CallStep(Pump) \/ Poll \/ DropBody) /\ UNCHANGED pumpVars

PumpSpec == PumpInit /\ [][PumpNext]_<<vars, pumpVars>>

-----------------------------------------------------------------------------
\* Properties.

PumpEnded ==
    CASE language = "python" -> outer = "done"
      [] language = "js" -> step \in Settled
      [] language = "rust" -> FALSE

\* The pump has left nothing behind that keeps the writer alive.
HoldsNothing == notice = "none" /\ pc[Pump] = "idle"

\* A pump that has ended has settled the upload: the end was queued or the upload
\* has failed.  closed() keeps the writer alive, so the consumer would not hear of a
\* producer that went away without a word and would wait for ever.  The one pump
\* that may go without a word is a Python task cancelled before its first step
\* (endpoint.py:139), and only because it holds nothing of the writer.
PumpSettles ==
    PumpEnded => finished \/ cancelled \/ (step = "unstarted" /\ HoldsNothing)

\* The consumer hears of every pump that has ended: it has been told, or its next
\* poll finds the end, the failure, or no sender.
EndedPumpIsHeard ==
    PumpEnded ~> finished \/ cancelled \/ gone \/ outcome # "run"

\* The JavaScript pump waits for the application's trailers without a look at
\* closed(); Python cancels the task that waits for them.
AwaitsTrailers == language = "js" /\ step = "trailers"

\* Once the consumer has released the body the pump ends, although the body of
\* the application may have stalled (the reason for closed()); trailers that the
\* application owes keep a JavaScript pump for as long as it owes them.
ReleasedPumpEnds == ~open /\ language # "rust" ~> PumpEnded \/ AwaitsTrailers

=============================================================================
