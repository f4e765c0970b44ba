---------------------------- MODULE LanguageServe ---------------------------
(***************************************************************************)
(* A listener of a language SDK: Endpoint.listen of api/js/index.js and of *)
(* api/python/dhttpy/endpoint.py, the native callbacks of api/src/napi.rs  *)
(* and python.rs, and Incoming::respond of binding.rs.                     *)
(*                                                                         *)
(* For every request the native handler schedules a callback on the event  *)
(* loop, waits until it has settled and then takes the response from a     *)
(* oneshot; the body of the response is written by a pump that goes on     *)
(* after the callback.  Closing the listener destroys native handlers      *)
(* wherever they are, while callbacks are queued or running.               *)
(***************************************************************************)
CONSTANTS
    Stream      \* requests that reach the listener

VARIABLES
    language,
    native,     \* the native handler and the body of its response
    callback,   \* the callback on the event loop
    body,       \* the BodyReader of the request
    pump,       \* the task "uploading" or "sending"
    listener,   \* progress of Listener.close
    scope,      \* the native listener's scope is cancelled
    awaited     \* requests whose tasks close waits for

vars == <<language, native, callback, body, pump, listener, scope, awaited>>

PumpLive == {"running", "trailers"}

TypeOK ==
    /\ language \in {"js", "python"}
    /\ native \in [Stream -> {"idle", "calling", "writing", "body", "done"}]
    /\ callback \in [Stream -> {"none", "queued", "handling", "ended"}]
    /\ body \in [Stream -> {"open", "cancelled"}]
    /\ pump \in [Stream -> {"none", "settled"} \cup PumpLive]
    /\ listener \in {"open", "native", "tasks", "closed"}
    /\ scope \in BOOLEAN
    /\ awaited \subseteq Stream

Init ==
    /\ language \in {"js", "python"}
    /\ native = [h \in Stream |-> "idle"]
    /\ callback = [h \in Stream |-> "none"]
    /\ body = [h \in Stream |-> "open"]
    /\ pump = [h \in Stream |-> "none"]
    /\ listener = "open"
    /\ scope = FALSE
    /\ awaited = {}

-----------------------------------------------------------------------------
\* The native handler.

Invoke(h) ==
    /\ native[h] = "idle" /\ ~scope
    /\ native' = [native EXCEPT ![h] = "calling"]
    /\ callback' = [callback EXCEPT ![h] = "queued"]
    /\ UNCHANGED <<language, body, pump, listener, scope, awaited>>

\* The callback has settled: its response is served, or an empty one with status
\* 500 if it failed or did not respond.
NativeResumes(h) ==
    /\ native[h] = "calling" /\ callback[h] = "ended"
    /\ native' = [native EXCEPT ![h] = "writing"]
    /\ UNCHANGED <<language, callback, body, pump, listener, scope, awaited>>

\* The head or a frame was written; the next frame is taken unless the scope was
\* cancelled (OwnedBody, see SdkLifecycle).
NativeWrites(h) ==
    /\ \/ /\ native[h] = "writing"
          /\ native' = [native EXCEPT ![h] = "body"]
       \/ /\ native[h] = "body" /\ ~scope
          /\ native' = [native EXCEPT ![h] = "writing"]
    /\ UNCHANGED <<language, callback, body, pump, listener, scope, awaited>>

\* The response was served or failed; or the handler's future is dropped with the
\* receiver of the oneshot, and a response in it with its body.
NativeEnds(h) ==
    /\ native[h] \in {"calling", "writing", "body"}
    /\ native' = [native EXCEPT ![h] = "done"]
    /\ UNCHANGED <<language, callback, body, pump, listener, scope, awaited>>

\* The request body fails, or the scope cancels its worker: incoming.closed()
\* resolves.
BodyCancelled(h) ==
    /\ native[h] # "idle" /\ body[h] = "open"
    /\ body' = [body EXCEPT ![h] = "cancelled"]
    /\ UNCHANGED <<language, native, callback, pump, listener, scope, awaited>>

-----------------------------------------------------------------------------
\* The callback.

CallbackStarts(h) ==
    /\ callback[h] = "queued"
    /\ callback' = [callback EXCEPT ![h] = "handling"]
    /\ UNCHANGED <<language, native, body, pump, listener, scope, awaited>>

\* The handler returns a response: respond fails when the native handler has gone;
\* otherwise the pump is started and registered before the loop does anything else.
Respond(h) ==
    /\ callback[h] = "handling"
    /\ callback' = [callback EXCEPT ![h] = "ended"]
    /\ IF native[h] = "calling"
       THEN /\ pump' = [pump EXCEPT ![h] = "running"]
            /\ UNCHANGED body
       ELSE /\ body' = [body EXCEPT ![h] = "cancelled"]
            /\ UNCHANGED pump
    /\ UNCHANGED <<language, native, listener, scope, awaited>>

\* The handler raises or returns something else; incoming.cancel(), in Python when
\* the request is dropped.
HandlerRaises(h) ==
    /\ callback[h] = "handling"
    /\ callback' = [callback EXCEPT ![h] = "ended"]
    /\ body' = [body EXCEPT ![h] = "cancelled"]
    /\ UNCHANGED <<language, native, pump, listener, scope, awaited>>

\* JavaScript does not wait for the handler once incoming.closed() has resolved;
\* Python cancels the tasks that close waits for.
HandlerStops(h) ==
    /\ callback[h] = "handling"
    /\ \/ language = "js" /\ body[h] = "cancelled"
       \/ language = "python" /\ listener = "tasks" /\ h \in awaited
    /\ callback' = [callback EXCEPT ![h] = "ended"]
    /\ body' = [body EXCEPT ![h] = "cancelled"]
    /\ UNCHANGED <<language, native, pump, listener, scope, awaited>>

\* JavaScript waits for the application's trailers, and for nothing else meanwhile.
AwaitTrailers(h) ==
    /\ language = "js" /\ pump[h] = "running"
    /\ pump' = [pump EXCEPT ![h] = "trailers"]
    /\ UNCHANGED <<language, native, callback, body, listener, scope, awaited>>

\* The pump settles, unless it waits for trailers always once its body was released;
\* then incoming.cancel(), except for a Python task cancelled before its first step.
PumpEnds(h) ==
    /\ pump[h] \in PumpLive
    /\ pump' = [pump EXCEPT ![h] = "settled"]
    /\ \/ body' = [body EXCEPT ![h] = "cancelled"]
       \/ language = "python" /\ listener = "tasks" /\ h \in awaited /\ UNCHANGED body
    /\ UNCHANGED <<language, native, callback, listener, scope, awaited>>

-----------------------------------------------------------------------------
\* Listener.close

Close ==
    /\ listener = "open"
    /\ listener' = "native"
    /\ UNCHANGED <<language, native, callback, body, pump, scope, awaited>>

\* Listener::close of the native listener: see SdkLifecycle.
NativeCloses ==
    /\ listener = "native" /\ ~scope
    /\ scope' = TRUE
    /\ UNCHANGED <<language, native, callback, body, pump, listener, awaited>>

Tasks ==
    {h \in Stream : pump[h] \in PumpLive \/ (language = "python" /\ callback[h] = "handling")}

\* The native close returns when no handler and no response body is left.
NativeCloseReturns ==
    /\ listener = "native" /\ scope
    /\ \A h \in Stream : native[h] \in {"idle", "done"}
    /\ listener' = "tasks"
    /\ awaited' = Tasks
    /\ UNCHANGED <<language, native, callback, body, pump, scope>>

CloseReturns ==
    /\ listener = "tasks"
    /\ awaited \cap Tasks = {}
    /\ listener' = "closed"
    /\ UNCHANGED <<language, native, callback, body, pump, scope, awaited>>

LoopStep(h) == CallbackStarts(h) \/ HandlerStops(h)

Next ==
    \/ \E h \in Stream :
         \/ Invoke(h) \/ NativeResumes(h) \/ NativeWrites(h) \/ NativeEnds(h)
         \/ BodyCancelled(h) \/ LoopStep(h) \/ Respond(h) \/ HandlerRaises(h)
         \/ AwaitTrailers(h) \/ PumpEnds(h)
    \/ Close \/ NativeCloses \/ NativeCloseReturns \/ CloseReturns

Spec == Init /\ [][Next]_vars

-----------------------------------------------------------------------------
\* Properties.

\* When Listener.close() has returned nothing of the listener is at work: no native
\* handler and no pump, not even one of a callback that was queued or running when
\* the listener closed and whose handler returns a response only now.
ListenerIsQuiet ==
    listener = "closed" => \A h \in Stream : native[h] \in {"idle", "done"} /\ pump[h] \notin PumpLive

\* What close() waits for without a remedy: a peer that reads no more of a cancelled
\* response, and trailers of the application that never settle (index.js pump).
Stalled(h) == (native[h] = "writing" /\ scope) \/ pump[h] = "trailers"

\* Listener.close() returns unless one of these stalls it for ever; that a handler
\* never settles does not in JavaScript.
ListenerCloses ==
    (\A h \in Stream : []<>~Stalled(h)) => (listener # "open" ~> listener = "closed")

=============================================================================
