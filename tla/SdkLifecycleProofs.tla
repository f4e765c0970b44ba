------------------------- MODULE SdkLifecycleProofs -------------------------
(***************************************************************************)
(* SdkLifecycle for every number of requests, listeners, handlers and      *)
(* callers: what Client::close and Listener::close promise when they       *)
(* return.                                                                 *)
(***************************************************************************)
EXTENDS SdkLifecycle, TLAPS

Served == TaskLive \cup {"finished"}

\* A caller that has come past the flag finds the client's scope closed, and one
\* that has returned left it empty.
ClientInv ==
    /\ \A c \in Caller : caller[c] \in {"closing", "joining", "closed"} => closed
    /\ \A c \in Caller : caller[c] = "closed" => ClientTokens = {}

\* The listener task has closed its scope exactly when it is past that step.
ScopeInv ==
    \A l \in Listener :
        /\ registered = l => listener[l] = "up"
        /\ scopeClosed[l] <=> listener[l] \in {"closing", "joining", "finished"}
        /\ scopeCancelled[l] => scopeClosed[l]

\* Streams are handled by listeners that were started, and a listener task that
\* has ended left no token behind.
HandlerInv ==
    /\ \A h \in Handler :
         handler[h] \in {"routed", "ready"} \cup HandlerLive \/ reading[h] =>
             service[h] \in Listener /\ listener[service[h]] \in Served
    /\ \A h \in Handler : handler[h] = "idle" => ~reading[h]
    /\ \A l \in Listener : listener[l] = "finished" => ListenerTokens(l) = {}

\* Who has the JoinHandle.
HandleInv ==
    /\ \A l \in Listener :
         /\ listener[l] \in Served => handle[l] # "none"
         /\ handle[l] = "joined" => listener[l] = "finished"
         /\ handle[l] = "taken" =>
              \E c \in Caller : caller[c] = "shutjoin" /\ target[c] = l
    /\ \A c \in Caller :
         /\ caller[c] \in {"shutlock", "shutjoin", "shut"} =>
              target[c] \in Listener /\ listener[target[c]] \in Served
         /\ caller[c] = "shutlock" => handle[target[c]] # "dropped"
         /\ caller[c] = "shutjoin" => handle[target[c]] = "taken"
         /\ caller[c] = "shut" => handle[target[c]] \in {"joined", "lost"}
    /\ \A c, d \in Caller :
         (caller[c] = "shutjoin" /\ caller[d] = "shutjoin" /\ target[c] = target[d]) => c = d

IndInv == TypeOK /\ ClientInv /\ ScopeInv /\ HandlerInv /\ HandleInv

-----------------------------------------------------------------------------

\* Every step keeps the types.
LEMMA TypeStep == IndInv /\ [Next]_vars => TypeOK'
<1> SUFFICES ASSUME IndInv, [Next]_vars PROVE TypeOK'
  OBVIOUS
<1> USE LifecycleAssumption DEF IndInv, TypeOK, RequestLive, TaskLive, ListenerLive,
      HandlerLive, Pending
<1>1. CASE \E q \in Request : RequestCall(q)
  BY <1>1 DEF RequestCall, scopes, serving
<1>2. CASE \E q \in Request : RequestStart(q)
  BY <1>2 DEF RequestStart, scopes, serving
<1>3. CASE \E q \in Request : RequestEnds(q)
  BY <1>3 DEF RequestEnds, scopes, serving
<1>4. CASE \E l \in Listener : ListenCall(l)
  BY <1>4 DEF ListenCall, scopes, serving
<1>5. CASE \E l \in Listener : ListenSucceeds(l)
  BY <1>5 DEF ListenSucceeds, scopes, serving
<1>6. CASE \E l \in Listener : ListenFails(l)
  BY <1>6 DEF ListenFails, scopes, serving
<1>7. CASE \E l \in Listener : DropListener(l)
  BY <1>7 DEF DropListener, scopes, serving
<1>8. CASE \E l \in Listener : TaskUnregisters(l)
  BY <1>8 DEF TaskUnregisters, scopes, serving
<1>9. CASE \E l \in Listener : TaskClosesScope(l)
  BY <1>9 DEF TaskClosesScope, scopes, serving
<1>10. CASE \E l \in Listener : TaskCancelsScope(l)
  BY <1>10 DEF TaskCancelsScope, scopes, serving
<1>11. CASE \E l \in Listener : TaskEnds(l)
  BY <1>11 DEF TaskEnds, scopes, serving
<1>12. CASE \E h \in Handler : Route(h)
  BY <1>12 DEF Route, scopes, serving
<1>13. CASE \E h \in Handler : PollReady(h)
  BY <1>13 DEF PollReady, Admit, scopes, serving
<1>14. CASE \E h \in Handler : RegisterOperation(h)
  BY <1>14 DEF RegisterOperation, Admit, scopes, serving
<1>15. CASE \E h \in Handler : RegisterReading(h)
  BY <1>15 DEF RegisterReading, Admit, scopes, serving
<1>16. CASE \E h \in Handler : HandlerReturns(h) \/ FrameWritten(h) \/ FrameTaken(h)
  BY <1>16 DEF HandlerReturns, FrameWritten, FrameTaken, scopes, serving
<1>17. CASE \E h \in Handler : HandlerEnds(h)
  BY <1>17 DEF HandlerEnds, scopes, serving
<1>18. CASE \E h \in Handler : ReadingEnds(h)
  BY <1>18 DEF ReadingEnds, scopes, serving
<1>19. CASE \E c \in Caller : CloseCall(c)
  BY <1>19 DEF CloseCall, scopes, serving
<1>20. CASE \E c \in Caller : CloseMarks(c)
  BY <1>20 DEF CloseMarks, scopes, serving
<1>21. CASE \E c \in Caller : CloseCancels(c)
  BY <1>21 DEF CloseCancels, scopes, serving
<1>22. CASE \E c \in Caller : CloseReturns(c)
  BY <1>22 DEF CloseReturns, scopes, serving
<1>23. CASE \E c \in Caller : ReloadCall(c)
  BY <1>23 DEF ReloadCall, scopes, serving
<1>24. CASE \E c \in Caller : ReloadEnds(c)
  BY <1>24 DEF ReloadEnds, scopes, serving
<1>25. CASE \E c \in Caller : ShutLocks(c)
  BY <1>25 DEF ShutLocks, scopes, serving
<1>26. CASE \E c \in Caller : ShutReturns(c)
  BY <1>26 DEF ShutReturns, HandleInv, scopes, serving
<1>27. CASE \E c \in Caller : DropCall(c)
  BY <1>27 DEF DropCall, HandleInv, scopes, serving
<1>28. CASE \E c \in Caller, l \in Listener : ShutCall(c, l)
  BY <1>28 DEF ShutCall, scopes, serving
<1>29. CASE DropClient
  BY <1>29 DEF DropClient, scopes, serving
<1>30. CASE UNCHANGED vars
  BY <1>30 DEF vars, scopes, serving
<1> QED
  BY <1>1, <1>2, <1>3, <1>4, <1>5, <1>6, <1>7, <1>8, <1>9, <1>10, <1>11, <1>12, <1>13,
       <1>14, <1>15, <1>16, <1>17, <1>18, <1>19, <1>20, <1>21, <1>22, <1>23, <1>24,
       <1>25, <1>26, <1>27, <1>28, <1>29, <1>30
     DEF Next, Task, Admission, CallerStep

\* Nothing registers in a closed client scope.
LEMMA ClientStep == IndInv /\ [Next]_vars => ClientInv'
<1> SUFFICES ASSUME IndInv, [Next]_vars PROVE ClientInv'
  OBVIOUS
<1> USE LifecycleAssumption DEF IndInv, TypeOK, RequestLive, TaskLive, ListenerLive,
      HandlerLive, Pending, ClientInv, ClientTokens
<1>1. CASE \E q \in Request : RequestCall(q)
  BY <1>1 DEF RequestCall, scopes, serving
<1>2. CASE \E q \in Request : RequestStart(q)
  BY <1>2 DEF RequestStart, scopes, serving
<1>3. CASE \E q \in Request : RequestEnds(q)
  BY <1>3 DEF RequestEnds, scopes, serving
<1>4. CASE \E l \in Listener : ListenCall(l)
  BY <1>4 DEF ListenCall, scopes, serving
<1>5. CASE \E l \in Listener : ListenSucceeds(l)
  BY <1>5 DEF ListenSucceeds, scopes, serving
<1>6. CASE \E l \in Listener : ListenFails(l)
  BY <1>6 DEF ListenFails, scopes, serving
<1>7. CASE \E l \in Listener : DropListener(l)
  BY <1>7 DEF DropListener, scopes, serving
<1>8. CASE \E l \in Listener : TaskUnregisters(l)
  BY <1>8 DEF TaskUnregisters, scopes, serving
<1>9. CASE \E l \in Listener : TaskClosesScope(l)
  BY <1>9 DEF TaskClosesScope, scopes, serving
<1>10. CASE \E l \in Listener : TaskCancelsScope(l)
  BY <1>10 DEF TaskCancelsScope, scopes, serving
<1>11. CASE \E l \in Listener : TaskEnds(l)
  BY <1>11 DEF TaskEnds, scopes, serving
<1>12. CASE \E h \in Handler : Route(h)
  BY <1>12 DEF Route, scopes, serving
<1>13. CASE \E h \in Handler : PollReady(h)
  BY <1>13 DEF PollReady, Admit, scopes, serving
<1>14. CASE \E h \in Handler : RegisterOperation(h)
  BY <1>14 DEF RegisterOperation, Admit, scopes, serving
<1>15. CASE \E h \in Handler : RegisterReading(h)
  BY <1>15 DEF RegisterReading, Admit, scopes, serving
<1>16. CASE \E h \in Handler : HandlerReturns(h) \/ FrameWritten(h) \/ FrameTaken(h)
  BY <1>16 DEF HandlerReturns, FrameWritten, FrameTaken, scopes, serving
<1>17. CASE \E h \in Handler : HandlerEnds(h)
  BY <1>17 DEF HandlerEnds, scopes, serving
<1>18. CASE \E h \in Handler : ReadingEnds(h)
  BY <1>18 DEF ReadingEnds, scopes, serving
<1>19. CASE \E c \in Caller : CloseCall(c)
  BY <1>19 DEF CloseCall, scopes, serving
<1>20. CASE \E c \in Caller : CloseMarks(c)
  BY <1>20 DEF CloseMarks, scopes, serving
<1>21. CASE \E c \in Caller : CloseCancels(c)
  BY <1>21 DEF CloseCancels, scopes, serving
<1>22. CASE \E c \in Caller : CloseReturns(c)
  BY <1>22 DEF CloseReturns, scopes, serving
<1>23. CASE \E c \in Caller : ReloadCall(c)
  BY <1>23 DEF ReloadCall, scopes, serving
<1>24. CASE \E c \in Caller : ReloadEnds(c)
  BY <1>24 DEF ReloadEnds, scopes, serving
<1>25. CASE \E c \in Caller : ShutLocks(c)
  BY <1>25 DEF ShutLocks, scopes, serving
<1>26. CASE \E c \in Caller : ShutReturns(c)
  BY <1>26 DEF ShutReturns, scopes, serving
<1>27. CASE \E c \in Caller : DropCall(c)
  BY <1>27 DEF DropCall, scopes, serving
<1>28. CASE \E c \in Caller, l \in Listener : ShutCall(c, l)
  BY <1>28 DEF ShutCall, scopes, serving
<1>29. CASE DropClient
  BY <1>29 DEF DropClient, scopes, serving
<1>30. CASE UNCHANGED vars
  BY <1>30 DEF vars, scopes, serving
<1> QED
  BY <1>1, <1>2, <1>3, <1>4, <1>5, <1>6, <1>7, <1>8, <1>9, <1>10, <1>11, <1>12, <1>13,
       <1>14, <1>15, <1>16, <1>17, <1>18, <1>19, <1>20, <1>21, <1>22, <1>23, <1>24,
       <1>25, <1>26, <1>27, <1>28, <1>29, <1>30
     DEF Next, Task, Admission, CallerStep

\* The scope of a listener follows its task.
LEMMA ScopeStep == IndInv /\ [Next]_vars => ScopeInv'
<1> SUFFICES ASSUME IndInv, [Next]_vars PROVE ScopeInv'
  OBVIOUS
<1> USE LifecycleAssumption DEF IndInv, TypeOK, RequestLive, TaskLive, ListenerLive,
      HandlerLive, Pending, ScopeInv
<1>1. CASE \E q \in Request : RequestCall(q)
  BY <1>1 DEF RequestCall, scopes, serving
<1>2. CASE \E q \in Request : RequestStart(q)
  BY <1>2 DEF RequestStart, scopes, serving
<1>3. CASE \E q \in Request : RequestEnds(q)
  BY <1>3 DEF RequestEnds, scopes, serving
<1>4. CASE \E l \in Listener : ListenCall(l)
  BY <1>4 DEF ListenCall, scopes, serving
<1>5. CASE \E l \in Listener : ListenSucceeds(l)
  BY <1>5 DEF ListenSucceeds, scopes, serving
<1>6. CASE \E l \in Listener : ListenFails(l)
  BY <1>6 DEF ListenFails, scopes, serving
<1>7. CASE \E l \in Listener : DropListener(l)
  BY <1>7 DEF DropListener, scopes, serving
<1>8. CASE \E l \in Listener : TaskUnregisters(l)
  BY <1>8 DEF TaskUnregisters, scopes, serving
<1>9. CASE \E l \in Listener : TaskClosesScope(l)
  BY <1>9 DEF TaskClosesScope, scopes, serving
<1>10. CASE \E l \in Listener : TaskCancelsScope(l)
  BY <1>10 DEF TaskCancelsScope, scopes, serving
<1>11. CASE \E l \in Listener : TaskEnds(l)
  BY <1>11 DEF TaskEnds, scopes, serving
<1>12. CASE \E h \in Handler : Route(h)
  BY <1>12 DEF Route, scopes, serving
<1>13. CASE \E h \in Handler : PollReady(h)
  BY <1>13 DEF PollReady, Admit, scopes, serving
<1>14. CASE \E h \in Handler : RegisterOperation(h)
  BY <1>14 DEF RegisterOperation, Admit, scopes, serving
<1>15. CASE \E h \in Handler : RegisterReading(h)
  BY <1>15 DEF RegisterReading, Admit, scopes, serving
<1>16. CASE \E h \in Handler : HandlerReturns(h) \/ FrameWritten(h) \/ FrameTaken(h)
  BY <1>16 DEF HandlerReturns, FrameWritten, FrameTaken, scopes, serving
<1>17. CASE \E h \in Handler : HandlerEnds(h)
  BY <1>17 DEF HandlerEnds, scopes, serving
<1>18. CASE \E h \in Handler : ReadingEnds(h)
  BY <1>18 DEF ReadingEnds, scopes, serving
<1>19. CASE \E c \in Caller : CloseCall(c)
  BY <1>19 DEF CloseCall, scopes, serving
<1>20. CASE \E c \in Caller : CloseMarks(c)
  BY <1>20 DEF CloseMarks, scopes, serving
<1>21. CASE \E c \in Caller : CloseCancels(c)
  BY <1>21 DEF CloseCancels, scopes, serving
<1>22. CASE \E c \in Caller : CloseReturns(c)
  BY <1>22 DEF CloseReturns, scopes, serving
<1>23. CASE \E c \in Caller : ReloadCall(c)
  BY <1>23 DEF ReloadCall, scopes, serving
<1>24. CASE \E c \in Caller : ReloadEnds(c)
  BY <1>24 DEF ReloadEnds, scopes, serving
<1>25. CASE \E c \in Caller : ShutLocks(c)
  BY <1>25 DEF ShutLocks, scopes, serving
<1>26. CASE \E c \in Caller : ShutReturns(c)
  BY <1>26 DEF ShutReturns, scopes, serving
<1>27. CASE \E c \in Caller : DropCall(c)
  BY <1>27 DEF DropCall, scopes, serving
<1>28. CASE \E c \in Caller, l \in Listener : ShutCall(c, l)
  BY <1>28 DEF ShutCall, scopes, serving
<1>29. CASE DropClient
  BY <1>29 DEF DropClient, scopes, serving
<1>30. CASE UNCHANGED vars
  BY <1>30 DEF vars, scopes, serving
<1> QED
  BY <1>1, <1>2, <1>3, <1>4, <1>5, <1>6, <1>7, <1>8, <1>9, <1>10, <1>11, <1>12, <1>13,
       <1>14, <1>15, <1>16, <1>17, <1>18, <1>19, <1>20, <1>21, <1>22, <1>23, <1>24,
       <1>25, <1>26, <1>27, <1>28, <1>29, <1>30
     DEF Next, Task, Admission, CallerStep

\* Nothing registers in the scope of a listener that has been joined.
LEMMA HandlerStep == IndInv /\ [Next]_vars => HandlerInv'
<1> SUFFICES ASSUME IndInv, [Next]_vars PROVE HandlerInv'
  OBVIOUS
<1> USE LifecycleAssumption DEF IndInv, TypeOK, RequestLive, TaskLive, ListenerLive,
      HandlerLive, Pending, ScopeInv, HandlerInv, ListenerTokens, Served
<1>1. CASE \E q \in Request : RequestCall(q)
  BY <1>1 DEF RequestCall, scopes, serving
<1>2. CASE \E q \in Request : RequestStart(q)
  BY <1>2 DEF RequestStart, scopes, serving
<1>3. CASE \E q \in Request : RequestEnds(q)
  BY <1>3 DEF RequestEnds, scopes, serving
<1>4. CASE \E l \in Listener : ListenCall(l)
  BY <1>4 DEF ListenCall, scopes, serving
<1>5. CASE \E l \in Listener : ListenSucceeds(l)
  BY <1>5 DEF ListenSucceeds, scopes, serving
<1>6. CASE \E l \in Listener : ListenFails(l)
  BY <1>6 DEF ListenFails, scopes, serving
<1>7. CASE \E l \in Listener : DropListener(l)
  BY <1>7 DEF DropListener, scopes, serving
<1>8. CASE \E l \in Listener : TaskUnregisters(l)
  BY <1>8 DEF TaskUnregisters, scopes, serving
<1>9. CASE \E l \in Listener : TaskClosesScope(l)
  BY <1>9 DEF TaskClosesScope, scopes, serving
<1>10. CASE \E l \in Listener : TaskCancelsScope(l)
  BY <1>10 DEF TaskCancelsScope, scopes, serving
<1>11. CASE \E l \in Listener : TaskEnds(l)
  BY <1>11 DEF TaskEnds, scopes, serving
<1>12. CASE \E h \in Handler : Route(h)
  BY <1>12 DEF Route, scopes, serving
<1>13. CASE \E h \in Handler : PollReady(h)
  BY <1>13 DEF PollReady, Admit, scopes, serving
<1>14. CASE \E h \in Handler : RegisterOperation(h)
  BY <1>14 DEF RegisterOperation, Admit, scopes, serving
<1>15. CASE \E h \in Handler : RegisterReading(h)
  BY <1>15 DEF RegisterReading, Admit, scopes, serving
<1>16. CASE \E h \in Handler : HandlerReturns(h) \/ FrameWritten(h) \/ FrameTaken(h)
  BY <1>16 DEF HandlerReturns, FrameWritten, FrameTaken, scopes, serving
<1>17. CASE \E h \in Handler : HandlerEnds(h)
  BY <1>17 DEF HandlerEnds, scopes, serving
<1>18. CASE \E h \in Handler : ReadingEnds(h)
  BY <1>18 DEF ReadingEnds, scopes, serving
<1>19. CASE \E c \in Caller : CloseCall(c)
  BY <1>19 DEF CloseCall, scopes, serving
<1>20. CASE \E c \in Caller : CloseMarks(c)
  BY <1>20 DEF CloseMarks, scopes, serving
<1>21. CASE \E c \in Caller : CloseCancels(c)
  BY <1>21 DEF CloseCancels, scopes, serving
<1>22. CASE \E c \in Caller : CloseReturns(c)
  BY <1>22 DEF CloseReturns, scopes, serving
<1>23. CASE \E c \in Caller : ReloadCall(c)
  BY <1>23 DEF ReloadCall, scopes, serving
<1>24. CASE \E c \in Caller : ReloadEnds(c)
  BY <1>24 DEF ReloadEnds, scopes, serving
<1>25. CASE \E c \in Caller : ShutLocks(c)
  BY <1>25 DEF ShutLocks, scopes, serving
<1>26. CASE \E c \in Caller : ShutReturns(c)
  BY <1>26 DEF ShutReturns, scopes, serving
<1>27. CASE \E c \in Caller : DropCall(c)
  BY <1>27 DEF DropCall, scopes, serving
<1>28. CASE \E c \in Caller, l \in Listener : ShutCall(c, l)
  BY <1>28 DEF ShutCall, scopes, serving
<1>29. CASE DropClient
  BY <1>29 DEF DropClient, scopes, serving
<1>30. CASE UNCHANGED vars
  BY <1>30 DEF vars, scopes, serving
<1> QED
  BY <1>1, <1>2, <1>3, <1>4, <1>5, <1>6, <1>7, <1>8, <1>9, <1>10, <1>11, <1>12, <1>13,
       <1>14, <1>15, <1>16, <1>17, <1>18, <1>19, <1>20, <1>21, <1>22, <1>23, <1>24,
       <1>25, <1>26, <1>27, <1>28, <1>29, <1>30
     DEF Next, Task, Admission, CallerStep

\* The JoinHandle is taken once, and joined or lost.
LEMMA HandleStep == IndInv /\ [Next]_vars => HandleInv'
<1> SUFFICES ASSUME IndInv, [Next]_vars PROVE HandleInv'
  OBVIOUS
<1> USE LifecycleAssumption DEF IndInv, TypeOK, RequestLive, TaskLive, ListenerLive,
      HandlerLive, Pending, HandleInv, Served
<1>1. CASE \E q \in Request : RequestCall(q)
  BY <1>1 DEF RequestCall, scopes, serving
<1>2. CASE \E q \in Request : RequestStart(q)
  BY <1>2 DEF RequestStart, scopes, serving
<1>3. CASE \E q \in Request : RequestEnds(q)
  BY <1>3 DEF RequestEnds, scopes, serving
<1>4. CASE \E l \in Listener : ListenCall(l)
  BY <1>4 DEF ListenCall, scopes, serving
<1>5. CASE \E l \in Listener : ListenSucceeds(l)
  BY <1>5 DEF ListenSucceeds, scopes, serving
<1>6. CASE \E l \in Listener : ListenFails(l)
  BY <1>6 DEF ListenFails, scopes, serving
<1>7. CASE \E l \in Listener : DropListener(l)
  BY <1>7 DEF DropListener, scopes, serving
<1>8. CASE \E l \in Listener : TaskUnregisters(l)
  BY <1>8 DEF TaskUnregisters, scopes, serving
<1>9. CASE \E l \in Listener : TaskClosesScope(l)
  BY <1>9 DEF TaskClosesScope, scopes, serving
<1>10. CASE \E l \in Listener : TaskCancelsScope(l)
  BY <1>10 DEF TaskCancelsScope, scopes, serving
<1>11. CASE \E l \in Listener : TaskEnds(l)
  BY <1>11 DEF TaskEnds, scopes, serving
<1>12. CASE \E h \in Handler : Route(h)
  BY <1>12 DEF Route, scopes, serving
<1>13. CASE \E h \in Handler : PollReady(h)
  BY <1>13 DEF PollReady, Admit, scopes, serving
<1>14. CASE \E h \in Handler : RegisterOperation(h)
  BY <1>14 DEF RegisterOperation, Admit, scopes, serving
<1>15. CASE \E h \in Handler : RegisterReading(h)
  BY <1>15 DEF RegisterReading, Admit, scopes, serving
<1>16. CASE \E h \in Handler : HandlerReturns(h) \/ FrameWritten(h) \/ FrameTaken(h)
  BY <1>16 DEF HandlerReturns, FrameWritten, FrameTaken, scopes, serving
<1>17. CASE \E h \in Handler : HandlerEnds(h)
  BY <1>17 DEF HandlerEnds, scopes, serving
<1>18. CASE \E h \in Handler : ReadingEnds(h)
  BY <1>18 DEF ReadingEnds, scopes, serving
<1>19. CASE \E c \in Caller : CloseCall(c)
  BY <1>19 DEF CloseCall, scopes, serving
<1>20. CASE \E c \in Caller : CloseMarks(c)
  BY <1>20 DEF CloseMarks, scopes, serving
<1>21. CASE \E c \in Caller : CloseCancels(c)
  BY <1>21 DEF CloseCancels, scopes, serving
<1>22. CASE \E c \in Caller : CloseReturns(c)
  BY <1>22 DEF CloseReturns, scopes, serving
<1>23. CASE \E c \in Caller : ReloadCall(c)
  BY <1>23 DEF ReloadCall, scopes, serving
<1>24. CASE \E c \in Caller : ReloadEnds(c)
  BY <1>24 DEF ReloadEnds, scopes, serving
<1>25. CASE \E c \in Caller : ShutLocks(c)
  BY <1>25 DEF ShutLocks, scopes, serving
<1>26. CASE \E c \in Caller : ShutReturns(c)
  BY <1>26 DEF ShutReturns, scopes, serving
<1>27. CASE \E c \in Caller : DropCall(c)
  BY <1>27 DEF DropCall, scopes, serving
<1>28. CASE \E c \in Caller, l \in Listener : ShutCall(c, l)
  BY <1>28 DEF ShutCall, scopes, serving
<1>29. CASE DropClient
  BY <1>29 DEF DropClient, scopes, serving
<1>30. CASE UNCHANGED vars
  BY <1>30 DEF vars, scopes, serving
<1> QED
  BY <1>1, <1>2, <1>3, <1>4, <1>5, <1>6, <1>7, <1>8, <1>9, <1>10, <1>11, <1>12, <1>13,
       <1>14, <1>15, <1>16, <1>17, <1>18, <1>19, <1>20, <1>21, <1>22, <1>23, <1>24,
       <1>25, <1>26, <1>27, <1>28, <1>29, <1>30
     DEF Next, Task, Admission, CallerStep


\* The inductive invariant holds in every reachable state.
THEOREM Inductive == Spec => []IndInv
<1>1. Init => IndInv
  <2> SUFFICES ASSUME Init PROVE IndInv
    OBVIOUS
  <2> USE LifecycleAssumption DEF Init, RequestLive, TaskLive, ListenerLive, HandlerLive,
          Pending, Served
  <2>1. TypeOK
    BY DEF TypeOK
  <2>2. ClientInv /\ ScopeInv
    BY DEF ClientInv, ScopeInv
  <2>3. HandlerInv
    BY DEF HandlerInv
  <2>4. HandleInv
    BY DEF HandleInv
  <2> QED
    BY <2>1, <2>2, <2>3, <2>4 DEF IndInv
<1>2. IndInv /\ [Next]_vars => IndInv'
  BY TypeStep, ClientStep, ScopeStep, HandlerStep, HandleStep DEF IndInv
<1> QED
  BY <1>1, <1>2, PTL DEF Spec

\* Type correctness of SdkLifecycle.
THEOREM TypeCorrect == Spec => []TypeOK
<1>1. IndInv => TypeOK
  BY DEF IndInv
<1> QED
  BY Inductive, <1>1, PTL

\* Client::close: when it has returned, no exchange, listener, handler or receive
\* worker of the client is left, for any number of concurrent calls.
THEOREM ClosedCorrect == Spec => []ClosedIsQuiescent
<1>1. IndInv => ClosedIsQuiescent
  <2> SUFFICES ASSUME IndInv, NEW c \in Caller, caller[c] = "closed"
               PROVE  /\ ClientTokens = {}
                      /\ registered = None
                      /\ \A l \in Listener : ListenerTokens(l) = {}
    BY DEF ClosedIsQuiescent
  <2>1. ClientTokens = {}
    BY DEF IndInv, ClientInv
  <2>2. \A l \in Listener : listener[l] \notin TaskLive
    BY <2>1 DEF ClientTokens, ListenerLive
  <2>3. registered = None
    BY <2>2 DEF IndInv, TypeOK, ScopeInv, TaskLive
  <2>4. ASSUME NEW l \in Listener PROVE ListenerTokens(l) = {}
    <3>1. CASE listener[l] = "finished"
      BY <3>1 DEF IndInv, HandlerInv
    <3>2. CASE listener[l] # "finished"
      BY <2>2, <3>2 DEF IndInv, HandlerInv, Served, ListenerTokens
    <3> QED
      BY <3>1, <3>2
  <2> QED
    BY <2>1, <2>3, <2>4
<1> QED
  BY Inductive, <1>1, PTL

\* Listener::close: when it has returned and no earlier close took the JoinHandle
\* away, the listener task has ended and nothing of the listener is left.
THEOREM ShutCorrect == Spec => []ShutIsQuiescent
<1>1. IndInv => ShutIsQuiescent
  <2> SUFFICES ASSUME IndInv, NEW c \in Caller, caller[c] = "shut",
                      handle[target[c]] # "lost"
               PROVE  registered # target[c] /\ ListenerTokens(target[c]) = {}
    BY DEF ShutIsQuiescent
  <2>1. target[c] \in Listener /\ listener[target[c]] = "finished"
    BY DEF IndInv, HandleInv
  <2> QED
    BY <2>1 DEF IndInv, ScopeInv, HandlerInv
<1> QED
  BY Inductive, <1>1, PTL

\* The listener task unregisters before its scope refuses requests.
THEOREM UnregisterCorrect == Spec => []UnregisteredFirst
<1>1. IndInv => UnregisteredFirst
  BY DEF IndInv, ScopeInv, UnregisteredFirst
<1> QED
  BY Inductive, <1>1, PTL

=============================================================================
