--------------------------- MODULE RequestProofs ----------------------------
(***************************************************************************)
(* A request for any window, chunk size, hosts and bounds: the request     *)
(* writer keeps the promise of BodyStream, so does the whole path from the *)
(* language producers to the stream, and so does the response; and the     *)
(* request is answered by the server it was sent to.                       *)
(***************************************************************************)
EXTENDS MCRequest, TLAPS

-----------------------------------------------------------------------------
\* The request writer.

\* The end is asked for once and closes the window and the trailers; the task that
\* has read it has sent everything.
WriterInv ==
    /\ TypeOK
    /\ sent + buffered = written
    /\ ended => closed /\ window # "open"
    /\ window = "eof" => ended
    /\ task \in {"finishing", "ok"} => ended /\ buffered = 0 /\ sentTrailers = trailers

\* Every step of the application, the task and the response keeps that.
LEMMA WriterStep ==
  ASSUME WriterInv, [Next]_vars
  PROVE  WriterInv'
<1> USE RequestWriterAssumption
    DEF WriterInv, TypeOK, shared, writer, counts, Finished, Using
<1>1. ASSUME SetTrailer PROVE WriterInv'
  BY <1>1 DEF SetTrailer
<1>2. ASSUME Write PROVE WriterInv'
  BY <1>2 DEF Write
<1>3. ASSUME WriteAccepted PROVE WriterInv'
  BY <1>3 DEF WriteAccepted
<1>4. ASSUME WriteFails PROVE WriterInv'
  BY <1>4 DEF WriteFails
<1>5. ASSUME Shutdown PROVE WriterInv'
  BY <1>5 DEF Shutdown
<1>6. ASSUME ShutdownWindowFails PROVE WriterInv'
  BY <1>6 DEF ShutdownWindowFails
<1>7. ASSUME ShutdownWindowDone PROVE WriterInv'
  BY <1>7 DEF ShutdownWindowDone
<1>8. ASSUME ShutdownJoins PROVE WriterInv'
  BY <1>8 DEF ShutdownJoins
<1>9. ASSUME DropCall PROVE WriterInv'
  BY <1>9 DEF DropCall
<1>10. ASSUME Cancel PROVE WriterInv'
  BY <1>10 DEF Cancel, CancelUpload
<1>11. ASSUME Drop PROVE WriterInv'
  BY <1>11 DEF Drop, CancelUpload
<1>12. ASSUME TaskSends PROVE WriterInv'
  BY <1>12 DEF TaskSends
<1>13. ASSUME TaskReadsEnd PROVE WriterInv'
  BY <1>13 DEF TaskReadsEnd
<1>14. ASSUME TaskFinishes PROVE WriterInv'
  BY <1>14 DEF TaskFinishes
<1>15. ASSUME TaskFails PROVE WriterInv'
  BY <1>15 DEF TaskFails
<1>16. ASSUME TaskAborts PROVE WriterInv'
  BY <1>16 DEF TaskAborts
<1>17. ASSUME ResponseArrives PROVE WriterInv'
  BY <1>17 DEF ResponseArrives
<1>18. ASSUME ResponseFails PROVE WriterInv'
  BY <1>18 DEF ResponseFails
<1>19. ASSUME ResponseDropped PROVE WriterInv'
  BY <1>19 DEF ResponseDropped
<1>20. ASSUME UNCHANGED vars PROVE WriterInv'
  BY <1>20 DEF vars
<1> QED
  BY <1>1, <1>2, <1>3, <1>4, <1>5, <1>6, <1>7, <1>8, <1>9, <1>10, <1>11, <1>12, <1>13,
     <1>14, <1>15, <1>16, <1>17, <1>18, <1>19, <1>20 DEF Next

\* Numbered bytes: the first m are a prefix of the first n.
LEMMA CountPrefix ==
  ASSUME NEW m \in Nat, NEW n \in Nat, m <= n
  PROVE  /\ Promise!IsPrefixOf([i \in 1 .. m |-> i], [i \in 1 .. n |-> i])
         /\ m # n => [i \in 1 .. m |-> i] # [i \in 1 .. n |-> i]
<1> DEFINE s == [i \in 1 .. m |-> i]
           t == [i \in 1 .. n |-> i]
<1>1. s \in Seq(Nat) /\ Len(s) = m /\ t \in Seq(Nat) /\ Len(t) = n
  OBVIOUS
<1>2. \A i \in 1 .. m : s[i] = t[i]
  OBVIOUS
<1> HIDE DEF s, t
<1>3. s = SubSeq(t, 1, m)
  BY <1>1, <1>2
<1>4. Promise!IsPrefixOf(s, t)
  BY <1>1, <1>3 DEF Promise!IsPrefixOf
<1>5. m # n => s # t
  BY <1>1
<1> QED
  BY <1>4, <1>5 DEF s, t

\* A step of the writer is one of the stream it promises, or none.
LEMMA WriterPromiseStep ==
  ASSUME WriterInv, WriterInv', [Next]_vars
  PROVE  [Promise!Next]_Promise!vars
<1> USE DEF shared, writer, counts
<1>1. ASSUME UNCHANGED <<written, trailers, ended, sent, task, sentTrailers>>
      PROVE  [Promise!Next]_Promise!vars
  BY <1>1 DEF Promise!vars, Finished
<1>2. ASSUME SetTrailer PROVE [Promise!Next]_Promise!vars
  <2>1. /\ ~ended /\ trailers' # trailers
        /\ UNCHANGED <<written, ended, sent, task, sentTrailers>>
    BY <1>2 DEF SetTrailer, WriterInv, TypeOK
  <2>2. Promise!SetTrailers
    BY <2>1 DEF Promise!SetTrailers, Finished
  <2> QED
    BY <2>2 DEF Promise!Next
<1>3. ASSUME WriteAccepted PROVE [Promise!Next]_Promise!vars
  <2>1. /\ ~ended /\ written <= written' /\ written # written'
        /\ UNCHANGED <<trailers, ended, sent, task, sentTrailers>>
        /\ written \in Nat /\ written' \in Nat
    BY <1>3, RequestWriterAssumption DEF WriteAccepted, WriterInv, TypeOK
  <2>2. Promise!Add
    BY <2>1, CountPrefix DEF Promise!Add, Finished
  <2> QED
    BY <2>2 DEF Promise!Next
<1>4. ASSUME Shutdown PROVE [Promise!Next]_Promise!vars
  <2>1. ended' /\ UNCHANGED <<trailers, written, sent, task, sentTrailers>>
    BY <1>4 DEF Shutdown
  <2>2. CASE ended
    <3>1. ended' = ended
      BY <2>1, <2>2 DEF WriterInv, TypeOK
    <3> QED
      BY <1>1, <2>1, <3>1
  <2>3. CASE ~ended
    <3>1. Promise!AskEnd
      BY <2>1, <2>3 DEF Promise!AskEnd, Finished
    <3> QED
      BY <3>1 DEF Promise!Next
  <2> QED
    BY <2>2, <2>3
<1>5. ASSUME TaskSends PROVE [Promise!Next]_Promise!vars
  <2>1. /\ task = "sending" /\ sent <= sent' /\ sent # sent' /\ sent' <= written
        /\ UNCHANGED <<trailers, ended, written, task, sentTrailers>>
        /\ sent \in Nat /\ sent' \in Nat /\ written \in Nat
    BY <1>5, RequestWriterAssumption DEF TaskSends, WriterInv, TypeOK
  <2>2. Promise!Deliver
    BY <2>1, CountPrefix DEF Promise!Deliver, Finished
  <2> QED
    BY <2>2 DEF Promise!Next
<1>6. ASSUME TaskReadsEnd PROVE [Promise!Next]_Promise!vars
  BY <1>6 DEF TaskReadsEnd, Promise!vars, Finished
<1>7. ASSUME TaskFinishes PROVE [Promise!Next]_Promise!vars
  <2>1. /\ task = "finishing" /\ task' = "ok" /\ ended /\ sentTrailers = trailers
        /\ UNCHANGED <<trailers, ended, written, sent, sentTrailers>>
    BY <1>7 DEF TaskFinishes, WriterInv
  <2>2. sent = written
    BY <1>7, RequestWriterAssumption DEF TaskFinishes, WriterInv, TypeOK
  <2>3. Promise!End
    BY <2>1, <2>2 DEF Promise!End, Finished
  <2> QED
    BY <2>3 DEF Promise!Next
<1>8. ASSUME TaskFails \/ TaskAborts PROVE [Promise!Next]_Promise!vars
  <2>1. /\ ~Finished /\ task' \in {"error", "aborted"}
        /\ UNCHANGED <<trailers, ended, written, sent, sentTrailers>>
    BY <1>8 DEF TaskFails, TaskAborts, Finished
  <2>2. Promise!Fail
    BY <2>1 DEF Promise!Fail, Finished
  <2> QED
    BY <2>2 DEF Promise!Next
<1>9. ASSUME Write \/ WriteFails \/ ShutdownWindowFails \/ ShutdownWindowDone
               \/ ShutdownJoins \/ DropCall
      PROVE  [Promise!Next]_Promise!vars
  BY <1>1, <1>9 DEF Write, WriteFails, ShutdownWindowFails, ShutdownWindowDone,
     ShutdownJoins, DropCall
<1>10. ASSUME Cancel \/ Drop PROVE [Promise!Next]_Promise!vars
  BY <1>1, <1>10 DEF Cancel, Drop, CancelUpload
<1>11. ASSUME ResponseArrives \/ ResponseFails \/ ResponseDropped
       PROVE  [Promise!Next]_Promise!vars
  BY <1>1, <1>11 DEF ResponseArrives, ResponseFails, ResponseDropped
<1>12. ASSUME UNCHANGED vars PROVE [Promise!Next]_Promise!vars
  BY <1>1, <1>12 DEF vars
<1> QED
  BY <1>2, <1>3, <1>4, <1>5, <1>6, <1>7, <1>8, <1>9, <1>10, <1>11, <1>12 DEF Next

\* The first states.
LEMMA WriterStarts == Init => WriterInv
<1> SUFFICES ASSUME Init PROVE WriterInv
  OBVIOUS
<1>1. sent + buffered = written /\ written \in 0 .. MaxBytes /\ sent \in 0 .. written
  BY RequestWriterAssumption DEF Init
<1>2. /\ aborted \in BOOLEAN /\ closed \in BOOLEAN /\ owned \in BOOLEAN
      /\ dropped \in BOOLEAN /\ ended \in BOOLEAN
  BY DEF Init
<1>3. sentTrailers \in 0 .. MaxTrailers
  BY RequestWriterAssumption DEF Init
<1>4. TypeOK
  BY <1>1, <1>2, <1>3 DEF Init, TypeOK
<1> QED
  BY <1>1, <1>4 DEF Init, WriterInv

\* A request body that is written by hand keeps the promise of BodyStream, for any
\* window: no cancellation, drop or failing response passes for its end.
THEOREM WriterImplements == Spec => IsBodyStream
<1>1. Init => WriterInv
  BY WriterStarts
<1>2. WriterInv /\ [Next]_vars => WriterInv'
  BY WriterStep
<1>3. Init => Promise!Init
  BY DEF Init, Promise!Init, Finished
<1>4. WriterInv /\ WriterInv' /\ [Next]_vars => [Promise!Next]_Promise!vars
  BY WriterPromiseStep
<1> QED
  BY <1>1, <1>2, <1>3, <1>4, PTL DEF Spec, IsBodyStream, Promise!Spec

-----------------------------------------------------------------------------
\* The path.  Its channel is the one of UploadProofs, without a pump of a language
\* SDK, and every step of the path is a step of the channel, of the writer or of both.

Channel == INSTANCE UploadProofs WITH
    call <- sending, DropsRace <- FALSE,
    Pump <- CHOOSE w \in Writer : TRUE, language <- "none", step <- "none",
    notice <- FALSE, noticed <- FALSE, outer <- "none"

\* What UploadProofs assumes of its constants holds within the path.
LEMMA ChannelAssumptions == Channel!UploadAssumption /\ Channel!PumpAssumption
<1>1. MaxChunks \in Nat
  BY RequestWriterAssumption, UploadPathAssumption DEF MaxChunks
<1>2. (CHOOSE w \in Writer : TRUE) \in Writer
  BY UploadPathAssumption
<1> QED
  BY <1>1, <1>2, UploadPathAssumption DEF Channel!UploadAssumption, Channel!PumpAssumption

\* Both instances of the channel are the same.
LEMMA SameChannel ==
  /\ Upload!Init => Channel!Init
  /\ [Upload!Next]_Upload!vars => [Channel!Next]_Channel!vars
BY DEF Upload!Init, Upload!Next, Upload!vars, Upload!CallStep, Upload!Acquire,
   Upload!PushChunk, Upload!SendReturns, Upload!FinishReturns, Upload!ConsumerClosed,
   Upload!CallCancelled, Upload!DropGuard, Upload!DropCall, Upload!StartFinish,
   Upload!StartSend, Upload!ProducerFails, Upload!DropWriter, Upload!Poll,
   Upload!PollData, Upload!PollFinish, Upload!PollCancelled, Upload!PollOrphaned,
   Upload!DropBody, Upload!state, Upload!writers, Upload!body, Upload!Finish, Upload!Fail,
   Upload!Call, Upload!Leave, Upload!MayStart, Upload!Chunks,
   Channel!Init, Channel!Next, Channel!vars, Channel!CallStep, Channel!Acquire,
   Channel!PushChunk, Channel!SendReturns, Channel!FinishReturns, Channel!ConsumerClosed,
   Channel!CallCancelled, Channel!DropGuard, Channel!DropCall, Channel!StartFinish,
   Channel!StartSend, Channel!ProducerFails, Channel!DropWriter, Channel!Poll,
   Channel!PollData, Channel!PollFinish, Channel!PollCancelled, Channel!PollOrphaned,
   Channel!DropBody, Channel!state, Channel!writers, Channel!body, Channel!Finish,
   Channel!Fail, Channel!Call, Channel!Leave, Channel!MayStart, Channel!Chunks

\* The frame the pumping future works on is a chunk that was delivered to it, and it
\* shuts the writer down only after the channel's end, with nothing left to write and
\* the trailers set.
GlueInv ==
    /\ rest \in 0 .. ChunkBytes
    /\ written + rest = ChunkBytes * Len(delivered)
    /\ pump \in {"frame", "trailers", "shutdown"} => rest = 0
    /\ pump \in {"trailers", "shutdown"} => outcome = "eof"
    /\ ended => /\ pump \in {"shutdown", "dropping", "gone"}
                /\ outcome = "eof" /\ rest = 0 /\ trailers = fields

PathInv == WriterInv /\ Channel!IndInv /\ GlueInv

\* The sequences of the channel are sequences of chunks.
LEMMA ChannelTypes ==
  ASSUME Channel!IndInv
  PROVE  /\ accepted \in Seq(Channel!Data) /\ delivered \in Seq(Channel!Data)
         /\ Len(delivered) <= Len(accepted)
         /\ \A i \in 1 .. Len(delivered) : delivered[i] = accepted[i]
         /\ outcome = "eof" => finished /\ delivered = accepted
BY DEF Channel!IndInv, Channel!TypeOK, Channel!DeliverInv, Channel!EofInv

\* A step of the path is one of the channel, or none ...
LEMMA PathStepsChannel ==
  ASSUME Channel!IndInv, [PathNext]_pathVars
  PROVE  [Upload!Next]_Upload!vars
<1> USE DEF Upload!vars
<1>1. ASSUME UNCHANGED uploadVars PROVE UNCHANGED Upload!vars
  BY <1>1 DEF uploadVars
<1>2. ASSUME PumpTakesData \/ PumpTakesFinish \/ PumpTakesError PROVE Upload!Next
  BY <1>2 DEF PumpTakesData, PumpTakesFinish, PumpTakesError, Upload!Next, Upload!Poll
<1>3. ASSUME \/ PumpWrites \/ PumpWritten \/ PumpWriteFails \/ PumpAppendsTrailer
             \/ PumpTrailerFails \/ PumpShutsDown \/ PumpAwaitsShutdown \/ ExchangeEnds
             \/ PumpDropsCall \/ StreamStep
      PROVE  UNCHANGED uploadVars
  BY <1>3 DEF PumpWrites, PumpWritten, PumpWriteFails, PumpAppendsTrailer,
     PumpTrailerFails, PumpShutsDown, PumpAwaitsShutdown, ExchangeEnds, PumpDropsCall,
     StreamStep, uploadVars
<1>4. ASSUME PumpDrops PROVE Upload!Next \/ UNCHANGED uploadVars
  BY <1>4 DEF PumpDrops, Upload!Next
<1>5. ASSUME ProducerStep PROVE Upload!Next
  <2>1. Len(accepted) \in Nat /\ MaxChunks \in Nat
    BY ChannelTypes, ChannelAssumptions DEF Channel!UploadAssumption
  <2>2. \A n \in 0 .. MaxChunks - Len(accepted) : n \in 0 .. MaxChunks
    BY <2>1
  <2> QED
    BY <1>5, <2>2 DEF ProducerStep, Upload!Next
<1> QED
  BY <1>1, <1>2, <1>3, <1>4, <1>5 DEF PathNext, PumpStep, pathVars, uploadVars

\* ... and one of the writer, or none.
LEMMA PathStepsWriter ==
  ASSUME [PathNext]_pathVars
  PROVE  [Next]_vars
<1>1. ASSUME PumpTakesData \/ PumpTakesFinish \/ PumpTakesError \/ PumpTrailerFails
               \/ ExchangeEnds \/ ProducerStep
      PROVE  UNCHANGED vars
  BY <1>1 DEF PumpTakesData, PumpTakesFinish, PumpTakesError, PumpTrailerFails,
     ExchangeEnds, ProducerStep
<1>2. ASSUME \/ PumpWrites \/ PumpWritten \/ PumpWriteFails \/ PumpAppendsTrailer
             \/ PumpShutsDown \/ PumpAwaitsShutdown \/ PumpDropsCall \/ PumpDrops
      PROVE  Next \/ UNCHANGED vars
  BY <1>2 DEF PumpWrites, PumpWritten, PumpWriteFails, PumpAppendsTrailer,
     PumpShutsDown, PumpAwaitsShutdown, PumpDropsCall, PumpDrops, Next
<1>3. ASSUME StreamStep PROVE Next
  BY <1>3 DEF StreamStep, Next
<1> QED
  BY <1>1, <1>2, <1>3 DEF PathNext, PumpStep, pathVars

\* Producers touch neither what the consumer was given nor what it was told.
LEMMA ProducerKeeps ==
  ASSUME ProducerStep
  PROVE  UNCHANGED <<delivered, outcome, vars, pump, rest, fields>>
<1> USE DEF Upload!body
<1>1. ASSUME NEW w \in Writer, Upload!CallStep(w) PROVE UNCHANGED <<delivered, outcome>>
  BY <1>1 DEF Upload!CallStep, Upload!Acquire, Upload!PushChunk, Upload!SendReturns,
     Upload!FinishReturns, Upload!ConsumerClosed, Upload!CallCancelled, Upload!DropGuard
<1>2. ASSUME NEW w \in Writer, Upload!DropCall(w) \/ Upload!StartFinish(w)
      PROVE  UNCHANGED <<delivered, outcome>>
  BY <1>2 DEF Upload!DropCall, Upload!StartFinish
<1>3. ASSUME NEW w \in Writer, NEW n, Upload!StartSend(w, n)
      PROVE  UNCHANGED <<delivered, outcome>>
  BY <1>3 DEF Upload!StartSend
<1>4. ASSUME Upload!ProducerFails \/ Upload!DropWriter
      PROVE  UNCHANGED <<delivered, outcome>>
  BY <1>4 DEF Upload!ProducerFails, Upload!DropWriter
<1> QED
  BY <1>1, <1>2, <1>3, <1>4 DEF ProducerStep

\* What is written is no longer left to write.
LEMMA MovedBytes ==
  ASSUME NEW chunk \in Nat, NEW w \in Nat, NEW w2 \in Nat, NEW r \in 0 .. chunk, w2 >= w,
         w2 - w <= r
  PROVE  r - (w2 - w) \in 0 .. chunk /\ w2 + (r - (w2 - w)) = w + r
OBVIOUS

\* Every step of the path keeps the writer, the channel and the pump together.
LEMMA GlueStep ==
  ASSUME PathInv, WriterInv', [PathNext]_pathVars
  PROVE  GlueInv'
<1>0. /\ ChunkBytes \in Nat \ {0} /\ Len(delivered) \in Nat /\ written \in Nat
      /\ written' \in Nat /\ rest \in Nat
  BY RequestWriterAssumption, UploadPathAssumption, ChannelTypes
     DEF PathInv, WriterInv, TypeOK, GlueInv
<1>1. ASSUME UNCHANGED <<rest, written, delivered, ended, outcome, trailers, fields>>,
             \/ pump' \in {"dropping", "gone", pump}
             \/ pump' = "write" /\ ~ended
      PROVE  GlueInv'
  BY <1>1 DEF PathInv, GlueInv
<1> USE DEF Upload!writers, Upload!body, Upload!state, shared, writer, counts
<1>2. ASSUME PumpTakesData PROVE GlueInv'
  <2>1. /\ delivered' = Append(delivered, Head(queue)) /\ UNCHANGED outcome
        /\ queue # <<>> /\ Head(queue) # Channel!Finish
        /\ pump = "frame" /\ pump' = "write" /\ rest' = ChunkBytes
        /\ UNCHANGED <<written, ended, trailers, fields>>
    BY <1>2 DEF PumpTakesData, Upload!PollData, Upload!Finish, Channel!Finish, vars
  <2>2. Len(delivered') = Len(delivered) + 1
    <3>1. delivered \in Seq(Channel!Data)
      BY ChannelTypes DEF PathInv
    <3>2. queue \in Seq(Channel!Data \cup {Channel!Finish})
      BY DEF PathInv, Channel!IndInv, Channel!TypeOK
    <3>3. Head(queue) \in Channel!Data
      BY <2>1, <3>2
    <3> QED
      BY <2>1, <3>1, <3>3
  <2>3. ChunkBytes * Len(delivered') = ChunkBytes * Len(delivered) + ChunkBytes
    BY <1>0, <2>2
  <2>4. written' + rest' = ChunkBytes * Len(delivered')
    BY <1>0, <2>1, <2>3 DEF PathInv, GlueInv
  <2> QED
    BY <1>0, <2>1, <2>4 DEF PathInv, GlueInv
<1>3. ASSUME PumpTakesFinish PROVE GlueInv'
  BY <1>3 DEF PumpTakesFinish, Upload!PollFinish, vars, PathInv, GlueInv
<1>4. ASSUME PumpTakesError PROVE GlueInv'
  <2>1. /\ pump = "frame" /\ pump' = "dropping"
        /\ UNCHANGED <<rest, written, delivered, ended, trailers, fields>>
    BY <1>4 DEF PumpTakesError, Upload!PollCancelled, Upload!PollOrphaned, vars
  <2> QED
    BY <2>1 DEF PathInv, GlueInv
<1>5. ASSUME PumpWrites PROVE GlueInv'
  BY <1>1, <1>5 DEF PumpWrites, Write, uploadVars
<1>6. ASSUME PumpWritten PROVE GlueInv'
  <2>1. written' >= written /\ written' - written <= rest
    BY <1>0, <1>6 DEF PumpWritten, WriteAccepted, PathInv, WriterInv, TypeOK
  <2>2. rest' = rest - (written' - written)
    BY <1>6 DEF PumpWritten
  <2>3. rest \in 0 .. ChunkBytes
    BY DEF PathInv, GlueInv
  <2>4. rest' \in 0 .. ChunkBytes /\ written' + rest' = written + rest
    <3>1. ChunkBytes \in Nat /\ written \in Nat /\ written' \in Nat
      BY <1>0
    <3>2. /\ rest - (written' - written) \in 0 .. ChunkBytes
          /\ written' + (rest - (written' - written)) = written + rest
      BY <2>1, <2>3, <3>1, MovedBytes
    <3> QED
      BY <2>2, <3>2, Zenon
  <2>5. /\ pump = "write" /\ pump' = IF rest' = 0 THEN "frame" ELSE "write"
        /\ UNCHANGED <<delivered, ended, outcome, trailers, fields>>
    BY <1>6 DEF PumpWritten, WriteAccepted, uploadVars
  <2> QED
    BY <2>4, <2>5 DEF PathInv, GlueInv
<1>7. ASSUME PumpWriteFails PROVE GlueInv'
  BY <1>1, <1>7 DEF PumpWriteFails, WriteFails, vars, uploadVars
<1>8. ASSUME PumpAppendsTrailer PROVE GlueInv'
  BY <1>8 DEF PumpAppendsTrailer, SetTrailer, uploadVars, PathInv, GlueInv
<1>9. ASSUME PumpTrailerFails \/ ExchangeEnds PROVE GlueInv'
  BY <1>1, <1>9 DEF PumpTrailerFails, ExchangeEnds, vars, uploadVars
<1>10. ASSUME PumpShutsDown PROVE GlueInv'
  BY <1>10 DEF PumpShutsDown, Shutdown, uploadVars, PathInv, GlueInv
<1>11. ASSUME PumpAwaitsShutdown PROVE GlueInv'
  BY <1>1, <1>11 DEF PumpAwaitsShutdown, ShutdownWindowFails, ShutdownWindowDone,
     ShutdownJoins, uploadVars
<1>12. ASSUME PumpDropsCall PROVE GlueInv'
  BY <1>1, <1>12 DEF PumpDropsCall, DropCall, uploadVars
<1>13. ASSUME PumpDrops PROVE GlueInv'
  <2>1. /\ pump = "dropping" /\ pump' = "gone"
        /\ UNCHANGED <<rest, written, delivered, ended, trailers, fields>>
        /\ outcome = "eof" => outcome' = "eof"
    BY <1>13 DEF PumpDrops, Drop, CancelUpload, Upload!DropBody, uploadVars
  <2> QED
    BY <2>1 DEF PathInv, GlueInv
<1>14. ASSUME ProducerStep PROVE GlueInv'
  BY <1>1, <1>14, ProducerKeeps DEF vars
<1>15. ASSUME StreamStep PROVE GlueInv'
  BY <1>1, <1>15 DEF StreamStep, TaskSends, TaskReadsEnd, TaskFinishes, TaskFails,
     TaskAborts, ResponseFails, uploadVars
<1>16. ASSUME UNCHANGED pathVars PROVE GlueInv'
  BY <1>1, <1>16 DEF pathVars, vars, uploadVars
<1> QED
  BY <1>2, <1>3, <1>4, <1>5, <1>6, <1>7, <1>8, <1>9, <1>10, <1>11, <1>12, <1>13, <1>14,
     <1>15, <1>16 DEF PathNext, PumpStep

\* The path keeps its invariant.
LEMMA PathStepKeeps ==
  ASSUME PathInv, [PathNext]_pathVars
  PROVE  PathInv'
<1>1. WriterInv'
  BY PathStepsWriter, WriterStep DEF PathInv
<1>2. Channel!IndInv'
  <2>1. Channel!IndInv /\ Channel!BaseInv /\ [Channel!Next]_Channel!vars
    BY PathStepsChannel, SameChannel DEF PathInv, Channel!IndInv, Channel!BaseInv
  <2>2. Channel!TypeOK' /\ Channel!LockInv' /\ Channel!CallInv'
    BY <2>1, ChannelAssumptions, Channel!TypeStep, Channel!LockStep, Channel!CallStepKeeps
  <2>3. Channel!DropInv' /\ Channel!AcceptInv' /\ Channel!DeliverInv'
    BY <2>1, ChannelAssumptions, Channel!DropStep, Channel!AcceptStep, Channel!DeliverStep
  <2>4. Channel!QueueInv' /\ Channel!RestInv' /\ Channel!EofInv'
    BY <2>1, ChannelAssumptions, Channel!QueueStep, Channel!RestStep, Channel!EofStep
  <2> QED
    BY <2>2, <2>3, <2>4 DEF Channel!IndInv
<1> QED
  BY <1>1, <1>2, GlueStep DEF PathInv

\* What a step may do to what was sent and to the end of the body: the producers add
\* to it or end it, and then leave the rest alone.
LEMMA ProducerEffect ==
  ASSUME PathInv, PathInv', [PathNext]_pathVars
  PROVE  \/ UNCHANGED <<accepted, finished>>
         \/ /\ ~finished /\ UNCHANGED finished
            /\ Len(accepted) < Len(accepted')
            /\ \A i \in 1 .. Len(accepted) : accepted'[i] = accepted[i]
         \/ ~finished /\ finished' /\ UNCHANGED accepted
<1>1. [Channel!Promise!Next]_Channel!Promise!vars
  BY PathStepsChannel, SameChannel, ChannelAssumptions, Channel!PromiseStep DEF PathInv
<1>2. accepted \in Seq(Channel!Data) /\ accepted' \in Seq(Channel!Data)
  BY ChannelTypes DEF PathInv, Channel!IndInv, Channel!TypeOK
<1>3. CASE Channel!Promise!Add
  <2>1. /\ Len(accepted) <= Len(accepted')
        /\ accepted = SubSeq(accepted', 1, Len(accepted)) /\ accepted' # accepted
    BY <1>3 DEF Channel!Promise!Add, Channel!Promise!IsPrefixOf
  <2>2. \A i \in 1 .. Len(accepted) : accepted'[i] = accepted[i]
    BY <1>2, <2>1
  <2>3. Len(accepted) # Len(accepted')
    BY <1>2, <2>1, <2>2
  <2> QED
    BY <1>2, <1>3, <2>1, <2>2, <2>3 DEF Channel!Promise!Add
<1> QED
  BY <1>1, <1>3 DEF Channel!Promise!Next, Channel!Promise!vars, Channel!Promise!SetTrailers,
     Channel!Promise!AskEnd, Channel!Promise!Deliver, Channel!Promise!End, Channel!Promise!Fail

\* The k-th byte of some chunks is in one of them.
LEMMA ByteIndex ==
  ASSUME NEW c \in Nat \ {0}, NEW l \in Nat, NEW k \in 1 .. c * l
  PROVE  1 + (k - 1) \div c \in 1 .. l
<1> DEFINE q == (k - 1) \div c
<1>1. q \in Nat /\ c * q <= k - 1
  OBVIOUS
<1>2. c * q < c * l
  BY <1>1
<1> HIDE DEF q
<1>3. q < l
  <2>1. SUFFICES ASSUME q >= l PROVE FALSE
    BY <1>1
  <2>2. c * q >= c * l
    BY <1>1, <2>1
  <2> QED
    BY <1>1, <1>2, <2>2
<1> QED
  BY <1>1, <1>3 DEF q

\* Sequences that agree as far as the first goes.
LEMMA BytesPrefix ==
  ASSUME NEW T, NEW m \in Nat, NEW n \in Nat, m <= n,
         NEW s \in [1 .. m -> T], NEW t \in [1 .. n -> T], \A k \in 1 .. m : s[k] = t[k]
  PROVE  PathPromise!IsPrefixOf(s, t) /\ (m # n => s # t)
<1>1. s \in Seq(T) /\ Len(s) = m /\ t \in Seq(T) /\ Len(t) = n
  OBVIOUS
<1>2. s = SubSeq(t, 1, m)
  BY <1>1
<1> QED
  BY <1>1, <1>2 DEF PathPromise!IsPrefixOf

BytesOf(chunks, n) == [k \in 1 .. n |-> Byte(chunks, k)]

\* More bytes of more chunks continue the first ones.
LEMMA BytesContinue ==
  ASSUME NEW S, NEW a \in Seq(S), NEW b \in Seq(S), Len(a) <= Len(b),
         \A i \in 1 .. Len(a) : a[i] = b[i],
         NEW m \in Nat, NEW n \in Nat, m <= n,
         m <= ChunkBytes * Len(a), n <= ChunkBytes * Len(b)
  PROVE  /\ PathPromise!IsPrefixOf(BytesOf(a, m), BytesOf(b, n))
         /\ m # n => BytesOf(a, m) # BytesOf(b, n)
         /\ m = n => BytesOf(a, m) = BytesOf(b, n)
<1> USE UploadPathAssumption
<1>1. ASSUME NEW k \in 1 .. m PROVE 1 + (k - 1) \div ChunkBytes \in 1 .. Len(a)
  <2> DEFINE l == Len(a)
             p == ChunkBytes * l
  <2>1. ChunkBytes \in Nat \ {0} /\ l \in Nat
    OBVIOUS
  <2>2. m <= p
    OBVIOUS
  <2> HIDE DEF l
  <2>3. p \in Nat
    BY <2>1
  <2> HIDE DEF p
  <2>4. k \in 1 .. p
    BY <2>2, <2>3
  <2>5. 1 + (k - 1) \div ChunkBytes \in 1 .. l
    BY <2>1, <2>4, ByteIndex, Zenon DEF p
  <2> QED
    BY <2>5, Zenon DEF l
<1>2. \A k \in 1 .. m : Byte(a, k) = Byte(b, k)
  BY <1>1 DEF Byte
<1> DEFINE T == {Byte(a, k) : k \in 1 .. m} \cup {Byte(b, k) : k \in 1 .. n}
<1>3. /\ BytesOf(a, m) \in [1 .. m -> T] /\ BytesOf(b, n) \in [1 .. n -> T]
  BY DEF BytesOf
<1>4. \A k \in 1 .. m : BytesOf(a, m)[k] = BytesOf(b, n)[k]
  BY <1>2 DEF BytesOf
<1> HIDE DEF T
<1>5. m = n => BytesOf(a, m) = BytesOf(b, n)
  BY <1>2 DEF BytesOf
<1> QED
  BY <1>3, <1>4, <1>5, BytesPrefix

\* What the consumer was given only grows.
LEMMA ConsumerEffect ==
  ASSUME PathInv, PathInv', [PathNext]_pathVars
  PROVE  /\ Len(delivered) <= Len(delivered')
         /\ \A i \in 1 .. Len(delivered) : delivered[i] = delivered'[i]
<1>1. [Channel!Promise!Next]_Channel!Promise!vars
  BY PathStepsChannel, SameChannel, ChannelAssumptions, Channel!PromiseStep DEF PathInv
<1>2. delivered \in Seq(Channel!Data) /\ delivered' \in Seq(Channel!Data)
  BY ChannelTypes DEF PathInv, Channel!IndInv, Channel!TypeOK
<1>3. CASE Channel!Promise!Deliver
  <2>1. /\ Len(delivered) <= Len(delivered')
        /\ delivered = SubSeq(delivered', 1, Len(delivered))
    BY <1>3 DEF Channel!Promise!Deliver, Channel!Promise!IsPrefixOf
  <2> QED
    BY <1>2, <2>1
<1>4. CASE UNCHANGED delivered
  BY <1>2, <1>4
<1> QED
  BY <1>1, <1>3, <1>4 DEF Channel!Promise!Next, Channel!Promise!vars,
     Channel!Promise!SetTrailers, Channel!Promise!Add, Channel!Promise!AskEnd,
     Channel!Promise!End, Channel!Promise!Fail

SentBytes ==
    /\ sent \in Nat /\ written \in Nat /\ sent <= written
    /\ ChunkBytes * Len(delivered) \in Nat /\ written <= ChunkBytes * Len(delivered)
    /\ ChunkBytes * Len(accepted) \in Nat
    /\ sent <= ChunkBytes * Len(accepted)

\* Bytes that were sent were written, and those that were written were delivered.
LEMMA SentIsDelivered == PathInv => SentBytes
<1> SUFFICES ASSUME PathInv PROVE SentBytes
  OBVIOUS
<1>1. /\ ChunkBytes \in Nat /\ Len(delivered) \in Nat /\ Len(accepted) \in Nat
      /\ Len(delivered) <= Len(accepted)
  BY UploadPathAssumption, ChannelTypes DEF PathInv
<1>2. sent \in Nat /\ written \in Nat /\ sent <= written
  BY RequestWriterAssumption DEF PathInv, WriterInv, TypeOK
<1>3. rest \in Nat /\ written + rest = ChunkBytes * Len(delivered)
  BY <1>1 DEF PathInv, GlueInv
<1>4. ChunkBytes * Len(delivered) \in Nat /\ ChunkBytes * Len(accepted) \in Nat
  BY <1>1
<1>5. ChunkBytes * Len(delivered) <= ChunkBytes * Len(accepted)
  BY <1>1
<1>6. written <= ChunkBytes * Len(delivered)
  BY <1>2, <1>3, <1>4
<1>7. sent <= ChunkBytes * Len(delivered)
  BY <1>2, <1>4, <1>6
<1> QED
  BY <1>2, <1>4, <1>5, <1>6, <1>7 DEF SentBytes

\* More chunks have more bytes.
LEMMA MoreChunks ==
  ASSUME NEW c \in Nat \ {0}, NEW x \in Nat, NEW y \in Nat, x < y
  PROVE  c * x \in Nat /\ c * y \in Nat /\ c * x < c * y
<1>1. c * y = c * x + c * (y - x) /\ y - x \in Nat \ {0}
  OBVIOUS
<1>2. c * (y - x) > 0
  BY <1>1
<1> QED
  BY <1>1, <1>2

\* A step of the path is one of the stream it promises, or none.
LEMMA PathPromiseStep ==
  ASSUME PathInv, PathInv', [PathNext]_pathVars
  PROVE  [PathPromise!Next]_PathPromise!vars
<1> DEFINE all == BytesOf(accepted, ChunkBytes * Len(accepted))
           given == BytesOf(delivered, sent)
<1>0. /\ accepted \in Seq(Channel!Data) /\ accepted' \in Seq(Channel!Data)
      /\ delivered \in Seq(Channel!Data) /\ delivered' \in Seq(Channel!Data)
      /\ Len(accepted) \in Nat /\ Len(accepted') \in Nat
  <2>1. Channel!IndInv /\ Channel!IndInv'
    BY DEF PathInv
  <2>2. /\ accepted \in Seq(Channel!Data) /\ accepted' \in Seq(Channel!Data)
        /\ delivered \in Seq(Channel!Data) /\ delivered' \in Seq(Channel!Data)
    BY <2>1 DEF Channel!IndInv, Channel!TypeOK
  <2> QED
    BY <2>2
<1>1. SentBytes /\ SentBytes'
  BY SentIsDelivered, PTL
<1>2. ASSUME UNCHANGED sent PROVE UNCHANGED given
  <2>1. /\ sent \in Nat /\ sent <= ChunkBytes * Len(delivered)
        /\ sent <= ChunkBytes * Len(delivered')
    BY <1>1, <1>2 DEF SentBytes
  <2>2. BytesOf(delivered, sent) = BytesOf(delivered', sent)
    BY <1>0, <2>1, ConsumerEffect, BytesContinue
  <2> QED
    BY <1>2, <2>2 DEF BytesOf, Byte
<1>3. ASSUME UNCHANGED <<accepted, finished, sent, fields, task, sentTrailers>>
      PROVE  UNCHANGED PathPromise!vars
  <2>1. UNCHANGED <<all, given>>
    BY <1>2, <1>3 DEF BytesOf, Byte
  <2> QED
    BY <1>3, <2>1 DEF PathPromise!vars, BytesOf, Finished
<1>4. ASSUME UNCHANGED <<sent, fields, task, sentTrailers>>
      PROVE  [PathPromise!Next]_PathPromise!vars
  <2>1. UNCHANGED given
    BY <1>2, <1>4
  <2>2. CASE UNCHANGED <<accepted, finished>>
    BY <1>3, <1>4, <2>2
  <2>3. CASE /\ ~finished /\ UNCHANGED finished
             /\ Len(accepted) < Len(accepted')
             /\ \A i \in 1 .. Len(accepted) : accepted'[i] = accepted[i]
    <3> DEFINE m == ChunkBytes * Len(accepted)
               n == ChunkBytes * Len(accepted')
    <3>1. m \in Nat /\ n \in Nat /\ m < n
      BY <1>0, <2>3, UploadPathAssumption, MoreChunks
    <3> HIDE DEF m, n
    <3>2. /\ PathPromise!IsPrefixOf(BytesOf(accepted, m), BytesOf(accepted', n))
          /\ BytesOf(accepted, m) # BytesOf(accepted', n)
      <4>1. m <= ChunkBytes * Len(accepted) /\ n <= ChunkBytes * Len(accepted')
        BY <3>1 DEF m, n
      <4>2. m <= n /\ m # n /\ Len(accepted) <= Len(accepted')
        BY <1>0, <2>3, <3>1
      <4>3. \A i \in 1 .. Len(accepted) : accepted[i] = accepted'[i]
        BY <2>3
      <4>4. accepted \in Seq(Channel!Data) /\ accepted' \in Seq(Channel!Data)
        BY <1>0
      <4> QED
        BY <3>1, <4>1, <4>2, <4>3, <4>4, BytesContinue
    <3>3. PathPromise!IsPrefixOf(all, all') /\ all # all'
      BY <3>2 DEF m, n, BytesOf, Byte
    <3>4. PathPromise!Add
      BY <1>4, <2>1, <2>3, <3>3 DEF PathPromise!Add, BytesOf, Finished
    <3> QED
      BY <3>4 DEF PathPromise!Next
  <2>4. CASE ~finished /\ finished' /\ UNCHANGED accepted
    <3>1. UNCHANGED all
      BY <2>4 DEF BytesOf, Byte
    <3>2. PathPromise!AskEnd
      BY <1>4, <2>1, <2>4, <3>1 DEF PathPromise!AskEnd, BytesOf, Finished
    <3> QED
      BY <3>2 DEF PathPromise!Next
  <2> QED
    BY <2>2, <2>3, <2>4, ProducerEffect
<1> USE DEF shared, writer, counts
<1>5. ASSUME \/ PumpTakesData \/ PumpTakesFinish \/ PumpTakesError \/ PumpTrailerFails
             \/ ExchangeEnds \/ ProducerStep
      PROVE  [PathPromise!Next]_PathPromise!vars
  BY <1>4, <1>5 DEF PumpTakesData, PumpTakesFinish, PumpTakesError, PumpTrailerFails,
     ExchangeEnds, ProducerStep, vars
<1>6. ASSUME \/ PumpWrites \/ PumpWritten \/ PumpWriteFails \/ PumpAppendsTrailer
             \/ PumpShutsDown \/ PumpAwaitsShutdown
      PROVE  [PathPromise!Next]_PathPromise!vars
  BY <1>4, <1>6 DEF PumpWrites, PumpWritten, PumpWriteFails, PumpAppendsTrailer,
     PumpShutsDown, PumpAwaitsShutdown, Write, WriteAccepted, WriteFails, SetTrailer,
     Shutdown, ShutdownWindowFails, ShutdownWindowDone, ShutdownJoins, vars
<1>7. ASSUME PumpDropsCall \/ PumpDrops PROVE [PathPromise!Next]_PathPromise!vars
  BY <1>4, <1>7 DEF PumpDropsCall, PumpDrops, DropCall, Drop, CancelUpload
<1>8. ASSUME UNCHANGED pathVars PROVE [PathPromise!Next]_PathPromise!vars
  BY <1>4, <1>8 DEF pathVars, vars
<1>9. ASSUME StreamStep PROVE [PathPromise!Next]_PathPromise!vars
  <2>1. UNCHANGED <<accepted, delivered, finished, outcome, fields>>
    BY <1>9 DEF StreamStep, uploadVars
  <2>2. UNCHANGED all
    BY <2>1 DEF BytesOf, Byte
  <2>3. ASSUME TaskSends PROVE [PathPromise!Next]_PathPromise!vars
    <3>1. /\ task = "sending" /\ sent <= sent' /\ sent # sent' /\ UNCHANGED <<task, sentTrailers>>
      BY <2>3, RequestWriterAssumption DEF TaskSends, PathInv, WriterInv, TypeOK
    <3>2. /\ sent \in Nat /\ sent' \in Nat /\ sent <= ChunkBytes * Len(delivered)
          /\ sent' <= ChunkBytes * Len(delivered) /\ sent' <= ChunkBytes * Len(accepted)
          /\ ChunkBytes * Len(accepted) \in Nat
      BY <1>1, <2>1 DEF SentBytes
    <3>3. /\ PathPromise!IsPrefixOf(BytesOf(delivered, sent), BytesOf(delivered, sent'))
          /\ BytesOf(delivered, sent) # BytesOf(delivered, sent')
      <4>1. Len(delivered) <= Len(delivered) /\ \A i \in 1 .. Len(delivered) : delivered[i] = delivered[i]
        BY <1>0
      <4> QED
        BY <1>0, <3>1, <3>2, <4>1, BytesContinue
    <3>4. PathPromise!IsPrefixOf(BytesOf(delivered, sent'), all)
      <4>1. /\ Len(delivered) <= Len(accepted)
            /\ \A i \in 1 .. Len(delivered) : delivered[i] = accepted[i]
        BY ChannelTypes DEF PathInv
      <4>2. ChunkBytes * Len(accepted) <= ChunkBytes * Len(accepted)
        BY <3>2
      <4> QED
        BY <1>0, <3>2, <4>1, <4>2, BytesContinue
    <3>5. given' = BytesOf(delivered, sent')
      BY <2>1 DEF BytesOf, Byte
    <3>6. PathPromise!Deliver
      BY <2>1, <2>2, <3>1, <3>3, <3>4, <3>5 DEF PathPromise!Deliver, BytesOf, Finished
    <3> QED
      BY <3>6 DEF PathPromise!Next
  <2>4. ASSUME TaskReadsEnd PROVE [PathPromise!Next]_PathPromise!vars
    <3>1. task = "sending" /\ task' = "finishing" /\ UNCHANGED sent
      BY <2>4 DEF TaskReadsEnd
    <3> QED
      BY <1>2, <2>1, <2>2, <3>1 DEF PathPromise!vars, BytesOf, Finished
  <2>5. ASSUME TaskFinishes PROVE [PathPromise!Next]_PathPromise!vars
    <3>1. /\ task = "finishing" /\ task' = "ok" /\ UNCHANGED <<sent, sentTrailers>>
          /\ ended /\ buffered = 0 /\ sentTrailers = trailers
      BY <2>5 DEF TaskFinishes, PathInv, WriterInv
    <3>2. outcome = "eof" /\ rest = 0 /\ trailers = fields
      BY <3>1 DEF PathInv, GlueInv
    <3>3. finished /\ delivered = accepted
      BY <3>2, ChannelTypes DEF PathInv
    <3>4. sent = ChunkBytes * Len(delivered)
      <4>1. sent + 0 = written /\ written + 0 = ChunkBytes * Len(delivered)
        BY <3>1, <3>2 DEF PathInv, WriterInv, GlueInv
      <4> QED
        BY <1>1, <4>1 DEF SentBytes
    <3>5. given = all
      BY <3>3, <3>4
    <3>6. UNCHANGED given
      BY <1>2, <3>1
    <3>7. PathPromise!End
      BY <2>1, <2>2, <3>1, <3>2, <3>3, <3>5, <3>6 DEF PathPromise!End, BytesOf, Finished
    <3> QED
      BY <3>7 DEF PathPromise!Next
  <2>6. ASSUME TaskFails \/ TaskAborts PROVE [PathPromise!Next]_PathPromise!vars
    <3>1. ~Finished /\ task' \in {"error", "aborted"} /\ task # "ok" /\ UNCHANGED sent
      BY <2>6 DEF TaskFails, TaskAborts, Finished
    <3>2. UNCHANGED given
      BY <1>2, <3>1
    <3>3. PathPromise!Fail
      BY <2>1, <2>2, <3>1, <3>2 DEF PathPromise!Fail, BytesOf, Finished
    <3> QED
      BY <3>3 DEF PathPromise!Next
  <2>7. ASSUME ResponseFails PROVE [PathPromise!Next]_PathPromise!vars
    BY <1>4, <2>1, <2>7 DEF ResponseFails
  <2> QED
    BY <1>9, <2>3, <2>4, <2>5, <2>6, <2>7 DEF StreamStep
<1> QED
  BY <1>5, <1>6, <1>7, <1>8, <1>9 DEF PathNext, PumpStep

\* From the producers to the stream, for any window, chunk size, queue and number of
\* producers: the stream ends cleanly only when every byte of every send that began,
\* and the trailers, are on it, whatever is cancelled, dropped, or fails on either
\* side (client.rs exchange, stream.rs, request.rs).
THEOREM PathImplements == PathSpec => PathIsBodyStream
<1>1. PathInit => PathInv
  <2> SUFFICES ASSUME PathInit PROVE PathInv
    OBVIOUS
  <2>1. WriterInv
    BY WriterStarts DEF PathInit
  <2>2. Channel!IndInv
    BY SameChannel, ChannelAssumptions, Channel!Starts DEF PathInit
  <2>3. GlueInv
    BY UploadPathAssumption DEF PathInit, Init, Upload!Init, GlueInv
  <2> QED
    BY <2>1, <2>2, <2>3 DEF PathInv
<1>2. PathInv /\ [PathNext]_pathVars => PathInv'
  BY PathStepKeeps
<1>3. PathInit => PathPromise!Init
  <2> SUFFICES ASSUME PathInit PROVE PathPromise!Init
    OBVIOUS
  <2>1. sent = 0 /\ ~Finished
    BY DEF PathInit, Init, Finished
  <2>2. [k \in 1 .. sent |-> Byte(delivered, k)] = <<>>
    BY <2>1
  <2>3. (CASE ~Finished -> "open" [] task = "ok" -> "eof" [] OTHER -> "failed") = "open"
    BY <2>1 DEF Finished
  <2> QED
    BY <2>2, <2>3 DEF PathPromise!Init
<1>4. PathInv /\ PathInv' /\ [PathNext]_pathVars => [PathPromise!Next]_PathPromise!vars
  BY PathPromiseStep
<1> QED
  BY <1>1, <1>2, <1>3, <1>4, PTL DEF PathSpec, PathIsBodyStream, PathPromise!Spec

-----------------------------------------------------------------------------
\* The request at the server.

\* Hosts in lower case.
LEMMA LowerFacts ==
  ASSUME NEW h
  PROVE  /\ DOMAIN Serve!Lower(h) = DOMAIN h
         /\ \A i \in DOMAIN h : Serve!Lower(h)[i] # "BOB"
         /\ \A i \in DOMAIN h : h[i] # "BOB" => Serve!Lower(h)[i] = h[i]
         /\ \A i \in DOMAIN h : h[i] = "BOB" => Serve!Lower(h)[i] = "bob"
         /\ Serve!Lower(Serve!Lower(h)) = Serve!Lower(h)
<1> DEFINE l == Serve!Lower(h)
<1>1. l = [i \in DOMAIN h |-> IF h[i] = "BOB" THEN "bob" ELSE h[i]]
  BY DEF Serve!Lower
<1>2. /\ DOMAIN l = DOMAIN h
      /\ \A i \in DOMAIN h : l[i] # "BOB"
      /\ \A i \in DOMAIN h : h[i] # "BOB" => l[i] = h[i]
      /\ \A i \in DOMAIN h : h[i] = "BOB" => l[i] = "bob"
  BY <1>1
<1>3. l = [i \in DOMAIN l |-> l[i]]
  BY <1>1
<1> HIDE DEF l
<1>4. Serve!Lower(l) = [i \in DOMAIN l |-> l[i]]
  BY <1>2 DEF Serve!Lower
<1> QED
  BY <1>2, <1>3, <1>4 DEF l

\* A sequence in lower case is one of the same length.
LEMMA LowerSeq ==
  ASSUME NEW T, NEW h \in Seq(T)
  PROVE  Serve!Lower(h) \in Seq(T \cup {"bob"}) /\ Len(Serve!Lower(h)) = Len(h)
<1>1. DOMAIN h = 1 .. Len(h) /\ Len(h) \in Nat /\ \A i \in 1 .. Len(h) : h[i] \in T
  OBVIOUS
<1>2. Serve!Lower(h) = [i \in 1 .. Len(h) |-> IF h[i] = "BOB" THEN "bob" ELSE h[i]]
  BY <1>1 DEF Serve!Lower
<1>3. Serve!Lower(h) \in [1 .. Len(h) -> T \cup {"bob"}]
  BY <1>1, <1>2
<1> QED
  BY <1>1, <1>3

\* The last part tells whether a host ends with the root label or the suffix.
LEMMA LastPart ==
  ASSUME NEW T, NEW h \in Seq(T)
  PROVE  /\ Serve!IsSuffix(<<".">>, h) <=> h # <<>> /\ h[Len(h)] = "."
         /\ Serve!HasSuffix(h) => h # <<>> /\ h[Len(h)] = "dhttp.net"
<1>1. Serve!IsSuffix(<<".">>, h) <=> h # <<>> /\ h[Len(h)] = "."
  BY DEF Serve!IsSuffix, Serve!IsPrefix, Serve!Reverse
<1>2. Serve!HasSuffix(h) => h # <<>> /\ h[Len(h)] = "dhttp.net"
  BY DEF Serve!HasSuffix, Serve!Suffix, Serve!IsSuffix, Serve!IsPrefix, Serve!Reverse
<1> QED
  BY <1>1, <1>2

\* Labels do not depend on the case.
LEMMA LabelsLower ==
  ASSUME NEW T, NEW h \in Seq(T), Serve!Labels(h)
  PROVE  Serve!Labels(Serve!Lower(h))
<1> DEFINE l == Serve!Lower(h)
<1>0. /\ h # <<>> /\ ~Serve!IsPrefix(<<".">>, h) /\ ~Serve!IsSuffix(<<".">>, h)
      /\ \A i \in 1 .. Len(h) - 1 : <<h[i], h[i + 1]>> # <<".", ".">>
      /\ \A i \in DOMAIN h : h[i] \notin {"~", "_"}
  BY DEF Serve!Labels
<1>1. /\ l \in Seq(T \cup {"bob"}) /\ Len(l) = Len(h) /\ Len(h) \in Nat
      /\ DOMAIN h = 1 .. Len(h) /\ DOMAIN l = 1 .. Len(h)
  <2>1. l \in Seq(T \cup {"bob"}) /\ Len(l) = Len(h)
    BY LowerSeq
  <2> HIDE DEF l
  <2> QED
    BY <2>1
<1>2. \A i \in 1 .. Len(h) : l[i] = h[i] \/ (h[i] = "BOB" /\ l[i] = "bob")
  BY <1>1, LowerFacts
<1> HIDE DEF l
<1>3. Len(h) > 0 /\ l # <<>>
  <2>1. h # <<>>
    BY <1>0
  <2>2. Len(h) > 0
    BY <2>1
  <2> QED
    BY <1>1, <2>2
<1>4. ~Serve!IsPrefix(<<".">>, l)
  <2>1. h[1] # "."
    <3>1. ~Serve!IsPrefix(<<".">>, h)
      BY <1>0
    <3> QED
      BY <1>3, <3>1 DEF Serve!IsPrefix
  <2>2. l[1] # "."
    BY <1>1, <1>2, <1>3, <2>1
  <2> QED
    BY <1>1, <1>3, <2>2 DEF Serve!IsPrefix
<1>5. ~Serve!IsSuffix(<<".">>, l)
  <2>1. h[Len(h)] # "."
    BY <1>0, LastPart
  <2>2. l[Len(l)] # "."
    BY <1>1, <1>2, <1>3, <2>1
  <2> QED
    BY <1>1, <2>2, LastPart
<1>6. \A i \in 1 .. Len(l) - 1 : <<l[i], l[i + 1]>> # <<".", ".">>
  <2>1. \A i \in 1 .. Len(h) - 1 : i \in 1 .. Len(h) /\ i + 1 \in 1 .. Len(h)
    BY <1>1
  <2>2. ASSUME NEW i \in 1 .. Len(h) - 1 PROVE l[i] # "." \/ l[i + 1] # "."
    <3>1. h[i] # "." \/ h[i + 1] # "."
      BY <1>0
    <3> QED
      BY <1>2, <2>1, <3>1
  <2> QED
    BY <1>1, <2>2
<1>7. \A i \in DOMAIN l : l[i] \notin {"~", "_"}
  BY <1>0, <1>1, <1>2
<1> QED
  BY <1>3, <1>4, <1>5, <1>6, <1>7 DEF l, Serve!Labels

\* What a client has sent, expanded: the server it was routed to takes it for its own.
LEMMA RoutedIsOwn ==
  ASSUME NEW h \in Host, NEW base \in Bases, Serve!RemoteName(base, h) # Nothing
  PROVE  Serve!IsOwn(Serve!RemoteName(base, h), Serve!ExpandWithBase(base, h))
<1> DEFINE s == Serve!ExpandWithBase(base, h)
           n == Serve!RemoteName(base, h)
<1>1. s # Nothing /\ Serve!Labels(Serve!NoRoot(s)) /\ n = Serve!Lower(Serve!NoRoot(s))
  BY DEF Serve!RemoteName
\* An expansion is valid and in lower case; ...
<1>2. CASE h # <<"~">> /\ "~" \in Serve!Range(h)
  <2>1. s = Serve!Canonical(Serve!Expand(h))
    BY <1>2 DEF Serve!ExpandWithBase
  <2>2. s = Serve!Lower(Serve!Expand(h)) /\ Serve!ValidName(s)
    BY <1>1, <2>1 DEF Serve!Canonical
  <2>3. Serve!Lower(s) = s
    BY <2>2, LowerFacts
  <2> HIDE DEF s
  <2>4. ~Serve!IsSuffix(<<".">>, s) /\ \A i \in DOMAIN s : s[i] # "~"
    BY <2>2 DEF Serve!ValidName, Serve!Labels
  <2>5. s # <<"~">> /\ "~" \notin Serve!Range(s)
    <3>1. "~" \notin Serve!Range(s)
      BY <2>4 DEF Serve!Range
    <3>2. s # <<"~">>
      BY <2>4
    <3> QED
      BY <3>1, <3>2
  <2>6. Serve!ExpandWithBase(n, s) = s
    BY <2>2, <2>3, <2>5 DEF Serve!ExpandWithBase, Serve!Canonical
  <2>7. Serve!NoRoot(s) = s
    BY <2>4 DEF Serve!NoRoot
  <2>8. Serve!IsOwn(n, s)
    BY <1>1, <2>3, <2>6, <2>7 DEF Serve!IsOwn
  <2> QED
    BY <2>8 DEF s
\* ... every other host stays a sequence of the parts it was sent as.
<1>3. CASE h = <<"~">> \/ "~" \notin Serve!Range(h)
  <2> DEFINE T == STRING \cup {"bob", ".", "dhttp.net"}
  <2>1. h \in Seq(STRING) /\ (base # Nothing => base \in Seq(STRING))
    BY RequestAssumption
  <2>2. ASSUME h = <<"~">> PROVE s \in Seq(T)
    <3>1. s = base \/ (base # Nothing /\ s = base \o Serve!Suffix)
      BY <2>2 DEF Serve!ExpandWithBase
    <3>2. base # Nothing
      BY <1>1, <3>1
    <3>3. base \in Seq(T) /\ base \o Serve!Suffix \in Seq(T)
      <4>1. base \in Seq(T)
        BY <2>1, <3>2
      <4>2. Serve!Suffix \in Seq(T)
        BY DEF Serve!Suffix
      <4> HIDE DEF T
      <4> QED
        BY <4>1, <4>2
    <3> QED
      BY <3>1, <3>3
  <2>3. ASSUME h # <<"~">>, "~" \notin Serve!Range(h) PROVE s \in Seq(T)
    <3>1. s = h \/ s = Serve!Canonical(h)
      BY <2>3 DEF Serve!ExpandWithBase
    <3>2. h \in Seq(T) /\ Serve!Lower(h) \in Seq(T)
      <4>1. Serve!Lower(h) \in Seq(STRING \cup {"bob"})
        BY <2>1, LowerSeq
      <4> QED
        BY <2>1, <4>1
    <3> QED
      BY <1>1, <3>1, <3>2 DEF Serve!Canonical
  <2>4. s \in Seq(T)
    BY <1>3, <2>2, <2>3
  <2> HIDE DEF s, T
  <2>5. \A i \in DOMAIN s : s[i] # "~"
    <3>1. CASE Serve!IsSuffix(<<".">>, s)
      <4>1. s # <<>> /\ s[Len(s)] = "."
        BY <2>4, <3>1, LastPart
      <4>2. Serve!NoRoot(s) = SubSeq(s, 1, Len(s) - 1)
        BY <3>1 DEF Serve!NoRoot, Serve!Front
      <4>3. \A i \in DOMAIN Serve!NoRoot(s) : Serve!NoRoot(s)[i] # "~"
        BY <1>1 DEF Serve!Labels
      <4>4. /\ DOMAIN SubSeq(s, 1, Len(s) - 1) = 1 .. Len(s) - 1
            /\ \A i \in 1 .. Len(s) - 1 : SubSeq(s, 1, Len(s) - 1)[i] = s[i]
        BY <2>4, <4>1
      <4>5. \A i \in 1 .. Len(s) - 1 : s[i] # "~"
        BY <4>2, <4>3, <4>4
      <4> QED
        BY <2>4, <4>1, <4>5
    <3>2. CASE ~Serve!IsSuffix(<<".">>, s)
      BY <1>1, <3>2 DEF Serve!NoRoot, Serve!Labels
    <3> QED
      BY <3>1, <3>2
  <2>6. "~" \notin Serve!Range(s) /\ s # <<"~">>
    <3>1. "~" \notin Serve!Range(s)
      BY <2>5 DEF Serve!Range
    <3>2. s # <<"~">>
      BY <2>5
    <3> QED
      BY <3>1, <3>2
  <2>7. CASE Serve!HasSuffix(Serve!Lower(s))
    <3> DEFINE l == Serve!Lower(s)
    <3>1. l \in Seq(T \cup {"bob"}) /\ Len(l) = Len(s)
      BY <2>4, LowerSeq
    <3>2. l # <<>> /\ l[Len(l)] = "dhttp.net"
      BY <2>7, <3>1, LastPart
    <3>3. s # <<>> /\ s[Len(s)] # "." /\ Len(s) \in DOMAIN l
      <4>1. Len(s) \in 1 .. Len(s) /\ s # <<>>
        BY <2>4, <3>1, <3>2
      <4>2. Len(s) \in DOMAIN s
        BY <2>4, <4>1
      <4>3. s[Len(s)] = "." => l[Len(s)] = "."
        BY <4>2, LowerFacts
      <4> QED
        BY <3>1, <3>2, <4>1, <4>2, <4>3, LowerFacts
    <3>4. Serve!NoRoot(s) = s
      BY <2>4, <3>3, LastPart DEF Serve!NoRoot
    <3>5. Serve!Labels(l)
      BY <1>1, <2>4, <3>4, LabelsLower
    <3>6. Serve!ValidName(l)
      BY <3>1, <3>2, <3>3, <3>5 DEF Serve!ValidName
    <3>7. Serve!Lower(l) = l
      BY LowerFacts
    <3>8. Serve!ExpandWithBase(n, s) = l
      BY <2>6, <2>7, <3>6 DEF Serve!ExpandWithBase, Serve!Canonical
    <3>9. n = l
      BY <1>1, <3>4
    <3>10. Serve!NoRoot(l) = l
      <4>1. ~Serve!IsSuffix(<<".">>, l)
        BY <3>5 DEF Serve!Labels
      <4> QED
        BY <4>1 DEF Serve!NoRoot
    <3>11. Serve!IsOwn(n, s)
      BY <3>7, <3>8, <3>9, <3>10 DEF Serve!IsOwn
    <3> QED
      BY <3>11 DEF s
  <2>8. CASE ~Serve!HasSuffix(Serve!Lower(s))
    <3>1. Serve!ExpandWithBase(n, s) = s
      BY <2>6, <2>8 DEF Serve!ExpandWithBase
    <3>2. Serve!IsOwn(n, s)
      BY <1>1, <3>1 DEF Serve!IsOwn
    <3> QED
      BY <3>2 DEF s
  <2> QED
    BY <2>7, <2>8
<1> QED
  BY <1>2, <1>3

Flags == /\ userinfo \in BOOLEAN /\ head \in BOOLEAN /\ refused \in BOOLEAN
         /\ held \in BOOLEAN /\ complete \in BOOLEAN /\ broken \in BOOLEAN

\* The server takes the request for its own as long as it has not looked; the body
\* ends only once there is a response; and the peer knows how it ended exactly when
\* handle_request is done or the peer itself has stopped it.
ServeInv ==
    /\ Serve!TypeOK /\ Flags
    /\ phase = "read" => Serve!IsOwn(name, host)
    /\ phase = "misdirected" => userinfo
    /\ phase \in {"read", "ready", "call", "handle"} => ~complete
    /\ phase # "done" => answer = Nothing /\ (declined = Nothing => seen = "open")
    /\ phase = "done" => seen # "open" /\ ~held
    /\ declined # Nothing => seen # "open"
    /\ answer = "ok" => seen = "eof" \/ declined = "NoError"

\* A request that was routed to the server starts like that.
LEMMA ServeStarts == Serve!Init => ServeInv
<1> SUFFICES ASSUME Serve!Init PROVE ServeInv
  OBVIOUS
<1>1. PICK h \in Host, base \in Bases :
        /\ Serve!RemoteName(base, h) # Nothing
        /\ host = Serve!ExpandWithBase(base, h) /\ name = Serve!RemoteName(base, h)
  BY DEF Serve!Init
<1>2. Serve!IsOwn(name, host)
  BY <1>1, RoutedIsOwn
<1>3. Flags
  BY DEF Serve!Init, Flags
<1>4. /\ phase = "read" /\ produced = 0 /\ arrived = 0 /\ seen = "open" /\ answer = Nothing
      /\ declined = Nothing /\ ~complete
  BY DEF Serve!Init
<1>5. Serve!TypeOK
  BY <1>4, RequestAssumption DEF Serve!TypeOK
<1> QED
  BY <1>2, <1>3, <1>4, <1>5, RequestAssumption DEF ServeInv

\* The guard around the writer leaves nothing open.
LEMMA ResetKeeps ==
  ASSUME ServeInv, Serve!Reset
  PROVE  ServeInv'
<1>1. Flags'
  BY DEF ServeInv, Serve!Reset, Flags, Serve!request, Serve!bodyVars
<1> QED
  BY <1>1, RequestAssumption DEF ServeInv, Serve!Reset, Serve!TypeOK, Serve!request,
     Serve!bodyVars

\* Every step of the server, the handler, the peer and the listener keeps that.
LEMMA ServeStep ==
  ASSUME ServeInv, [Serve!Next]_Serve!vars
  PROVE  ServeInv'
<1> USE RequestAssumption DEF Serve!request, Serve!bodyVars
<1>1. ASSUME \/ Serve!RequestMalformed \/ Serve!ServiceClosed \/ Serve!HandlerCancelled
             \/ Serve!BodyCancelled \/ Serve!BodyFails
      PROVE  ServeInv'
  BY <1>1, ResetKeeps DEF Serve!RequestMalformed, Serve!ServiceClosed,
     Serve!HandlerCancelled, Serve!BodyCancelled, Serve!BodyFails
<1>2. ASSUME Serve!RequestRead PROVE ServeInv'
  <2>1. CASE userinfo
    <3>1. /\ phase' = "misdirected" /\ complete'
          /\ UNCHANGED <<userinfo, head, refused, held, produced, broken, declined,
                         arrived, seen, answer>>
      BY <1>2, <2>1 DEF Serve!RequestRead
    <3>2. complete' = TRUE
      BY <1>2, <2>1 DEF Serve!RequestRead
    <3> QED
      BY <1>2, <2>1, <3>1, <3>2 DEF Serve!RequestRead, ServeInv, Flags, Serve!TypeOK
  <2>2. CASE ~userinfo
    <3>1. Serve!IsOwn(name, host)
      BY <1>2 DEF ServeInv, Serve!RequestRead
    <3>2. /\ phase' = "ready" /\ complete' = FALSE
          /\ UNCHANGED <<userinfo, head, refused, held, produced, broken, declined,
                         arrived, seen, answer>>
      BY <1>2, <2>2, <3>1 DEF Serve!RequestRead
    <3> QED
      BY <1>2, <2>2, <3>2 DEF Serve!RequestRead, ServeInv, Flags, Serve!TypeOK
  <2> QED
    BY <2>1, <2>2
<1>3. ASSUME Serve!PollReady PROVE ServeInv'
  BY <1>3 DEF Serve!PollReady, ServeInv, Flags, Serve!TypeOK
<1>4. ASSUME Serve!Register PROVE ServeInv'
  BY <1>4 DEF Serve!Register, ServeInv, Flags, Serve!TypeOK
<1>5. ASSUME Serve!HandlerReturns PROVE ServeInv'
  BY <1>5 DEF Serve!HandlerReturns, ServeInv, Flags, Serve!TypeOK
<1>6. ASSUME Serve!Produces PROVE ServeInv'
  <2>1. /\ phase = "write"
        /\ UNCHANGED <<host, userinfo, name, head, phase, refused, held, declined, arrived,
                       seen, answer>>
    BY <1>6 DEF Serve!Produces
  <2>2. complete' \in BOOLEAN /\ broken' \in BOOLEAN
    BY <1>6 DEF Serve!Produces, ServeInv, Flags
  <2>3. produced' \in 0 .. MaxFrames /\ arrived \in 0 .. produced'
    BY <1>6 DEF Serve!Produces, ServeInv, Serve!TypeOK
  <2>4. Flags' /\ Serve!TypeOK'
    BY <2>1, <2>2, <2>3 DEF ServeInv, Flags, Serve!TypeOK
  <2> QED
    BY <2>1, <2>4 DEF ServeInv
<1>7. ASSUME Serve!WriteFrame PROVE ServeInv'
  BY <1>7 DEF Serve!WriteFrame, ServeInv, Flags, Serve!TypeOK
<1>8. ASSUME Serve!WriteEnd PROVE ServeInv'
  BY <1>8 DEF Serve!WriteEnd, ServeInv, Flags, Serve!TypeOK
<1>9. ASSUME Serve!WriteFails PROVE ServeInv'
  BY <1>9 DEF Serve!WriteFails, Serve!MapStreamError, ServeInv, Flags, Serve!TypeOK
<1>10. ASSUME Serve!PeerStops PROVE ServeInv'
  BY <1>10 DEF Serve!PeerStops, ServeInv, Flags, Serve!TypeOK
<1>11. ASSUME Serve!ListenerCloses PROVE ServeInv'
  BY <1>11 DEF Serve!ListenerCloses, ServeInv, Flags, Serve!TypeOK
<1>12. ASSUME UNCHANGED Serve!vars PROVE ServeInv'
  BY <1>12 DEF Serve!vars, ServeInv, Flags, Serve!TypeOK, Serve!IsOwn
<1> QED
  BY <1>1, <1>2, <1>3, <1>4, <1>5, <1>6, <1>7, <1>8, <1>9, <1>10, <1>11, <1>12 DEF Serve!Next

\* A request is answered for any hosts and client names: what was routed to a server
\* is misdirected only for its user part, and handle_request leaves neither the peer
\* without an end nor the handler's operation registered (endpoint.rs, uri.rs).
THEOREM RequestAnswered == Serve!Spec => []RequestIsAnswered
<1>1. ServeInv => RequestIsAnswered
  BY DEF ServeInv, Serve!TypeOK, RequestIsAnswered, Serve!RequestIsAnswered
<1>2. ServeInv /\ [Serve!Next]_Serve!vars => ServeInv'
  BY ServeStep
<1> QED
  BY <1>1, <1>2, ServeStarts, PTL DEF Serve!Spec

\* Numbered frames: the first m are a prefix of the first n.
LEMMA FramePrefix ==
  ASSUME NEW m \in Nat, NEW n \in Nat, m <= n
  PROVE  /\ Serve!Response!IsPrefixOf([i \in 1 .. m |-> i], [i \in 1 .. n |-> i])
         /\ m # n => [i \in 1 .. m |-> i] # [i \in 1 .. n |-> i]
BY CountPrefix DEF Serve!Response!IsPrefixOf, Promise!IsPrefixOf

\* A step of the server is one of the response it promises, or none.
LEMMA ResponseStep ==
  ASSUME ServeInv, ServeInv', [Serve!Next]_Serve!vars
  PROVE  [Serve!Response!Next]_Serve!Response!vars
<1> DEFINE Goal == [Serve!Response!Next]_Serve!Response!vars
<1> USE DEF Serve!request, Serve!bodyVars
<1>0. /\ produced \in Nat /\ produced' \in Nat /\ arrived \in Nat /\ arrived' \in Nat
      /\ complete \in BOOLEAN /\ complete' \in BOOLEAN
  BY RequestAssumption DEF ServeInv, Serve!TypeOK, Flags
<1>1. ASSUME UNCHANGED <<produced, complete, arrived, seen>> PROVE Goal
  BY <1>1 DEF Serve!Response!vars
<1>2. ASSUME seen = "open", seen' = "failed", UNCHANGED <<produced, complete, arrived>>
      PROVE  Goal
  <2>1. Serve!Response!Fail
    BY <1>2 DEF Serve!Response!Fail
  <2> QED
    BY <2>1 DEF Serve!Response!Next
<1>3. ASSUME ~complete, UNCHANGED <<produced, arrived, seen>> PROVE Goal
  <2>1. CASE complete'
    <3>1. Serve!Response!AskEnd
      BY <1>3, <2>1 DEF Serve!Response!AskEnd
    <3> QED
      BY <3>1 DEF Serve!Response!Next
  <2>2. CASE ~complete'
    <3>1. complete' = complete
      BY <1>0, <1>3, <2>2
    <3> QED
      BY <1>1, <1>3, <3>1
  <2> QED
    BY <2>1, <2>2
<1>4. ASSUME \/ Serve!RequestMalformed \/ Serve!ServiceClosed \/ Serve!HandlerCancelled
             \/ Serve!BodyCancelled \/ Serve!BodyFails
      PROVE  Goal
  <2>1. Serve!Reset
    BY <1>4 DEF Serve!RequestMalformed, Serve!ServiceClosed, Serve!HandlerCancelled,
       Serve!BodyCancelled, Serve!BodyFails
  <2> QED
    BY <1>1, <1>2, <2>1 DEF Serve!Reset
<1>5. ASSUME Serve!RequestRead \/ Serve!HandlerReturns PROVE Goal
  BY <1>3, <1>5 DEF Serve!RequestRead, Serve!HandlerReturns, ServeInv
<1>6. ASSUME Serve!PollReady \/ Serve!Register \/ Serve!ListenerCloses \/ Serve!WriteFails
      PROVE  Goal
  BY <1>1, <1>6 DEF Serve!PollReady, Serve!Register, Serve!ListenerCloses, Serve!WriteFails
<1>7. ASSUME Serve!Produces PROVE Goal
  <2>1. ~complete /\ UNCHANGED <<arrived, seen>>
    BY <1>7 DEF Serve!Produces
  <2>2. CASE produced' = produced + 1 /\ UNCHANGED complete
    <3>1. Serve!Response!Add
      BY <1>0, <2>1, <2>2, FramePrefix DEF Serve!Response!Add
    <3> QED
      BY <3>1 DEF Serve!Response!Next
  <2>3. CASE UNCHANGED produced
    BY <1>3, <2>1, <2>3
  <2> QED
    BY <1>7, <2>2, <2>3 DEF Serve!Produces
<1>8. ASSUME Serve!WriteFrame PROVE Goal
  <2>1. seen = "open"
    BY <1>8 DEF Serve!WriteFrame, ServeInv
  <2>2. arrived' = arrived + 1 /\ arrived < produced /\ UNCHANGED <<produced, complete, seen>>
    BY <1>8 DEF Serve!WriteFrame
  <2>3. arrived <= arrived' /\ arrived # arrived' /\ arrived' <= produced
    BY <1>0, <2>2
  <2>4. Serve!Response!Deliver
    BY <1>0, <2>1, <2>2, <2>3, FramePrefix DEF Serve!Response!Deliver
  <2> QED
    BY <2>4 DEF Serve!Response!Next
<1>9. ASSUME Serve!WriteEnd PROVE Goal
  <2>1. /\ complete /\ arrived = produced /\ seen' = "eof" /\ seen = "open"
        /\ UNCHANGED <<produced, complete, arrived>>
    BY <1>9 DEF Serve!WriteEnd, ServeInv
  <2>2. Serve!Response!End
    BY <2>1 DEF Serve!Response!End
  <2> QED
    BY <2>2 DEF Serve!Response!Next
<1>10. ASSUME Serve!PeerStops PROVE Goal
  BY <1>2, <1>10 DEF Serve!PeerStops
<1>11. ASSUME UNCHANGED Serve!vars PROVE Goal
  BY <1>1, <1>11 DEF Serve!vars
<1> QED
  BY <1>4, <1>5, <1>6, <1>7, <1>8, <1>9, <1>10, <1>11 DEF Serve!Next

\* A response keeps the promise of BodyStream, for any number of frames: one that is
\* cancelled, fails or breaks off never looks complete (server.rs OwnedBody).
THEOREM ResponseImplements == Serve!Spec => ResponseIsBodyStream
<1>1. Serve!Init => Serve!Response!Init
  BY DEF Serve!Init, Serve!Response!Init
<1>2. ServeInv /\ [Serve!Next]_Serve!vars => ServeInv'
  BY ServeStep
<1>3. ServeInv /\ ServeInv' /\ [Serve!Next]_Serve!vars
         => [Serve!Response!Next]_Serve!Response!vars
  BY ResponseStep
<1> QED
  BY <1>1, <1>2, <1>3, ServeStarts, PTL DEF Serve!Spec, ResponseIsBodyStream,
     Serve!ResponseIsBodyStream, Serve!Response!Spec

-----------------------------------------------------------------------------
\* What the run explores: each behaviour is one of the path, or leaves it alone, and
\* one of the server, or leaves that idle.

\* The properties of the run, for every value of its constants.
THEOREM RequestCorrect ==
  MCSpec => PathIsBodyStream /\ ResponseIsBodyStream /\ []RequestIsAnswered
<1> DEFINE Serving == IF part = "serve" THEN ServeInv ELSE ServeIdle
           all == <<part, pathVars, logVars, ruleVars, serveVars>>
<1>1. MCInit => PathInit /\ Serving
  BY ServeStarts DEF MCInit
<1>2. [MCNext]_all => [PathNext]_pathVars
  BY DEF MCNext
<1>3. Serving /\ [MCNext]_all => Serving' /\ [Serve!Response!Next]_Serve!Response!vars
  <2> SUFFICES ASSUME Serving, [MCNext]_all
               PROVE  Serving' /\ [Serve!Response!Next]_Serve!Response!vars
    OBVIOUS
  <2>1. UNCHANGED part
    BY DEF MCNext
  <2>2. CASE part = "serve"
    <3>1. [Serve!Next]_Serve!vars
      BY <2>2 DEF MCNext, serveVars, Serve!vars
    <3> QED
      BY <2>1, <2>2, <3>1, ServeStep, ResponseStep
  <2>3. CASE part # "serve"
    <3>1. UNCHANGED serveVars
      BY <2>3 DEF MCNext
    <3> QED
      BY <2>1, <2>3, <3>1 DEF serveVars, ServeIdle, Serve!Response!vars
  <2> QED
    BY <2>2, <2>3
<1>4. Serving => RequestIsAnswered
  BY RequestAssumption DEF ServeInv, Serve!TypeOK, ServeIdle, RequestIsAnswered, Serve!RequestIsAnswered
<1>5. MCInit => Serve!Response!Init
  BY DEF MCInit, Serve!Init, ServeIdle, Serve!Response!Init
<1>6. MCSpec => PathSpec
  BY <1>1, <1>2, PTL DEF MCSpec, PathSpec
<1> QED
  BY <1>1, <1>3, <1>4, <1>5, <1>6, PathImplements, PTL DEF MCSpec, ResponseIsBodyStream,
     Serve!ResponseIsBodyStream, Serve!Response!Spec

=============================================================================
