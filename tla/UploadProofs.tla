---------------------------- MODULE UploadProofs ----------------------------
(***************************************************************************)
(* The upload channel for any producers, capacity and bounds: UploadBridge *)
(* keeps the promise of BodyStream when no call is dropped while another   *)
(* one is pending, and the pumps of the language SDKs use it as producers  *)
(* may and settle what they began.                                         *)
(***************************************************************************)
EXTENDS LanguagePump, TLAPS

-----------------------------------------------------------------------------
\* Sequences.

\* A prefix, element by element.
LEMMA PrefixByElement ==
  ASSUME NEW S, NEW s \in Seq(S), NEW t \in Seq(S), Len(s) <= Len(t),
         \A i \in 1 .. Len(s) : s[i] = t[i]
  PROVE  Promise!IsPrefixOf(s, t)
BY DEF Promise!IsPrefixOf

\* Sequences with the same elements are the same.
LEMMA SameByElement ==
  ASSUME NEW S, NEW s \in Seq(S), NEW t \in Seq(S), Len(s) = Len(t),
         \A i \in 1 .. Len(s) : s[i] = t[i]
  PROVE  s = t
OBVIOUS

\* The elements of a concatenation.
LEMMA ConcatFacts ==
  ASSUME NEW S, NEW s \in Seq(S), NEW t \in Seq(S)
  PROVE  /\ Len(s \o t) = Len(s) + Len(t)
         /\ \A i \in 1 .. Len(s) : (s \o t)[i] = s[i]
         /\ \A i \in 1 .. Len(t) : (s \o t)[Len(s) + i] = t[i]
OBVIOUS

-----------------------------------------------------------------------------
\* The inductive invariant.

Waiting == {"sendlock", "finishlock"}
Holding == {"send", "finish"}

\* Who holds the mutex, and what it guards.
LockInv ==
    /\ \A w \in Writer : pc[w] \in Holding => mutex = w /\ sender
    /\ finished => ~sender
    /\ gone => \A w \in Writer : pc[w] = "idle"
    /\ outcome = "run" => open

\* Each send call is one producer's, and only the one that sends has pushed a part.
CallInv ==
    /\ \A w \in Writer : call[w] # 0 <=> pc[w] \in {"sendlock", "send"}
    /\ \A w \in Writer : call[w] <= sends
    /\ \A v, w \in Writer : call[v] = call[w] /\ call[v] # 0 => v = w
    /\ \A w \in Writer : pc[w] = "sendlock" => pushed[call[w]] = 0
    /\ \A c \in Call : /\ pushed[c] <= total[c]
                       /\ c > sends => pushed[c] = 0 /\ result[c] = "none"
                       /\ result[c] = "ok" => pushed[c] = total[c]

\* These hold whatever is dropped when.
BaseInv == TypeOK /\ LockInv /\ CallInv

\* A call is dropped when no other one is pending.
DropInv ==
    \A w \in Writer : pc[w] = "dropping" => \A v \in Writer \ {w} : pc[v] = "idle"

\* Every send that began to enter the queue is accepted whole.
AcceptInv ==
    \A c \in Call : pushed[c] > 0 =>
       \A i \in 1 .. total[c] : \E j \in DOMAIN accepted : accepted[j] = <<c, i>>

DeliverInv ==
    /\ Len(delivered) <= Len(accepted)
    /\ \A i \in 1 .. Len(delivered) : delivered[i] = accepted[i]

\* Nothing has failed as far as the consumer can tell.
Flowing == outcome = "run" /\ ~cancelled

Taken == Len(delivered) + Len(queue)

\* What the queue holds comes next.
QueueInv ==
    Flowing =>
       \A i \in 1 .. Len(queue) :
          IF queue[i] = Finish THEN finished /\ i = Len(queue)
          ELSE /\ Len(delivered) + i <= Len(accepted)
               /\ queue[i] = accepted[Len(delivered) + i]

\* What a send has still to push comes after the queue.
PartInv(w) ==
    IF pushed[call[w]] = 0 THEN Len(accepted) = Taken
    ELSE /\ Len(accepted) = Taken + total[call[w]] - pushed[call[w]]
         /\ \A i \in pushed[call[w]] + 1 .. total[call[w]] :
               accepted[Taken + i - pushed[call[w]]] = <<call[w], i>>

\* What has been accepted is delivered, or in the queue, or about to be pushed.
RestInv ==
    Flowing =>
       /\ finished => /\ queue # <<>> /\ queue[Len(queue)] = Finish
                      /\ Len(accepted) = Taken - 1
       /\ ~finished /\ (\A w \in Writer : pc[w] \notin {"send", "dropping"}) =>
             Len(accepted) = Taken
       /\ \A w \in Writer : pc[w] = "send" => PartInv(w)

EofInv == outcome = "eof" => finished /\ delivered = accepted

IndInv ==
    /\ TypeOK /\ LockInv /\ CallInv /\ DropInv /\ AcceptInv /\ DeliverInv
    /\ QueueInv /\ RestInv /\ EofInv

-----------------------------------------------------------------------------
\* The steps, one part of the invariant after another.

Phase == {"idle", "sendlock", "finishlock", "send", "finish", "dropping"}
Result == {"none", "ok", "err", "dropped"}

\* What the sequences hold ...
SeqType ==
    /\ queue \in Seq(Data \cup {Finish})
    /\ delivered \in Seq(Data)
    /\ accepted \in Seq(Data)

\* ... and the calls ...
CallType ==
    /\ mutex \in Writer \cup {NoWriter}
    /\ pc \in [Writer -> Phase]
    /\ call \in [Writer -> 0 .. MaxSends]
    /\ sends \in 0 .. MaxSends
    /\ total \in [Call -> 0 .. MaxChunks]
    /\ pushed \in [Call -> 0 .. MaxChunks]
    /\ result \in [Call -> Result]

\* ... and the flags.
FlagType ==
    /\ sender \in BOOLEAN /\ gone \in BOOLEAN /\ cancelled \in BOOLEAN
    /\ open \in BOOLEAN /\ finished \in BOOLEAN
    /\ error \in {"none", "cancelled", "producer"}
    /\ outcome \in {"run", "eof", "error", "dropped"}

\* The first state has the types, part by part.
LEMMA InitType ==
  ASSUME Init
  PROVE  SeqType /\ CallType /\ FlagType
<1>1. SeqType
  BY DEF Init, SeqType
<1>2. FlagType
  BY DEF Init, FlagType
<1>3. 0 \in 0 .. MaxSends /\ 0 \in 0 .. MaxChunks
  BY UploadAssumption
<1>4. CallType
  BY <1>3 DEF Init, CallType, Phase, Result
<1> QED
  BY <1>1, <1>2, <1>4

\* The type invariant is made of its parts.
LEMMA TypeParts == TypeOK <=> SeqType /\ CallType /\ FlagType
BY DEF TypeOK, SeqType, CallType, FlagType, Phase, Result

\* The call that leaves gives back the mutex and nothing else.
LEMMA LeaveType ==
  ASSUME CallType, NEW w \in Writer, NEW next \in Phase, NEW r \in Result,
         Leave(w, next, r), UNCHANGED <<sends, total, pushed>>
  PROVE  CallType'
<1>1. mutex' \in Writer \cup {NoWriter} /\ pc' \in [Writer -> Phase]
        /\ call' \in [Writer -> 0 .. MaxSends]
  BY UploadAssumption DEF Leave, CallType
<1>2. result' \in [Call -> Result]
  <2>1. call[w] # 0 => call[w] \in Call
    BY UploadAssumption DEF CallType, Call
  <2> QED
    BY <2>1 DEF Leave, CallType
<1> QED
  BY <1>1, <1>2 DEF CallType

\* Every step keeps the types of the flags.
LEMMA FlagStep ==
  ASSUME FlagType, [Next]_vars
  PROVE  FlagType'
<1> USE DEF FlagType, body, state, writers
<1>1. ASSUME NEW w \in Writer, NEW n \in 0 .. MaxChunks, StartSend(w, n) PROVE FlagType'
  BY <1>1 DEF StartSend
<1>2. ASSUME NEW w \in Writer, StartFinish(w) PROVE FlagType'
  BY <1>2 DEF StartFinish
<1>3. ASSUME NEW w \in Writer, Acquire(w) PROVE FlagType'
  BY <1>3 DEF Acquire, Leave
<1>4. ASSUME NEW w \in Writer, PushChunk(w) PROVE FlagType'
  BY <1>4 DEF PushChunk
<1>5. ASSUME NEW w \in Writer, SendReturns(w) PROVE FlagType'
  BY <1>5 DEF SendReturns, Leave
<1>6. ASSUME NEW w \in Writer, FinishReturns(w) PROVE FlagType'
  BY <1>6 DEF FinishReturns, Leave
<1>7. ASSUME NEW w \in Writer, ConsumerClosed(w) PROVE FlagType'
  BY <1>7 DEF ConsumerClosed, Leave
<1>8. ASSUME NEW w \in Writer, CallCancelled(w) PROVE FlagType'
  BY <1>8 DEF CallCancelled, Leave
<1>9. ASSUME NEW w \in Writer, DropCall(w) PROVE FlagType'
  BY <1>9 DEF DropCall, Leave
<1>10. ASSUME NEW w \in Writer, DropGuard(w) PROVE FlagType'
  BY <1>10 DEF DropGuard, Fail
<1>11. ASSUME ProducerFails PROVE FlagType'
  BY <1>11 DEF ProducerFails, Fail
<1>12. ASSUME DropWriter PROVE FlagType'
  BY <1>12 DEF DropWriter
<1>13. ASSUME PollCancelled PROVE FlagType'
  BY <1>13 DEF PollCancelled
<1>14. ASSUME PollData PROVE FlagType'
  BY <1>14 DEF PollData
<1>15. ASSUME PollFinish PROVE FlagType'
  BY <1>15 DEF PollFinish
<1>16. ASSUME PollOrphaned PROVE FlagType'
  BY <1>16 DEF PollOrphaned
<1>17. ASSUME DropBody PROVE FlagType'
  BY <1>17 DEF DropBody
<1>18. ASSUME UNCHANGED vars PROVE FlagType'
  BY <1>18 DEF vars
<1> QED
  BY <1>1, <1>2, <1>3, <1>4, <1>5, <1>6, <1>7, <1>8, <1>9, <1>10, <1>11, <1>12,
     <1>13, <1>14, <1>15, <1>16, <1>17, <1>18 DEF Next, CallStep, Poll

\* Every step keeps the types of the writers and of their calls.
LEMMA CallTypeStep ==
  ASSUME CallType, [Next]_vars
  PROVE  CallType'
<1> USE DEF body, state, writers
<1>1. ASSUME NEW w \in Writer, NEW n \in 0 .. MaxChunks, StartSend(w, n) PROVE CallType'
  BY <1>1, UploadAssumption DEF StartSend, CallType, Phase, Call
<1>2. ASSUME NEW w \in Writer, StartFinish(w) PROVE CallType'
  BY <1>2 DEF StartFinish, CallType, Phase
<1>3. ASSUME NEW w \in Writer, Acquire(w) PROVE CallType'
  <2>1. CASE sender
    BY <1>3, <2>1 DEF Acquire, CallType, Phase
  <2>2. CASE ~sender
    BY <1>3, <2>2, LeaveType DEF Acquire, Phase, Result
  <2> QED
    BY <2>1, <2>2
<1>4. ASSUME NEW w \in Writer, PushChunk(w) PROVE CallType'
  <2>1. /\ UNCHANGED <<mutex, pc, call, sends, total, result>>
        /\ pushed' = [pushed EXCEPT ![call[w]] = @ + 1] /\ pushed[call[w]] < total[call[w]]
    BY <1>4 DEF PushChunk
  <2>2. call[w] \in Call => pushed[call[w]] + 1 \in 0 .. MaxChunks
    BY <2>1, UploadAssumption DEF CallType
  <2> QED
    BY <2>1, <2>2 DEF CallType
<1>5. ASSUME NEW w \in Writer, SendReturns(w) PROVE CallType'
  BY <1>5, LeaveType DEF SendReturns, Phase, Result
<1>6. ASSUME NEW w \in Writer, FinishReturns(w) PROVE CallType'
  BY <1>6, LeaveType DEF FinishReturns, Phase, Result
<1>7. ASSUME NEW w \in Writer, ConsumerClosed(w) PROVE CallType'
  BY <1>7, LeaveType DEF ConsumerClosed, Phase, Result
<1>8. ASSUME NEW w \in Writer, CallCancelled(w) PROVE CallType'
  BY <1>8, LeaveType DEF CallCancelled, Phase, Result
<1>9. ASSUME NEW w \in Writer, DropCall(w) PROVE CallType'
  BY <1>9, LeaveType DEF DropCall, Phase, Result
<1>10. ASSUME NEW w \in Writer, DropGuard(w) PROVE CallType'
  BY <1>10 DEF DropGuard, CallType, Phase
<1>11. ASSUME ProducerFails PROVE CallType'
  BY <1>11 DEF ProducerFails, Fail, CallType
<1>12. ASSUME DropWriter PROVE CallType'
  BY <1>12 DEF DropWriter, CallType
<1>13. ASSUME PollCancelled PROVE CallType'
  BY <1>13 DEF PollCancelled, CallType
<1>14. ASSUME PollData PROVE CallType'
  BY <1>14 DEF PollData, CallType
<1>15. ASSUME PollFinish PROVE CallType'
  BY <1>15 DEF PollFinish, CallType
<1>16. ASSUME PollOrphaned PROVE CallType'
  BY <1>16 DEF PollOrphaned, CallType
<1>17. ASSUME DropBody PROVE CallType'
  BY <1>17 DEF DropBody, CallType
<1>18. ASSUME UNCHANGED vars PROVE CallType'
  BY <1>18 DEF vars, CallType
<1> QED
  BY <1>1, <1>2, <1>3, <1>4, <1>5, <1>6, <1>7, <1>8, <1>9, <1>10, <1>11, <1>12,
     <1>13, <1>14, <1>15, <1>16, <1>17, <1>18 DEF Next, CallStep, Poll

\* Every step keeps the types of the sequences of chunks.
LEMMA SeqStep ==
  ASSUME SeqType, CallType, CallInv, [Next]_vars
  PROVE  SeqType'
<1> USE DEF SeqType, body, state, writers
<1>1. ASSUME NEW w \in Writer, NEW n \in 0 .. MaxChunks, StartSend(w, n) PROVE SeqType'
  BY <1>1 DEF StartSend
<1>2. ASSUME NEW w \in Writer, StartFinish(w) PROVE SeqType'
  BY <1>2 DEF StartFinish
<1>3. ASSUME NEW w \in Writer, Acquire(w) PROVE SeqType'
  BY <1>3 DEF Acquire, Leave
<1>4. ASSUME NEW w \in Writer, PushChunk(w) PROVE SeqType'
  <2> DEFINE c == call[w]
  <2>0. c \in Call /\ pushed[c] < total[c]
    BY <1>4, UploadAssumption DEF PushChunk, CallInv, CallType, Call
  <2>1. pushed[c] + 1 \in 1 .. MaxChunks /\ total[c] \in 0 .. MaxChunks
    BY <2>0, UploadAssumption DEF CallType
  <2>2. <<c, pushed[c] + 1>> \in Data /\ Chunks(c) \in Seq(Data)
    <3>1. \A i \in 1 .. total[c] : <<c, i>> \in Data
      BY <2>0, <2>1, UploadAssumption DEF Data
    <3>2. \A i \in 1 .. MaxChunks : <<c, i>> \in Data
      BY <2>0 DEF Data
    <3>3. Chunks(c) \in [1 .. total[c] -> Data] /\ total[c] \in Nat
      BY <2>1, <3>1, UploadAssumption DEF Chunks
    <3>4. Chunks(c) \in Seq(Data)
      <4> DEFINE n == total[c]
      <4> HIDE DEF n
      <4>1. Chunks(c) \in [1 .. n -> Data] /\ n \in Nat
        BY <3>3 DEF n
      <4> QED
        BY <4>1
    <3> QED
      BY <2>1, <3>2, <3>4
  <2> QED
    BY <1>4, <2>2 DEF PushChunk
<1>5. ASSUME NEW w \in Writer, SendReturns(w) PROVE SeqType'
  BY <1>5 DEF SendReturns, Leave
<1>6. ASSUME NEW w \in Writer, FinishReturns(w) PROVE SeqType'
  BY <1>6 DEF FinishReturns, Leave
<1>7. ASSUME NEW w \in Writer, ConsumerClosed(w) PROVE SeqType'
  BY <1>7 DEF ConsumerClosed, Leave
<1>8. ASSUME NEW w \in Writer, CallCancelled(w) PROVE SeqType'
  BY <1>8 DEF CallCancelled, Leave
<1>9. ASSUME NEW w \in Writer, DropCall(w) PROVE SeqType'
  BY <1>9 DEF DropCall, Leave
<1>10. ASSUME NEW w \in Writer, DropGuard(w) PROVE SeqType'
  BY <1>10 DEF DropGuard, Fail
<1>11. ASSUME ProducerFails PROVE SeqType'
  BY <1>11 DEF ProducerFails, Fail
<1>12. ASSUME DropWriter PROVE SeqType'
  BY <1>12 DEF DropWriter
<1>13. ASSUME PollCancelled PROVE SeqType'
  BY <1>13 DEF PollCancelled
<1>14. ASSUME PollData PROVE SeqType'
  <2>1. Head(queue) \in Data /\ Tail(queue) \in Seq(Data \cup {Finish})
    BY <1>14 DEF PollData
  <2> QED
    BY <1>14, <2>1 DEF PollData
<1>15. ASSUME PollFinish PROVE SeqType'
  BY <1>15 DEF PollFinish
<1>16. ASSUME PollOrphaned PROVE SeqType'
  BY <1>16 DEF PollOrphaned
<1>17. ASSUME DropBody PROVE SeqType'
  BY <1>17 DEF DropBody
<1>18. ASSUME UNCHANGED vars PROVE SeqType'
  BY <1>18 DEF vars
<1> QED
  BY <1>1, <1>2, <1>3, <1>4, <1>5, <1>6, <1>7, <1>8, <1>9, <1>10, <1>11, <1>12,
     <1>13, <1>14, <1>15, <1>16, <1>17, <1>18 DEF Next, CallStep, Poll

\* Every step keeps the type invariant.
LEMMA TypeStep ==
  ASSUME BaseInv, [Next]_vars
  PROVE  TypeOK'
<1>1. (SeqType /\ CallType /\ FlagType)'
  BY TypeParts, FlagStep, CallTypeStep, SeqStep DEF BaseInv
<1> QED
  BY <1>1 DEF TypeOK, SeqType, CallType, FlagType, Phase, Result

\* Every step keeps the mutex with the one call that is inside.
LEMMA LockStep ==
  ASSUME BaseInv, [Next]_vars
  PROVE  LockInv'
<1> USE UploadAssumption DEF BaseInv, TypeOK, LockInv, Holding, body, state, writers
<1>1. ASSUME NEW w \in Writer, NEW n \in 0 .. MaxChunks, StartSend(w, n) PROVE LockInv'
  BY <1>1 DEF StartSend
<1>2. ASSUME NEW w \in Writer, StartFinish(w) PROVE LockInv'
  BY <1>2 DEF StartFinish
<1>3. ASSUME NEW w \in Writer, Acquire(w) PROVE LockInv'
  BY <1>3 DEF Acquire, Leave
<1>4. ASSUME NEW w \in Writer, PushChunk(w) PROVE LockInv'
  BY <1>4 DEF PushChunk
<1>5. ASSUME NEW w \in Writer, SendReturns(w) PROVE LockInv'
  BY <1>5 DEF SendReturns, Leave
<1>6. ASSUME NEW w \in Writer, FinishReturns(w) PROVE LockInv'
  BY <1>6 DEF FinishReturns, Leave
<1>7. ASSUME NEW w \in Writer, ConsumerClosed(w) PROVE LockInv'
  BY <1>7 DEF ConsumerClosed, Leave
<1>8. ASSUME NEW w \in Writer, CallCancelled(w) PROVE LockInv'
  BY <1>8 DEF CallCancelled, Leave
<1>9. ASSUME NEW w \in Writer, DropCall(w) PROVE LockInv'
  BY <1>9 DEF DropCall, Leave
<1>10. ASSUME NEW w \in Writer, DropGuard(w) PROVE LockInv'
  BY <1>10 DEF DropGuard, Fail
<1>11. ASSUME ProducerFails PROVE LockInv'
  BY <1>11 DEF ProducerFails, Fail
<1>12. ASSUME DropWriter PROVE LockInv'
  BY <1>12 DEF DropWriter
<1>13. ASSUME PollCancelled PROVE LockInv'
  BY <1>13 DEF PollCancelled
<1>14. ASSUME PollData PROVE LockInv'
  BY <1>14 DEF PollData
<1>15. ASSUME PollFinish PROVE LockInv'
  BY <1>15 DEF PollFinish
<1>16. ASSUME PollOrphaned PROVE LockInv'
  BY <1>16 DEF PollOrphaned
<1>17. ASSUME DropBody PROVE LockInv'
  BY <1>17 DEF DropBody
<1>18. ASSUME UNCHANGED vars PROVE LockInv'
  BY <1>18 DEF vars
<1> QED
  BY <1>1, <1>2, <1>3, <1>4, <1>5, <1>6, <1>7, <1>8, <1>9, <1>10, <1>11, <1>12,
     <1>13, <1>14, <1>15, <1>16, <1>17, <1>18 DEF Next, CallStep, Poll

\* Every step leaves a call that is being dropped alone.
LEMMA DropStep ==
  ASSUME ~DropsRace, IndInv, [Next]_vars
  PROVE  DropInv'
<1> USE UploadAssumption DEF IndInv, TypeOK, DropInv, MayStart, body, state, writers
<1>1. ASSUME NEW w \in Writer, NEW n \in 0 .. MaxChunks, StartSend(w, n) PROVE DropInv'
  BY <1>1 DEF StartSend
<1>2. ASSUME NEW w \in Writer, StartFinish(w) PROVE DropInv'
  BY <1>2 DEF StartFinish
<1>3. ASSUME NEW w \in Writer, Acquire(w) PROVE DropInv'
  BY <1>3 DEF Acquire, Leave
<1>4. ASSUME NEW w \in Writer, PushChunk(w) PROVE DropInv'
  BY <1>4 DEF PushChunk
<1>5. ASSUME NEW w \in Writer, SendReturns(w) PROVE DropInv'
  BY <1>5 DEF SendReturns, Leave
<1>6. ASSUME NEW w \in Writer, FinishReturns(w) PROVE DropInv'
  BY <1>6 DEF FinishReturns, Leave
<1>7. ASSUME NEW w \in Writer, ConsumerClosed(w) PROVE DropInv'
  BY <1>7 DEF ConsumerClosed, Leave
<1>8. ASSUME NEW w \in Writer, CallCancelled(w) PROVE DropInv'
  BY <1>8 DEF CallCancelled, Leave
<1>9. ASSUME NEW w \in Writer, DropCall(w) PROVE DropInv'
  BY <1>9 DEF DropCall, Leave
<1>10. ASSUME NEW w \in Writer, DropGuard(w) PROVE DropInv'
  BY <1>10 DEF DropGuard, Fail
<1>11. ASSUME ProducerFails PROVE DropInv'
  BY <1>11 DEF ProducerFails, Fail
<1>12. ASSUME DropWriter PROVE DropInv'
  BY <1>12 DEF DropWriter
<1>13. ASSUME PollCancelled PROVE DropInv'
  BY <1>13 DEF PollCancelled
<1>14. ASSUME PollData PROVE DropInv'
  BY <1>14 DEF PollData
<1>15. ASSUME PollFinish PROVE DropInv'
  BY <1>15 DEF PollFinish
<1>16. ASSUME PollOrphaned PROVE DropInv'
  BY <1>16 DEF PollOrphaned
<1>17. ASSUME DropBody PROVE DropInv'
  BY <1>17 DEF DropBody
<1>18. ASSUME UNCHANGED vars PROVE DropInv'
  BY <1>18 DEF vars
<1> QED
  BY <1>1, <1>2, <1>3, <1>4, <1>5, <1>6, <1>7, <1>8, <1>9, <1>10, <1>11, <1>12,
     <1>13, <1>14, <1>15, <1>16, <1>17, <1>18 DEF Next, CallStep, Poll

\* Every step keeps what a call in progress knows of itself.
LEMMA CallStepKeeps ==
  ASSUME BaseInv, [Next]_vars
  PROVE  CallInv'
<1> USE UploadAssumption DEF BaseInv, TypeOK, LockInv, Holding, CallInv, Call, body,
      state, writers
<1>1. ASSUME NEW w \in Writer, NEW n \in 0 .. MaxChunks, StartSend(w, n) PROVE CallInv'
  <2>1. /\ pc' = [pc EXCEPT ![w] = "sendlock"] /\ pc[w] = "idle" /\ sends < MaxSends
        /\ call' = [call EXCEPT ![w] = sends + 1] /\ sends' = sends + 1
        /\ total' = [total EXCEPT ![sends + 1] = n] /\ UNCHANGED <<pushed, result>>
    BY <1>1 DEF StartSend
  <2>2. sends \in Nat /\ sends + 1 \in Call /\ pushed[sends + 1] = 0
          /\ result[sends + 1] = "none"
    BY <2>1
  <2>3. /\ \A v \in Writer : call'[v] # 0 <=> pc'[v] \in {"sendlock", "send"}
        /\ \A v \in Writer : call'[v] <= sends'
    BY <2>1, <2>2
  <2>4. \A v, u \in Writer : call'[v] = call'[u] /\ call'[v] # 0 => v = u
    BY <2>1, <2>2
  <2>5. \A v \in Writer : pc'[v] = "sendlock" => pushed'[call'[v]] = 0
    BY <2>1, <2>2
  <2>6. ASSUME NEW c \in Call
        PROVE  /\ pushed'[c] <= total'[c]
               /\ c > sends' => pushed'[c] = 0 /\ result'[c] = "none"
               /\ result'[c] = "ok" => pushed'[c] = total'[c]
    BY <2>1, <2>2
  <2> QED
    BY <2>3, <2>4, <2>5, <2>6
<1>2. ASSUME NEW w \in Writer, StartFinish(w) PROVE CallInv'
  BY <1>2 DEF StartFinish
<1>3. ASSUME NEW w \in Writer, Acquire(w) PROVE CallInv'
  <2>1. CASE sender /\ pc[w] = "sendlock"
    <3>1. pc' = [pc EXCEPT ![w] = "send"]
            /\ UNCHANGED <<call, sends, total, pushed, result>>
      BY <1>3, <2>1 DEF Acquire
    <3> QED
      BY <2>1, <3>1
  <2>2. CASE sender /\ pc[w] = "finishlock"
    <3>1. pc' = [pc EXCEPT ![w] = "finish"]
            /\ UNCHANGED <<call, sends, total, pushed, result>>
      BY <1>3, <2>2 DEF Acquire
    <3> QED
      BY <2>2, <3>1
  <2>3. CASE ~sender
    <3>1. Leave(w, "idle", "err") /\ UNCHANGED <<sends, total, pushed>>
      BY <1>3, <2>3 DEF Acquire
    <3> QED
      BY <3>1 DEF Leave
  <2> QED
    BY <1>3, <2>1, <2>2, <2>3 DEF Acquire
<1>4. ASSUME NEW w \in Writer, PushChunk(w) PROVE CallInv'
  <2>1. /\ UNCHANGED <<mutex, pc, call, sends, total, result>>
        /\ pc[w] = "send" /\ call[w] \in Call
        /\ pushed' = [pushed EXCEPT ![call[w]] = @ + 1] /\ pushed[call[w]] < total[call[w]]
    BY <1>4 DEF PushChunk
  <2>2. \A v \in Writer \ {w} : call[v] # call[w]
    BY <2>1
  <2>3. \A c \in Call : c # call[w] => pushed'[c] = pushed[c]
    BY <2>1
  <2>4. \A v \in Writer : pc'[v] = "sendlock" => pushed'[call'[v]] = 0
    BY <2>1, <2>2, <2>3
  <2>5. pushed'[call[w]] <= total[call[w]] /\ result[call[w]] # "ok" /\ call[w] <= sends
    BY <2>1
  <2>6. ASSUME NEW c \in Call
        PROVE  /\ pushed'[c] <= total'[c]
               /\ c > sends' => pushed'[c] = 0 /\ result'[c] = "none"
               /\ result'[c] = "ok" => pushed'[c] = total'[c]
    <3>1. CASE c = call[w]
      BY <2>1, <2>5, <3>1
    <3>2. CASE c # call[w]
      BY <2>1, <2>3, <3>2
    <3> QED
      BY <3>1, <3>2
  <2>7. /\ \A v \in Writer : call'[v] # 0 <=> pc'[v] \in {"sendlock", "send"}
        /\ \A v \in Writer : call'[v] <= sends'
        /\ \A v, u \in Writer : call'[v] = call'[u] /\ call'[v] # 0 => v = u
    BY <2>1
  <2> QED
    BY <2>4, <2>6, <2>7
<1>5. ASSUME NEW w \in Writer, SendReturns(w) PROVE CallInv'
  BY <1>5 DEF SendReturns, Leave
<1>6. ASSUME NEW w \in Writer, FinishReturns(w) PROVE CallInv'
  BY <1>6 DEF FinishReturns, Leave
<1>7. ASSUME NEW w \in Writer, ConsumerClosed(w) PROVE CallInv'
  BY <1>7 DEF ConsumerClosed, Leave
<1>8. ASSUME NEW w \in Writer, CallCancelled(w) PROVE CallInv'
  BY <1>8 DEF CallCancelled, Leave
<1>9. ASSUME NEW w \in Writer, DropCall(w) PROVE CallInv'
  BY <1>9 DEF DropCall, Leave
<1>10. ASSUME NEW w \in Writer, DropGuard(w) PROVE CallInv'
  BY <1>10 DEF DropGuard, Fail
<1>11. ASSUME ProducerFails PROVE CallInv'
  BY <1>11 DEF ProducerFails, Fail
<1>12. ASSUME DropWriter PROVE CallInv'
  BY <1>12 DEF DropWriter
<1>13. ASSUME PollCancelled PROVE CallInv'
  BY <1>13 DEF PollCancelled
<1>14. ASSUME PollData PROVE CallInv'
  BY <1>14 DEF PollData
<1>15. ASSUME PollFinish PROVE CallInv'
  BY <1>15 DEF PollFinish
<1>16. ASSUME PollOrphaned PROVE CallInv'
  BY <1>16 DEF PollOrphaned
<1>17. ASSUME DropBody PROVE CallInv'
  BY <1>17 DEF DropBody
<1>18. ASSUME UNCHANGED vars PROVE CallInv'
  BY <1>18 DEF vars
<1> QED
  BY <1>1, <1>2, <1>3, <1>4, <1>5, <1>6, <1>7, <1>8, <1>9, <1>10, <1>11, <1>12,
     <1>13, <1>14, <1>15, <1>16, <1>17, <1>18 DEF Next, CallStep, Poll

\* What the first chunk of a send adds to the history.
LEMMA PushAccepts ==
  ASSUME IndInv, NEW w \in Writer, PushChunk(w)
  PROVE  /\ call[w] \in Call /\ pushed[call[w]] \in Nat /\ total[call[w]] \in Nat
         /\ pushed[call[w]] < total[call[w]]
         /\ pushed[call[w]] # 0 => accepted' = accepted
         /\ pushed[call[w]] = 0 =>
               /\ Len(accepted') = Len(accepted) + total[call[w]]
               /\ \A i \in 1 .. Len(accepted) : accepted'[i] = accepted[i]
               /\ \A i \in 1 .. total[call[w]] :
                     accepted'[Len(accepted) + i] = <<call[w], i>>
<1> DEFINE c == call[w]
<1>1. c \in Call
  BY DEF PushChunk, IndInv, TypeOK, CallInv, Call
<1>2. pushed[c] \in Nat /\ total[c] \in Nat /\ accepted \in Seq(Data)
  BY <1>1, UploadAssumption DEF IndInv, TypeOK
<1>3. pushed[c] < total[c] /\ (pushed[c] # 0 => accepted' = accepted)
        /\ (pushed[c] = 0 => accepted' = accepted \o Chunks(c))
  BY DEF PushChunk
<1>4. Chunks(c) \in Seq(Data) /\ Len(Chunks(c)) = total[c]
        /\ \A i \in 1 .. total[c] : Chunks(c)[i] = <<c, i>>
  <2>1. \A i \in 1 .. total[c] : <<c, i>> \in Data
    BY <1>1, UploadAssumption DEF Data, IndInv, TypeOK
  <2> DEFINE n == total[c]
  <2>2. n \in Nat /\ Chunks(c) = [i \in 1 .. n |-> <<c, i>>] /\ \A i \in 1 .. n : <<c, i>> \in Data
    BY <1>2, <2>1 DEF Chunks
  <2> HIDE DEF n, c
  <2>3. Chunks(c) \in Seq(Data) /\ Len(Chunks(c)) = n
          /\ \A i \in 1 .. n : Chunks(c)[i] = <<c, i>>
    BY <2>2
  <2> QED
    BY <2>3 DEF n
<1> HIDE DEF c
<1>5. ASSUME pushed[c] = 0
      PROVE  /\ Len(accepted') = Len(accepted) + total[c]
             /\ \A i \in 1 .. Len(accepted) : accepted'[i] = accepted[i]
             /\ \A i \in 1 .. total[c] : accepted'[Len(accepted) + i] = <<c, i>>
  <2>1. accepted' = accepted \o Chunks(c)
    BY <1>3, <1>5
  <2>2. /\ Len(accepted \o Chunks(c)) = Len(accepted) + Len(Chunks(c))
        /\ \A i \in 1 .. Len(accepted) : (accepted \o Chunks(c))[i] = accepted[i]
        /\ \A i \in 1 .. Len(Chunks(c)) :
              (accepted \o Chunks(c))[Len(accepted) + i] = Chunks(c)[i]
    <3>1. accepted \in Seq(Data) /\ Chunks(c) \in Seq(Data)
      BY <1>2, <1>4
    <3>2. \A u \in Seq(Data) : \A v \in Seq(Data) :
            /\ Len(u \o v) = Len(u) + Len(v)
            /\ \A i \in 1 .. Len(u) : (u \o v)[i] = u[i]
            /\ \A i \in 1 .. Len(v) : (u \o v)[Len(u) + i] = v[i]
      BY ConcatFacts
    <3> QED
      BY <3>1, <3>2, Zenon
  <2> QED
    BY <1>4, <2>1, <2>2, Zenon
<1> QED
  BY <1>1, <1>2, <1>3, <1>5 DEF c

\* Every step accepts a send whole once its first chunk is in the queue.
LEMMA AcceptStep ==
  ASSUME IndInv, [Next]_vars
  PROVE  AcceptInv'
<1> USE DEF body, writers
<1>0. ASSUME UNCHANGED <<pushed, total, accepted>> PROVE AcceptInv'
  BY <1>0 DEF IndInv, AcceptInv
<1>1. ASSUME NEW w \in Writer, NEW n \in 0 .. MaxChunks, StartSend(w, n) PROVE AcceptInv'
  <2>1. \A c \in Call : pushed[c] > 0 => total'[c] = total[c]
    <3>1. total' = [total EXCEPT ![sends + 1] = n] /\ sends \in Nat
      BY <1>1, UploadAssumption DEF StartSend, IndInv, TypeOK
    <3>2. \A c \in Call : pushed[c] > 0 => c # sends + 1
      BY <3>1, UploadAssumption DEF IndInv, CallInv, Call
    <3> QED
      BY <3>1, <3>2 DEF IndInv, TypeOK
  <2> QED
    BY <1>1, <2>1 DEF StartSend, IndInv, AcceptInv
<1>2. ASSUME NEW w \in Writer, StartFinish(w) PROVE AcceptInv'
  BY <1>0, <1>2 DEF StartFinish
<1>3. ASSUME NEW w \in Writer, Acquire(w) PROVE AcceptInv'
  BY <1>0, <1>3 DEF Acquire, Leave
<1>4. ASSUME NEW w \in Writer, PushChunk(w) PROVE AcceptInv'
  <2> DEFINE c == call[w]
  <2>1. \A d \in Call : d # c => pushed'[d] = pushed[d]
    BY <1>4, PushAccepts DEF PushChunk, IndInv, TypeOK
  <2>2. \A j \in DOMAIN accepted : j \in DOMAIN accepted' /\ accepted'[j] = accepted[j]
    <3>1. accepted \in Seq(Data) /\ accepted' \in Seq(Data)
      BY <1>4, TypeStep DEF IndInv, BaseInv, TypeOK, Next, CallStep
    <3> QED
      BY <1>4, <3>1, PushAccepts
  <2>3. ASSUME NEW d \in Call, d # c, pushed'[d] > 0, NEW i \in 1 .. total[d]
        PROVE  \E j \in DOMAIN accepted' : accepted'[j] = <<d, i>>
    BY <2>1, <2>2, <2>3 DEF IndInv, AcceptInv
  <2>4. ASSUME NEW i \in 1 .. total[c]
        PROVE  \E j \in DOMAIN accepted' : accepted'[j] = <<c, i>>
    <3>1. CASE pushed[c] # 0
      BY <1>4, <2>2, <3>1, PushAccepts DEF IndInv, AcceptInv
    <3>2. CASE pushed[c] = 0
      <4>1. accepted'[Len(accepted) + i] = <<c, i>>
              /\ Len(accepted') = Len(accepted) + total[c]
        BY <1>4, <3>2, PushAccepts
      <4>2. accepted' \in Seq(Data) /\ Len(accepted) \in Nat
        BY <1>4, TypeStep DEF IndInv, BaseInv, TypeOK, Next, CallStep
      <4>3. Len(accepted) + i \in DOMAIN accepted'
        BY <1>4, <4>1, <4>2, PushAccepts
      <4> QED
        BY <4>1, <4>3
    <3> QED
      BY <3>1, <3>2
  <2>5. total' = total
    BY <1>4 DEF PushChunk
  <2> HIDE DEF c
  <2> QED
    BY <2>3, <2>4, <2>5 DEF AcceptInv
<1>5. ASSUME NEW w \in Writer, SendReturns(w) PROVE AcceptInv'
  BY <1>0, <1>5 DEF SendReturns, Leave
<1>6. ASSUME NEW w \in Writer, FinishReturns(w) PROVE AcceptInv'
  BY <1>0, <1>6 DEF FinishReturns, Leave
<1>7. ASSUME NEW w \in Writer, ConsumerClosed(w) PROVE AcceptInv'
  BY <1>0, <1>7 DEF ConsumerClosed, Leave
<1>8. ASSUME NEW w \in Writer, CallCancelled(w) PROVE AcceptInv'
  BY <1>0, <1>8 DEF CallCancelled, Leave
<1>9. ASSUME NEW w \in Writer, DropCall(w) PROVE AcceptInv'
  BY <1>0, <1>9 DEF DropCall, Leave
<1>10. ASSUME NEW w \in Writer, DropGuard(w) PROVE AcceptInv'
  BY <1>0, <1>10 DEF DropGuard, Fail
<1>11. ASSUME ProducerFails PROVE AcceptInv'
  BY <1>0, <1>11 DEF ProducerFails, Fail
<1>12. ASSUME DropWriter PROVE AcceptInv'
  BY <1>0, <1>12 DEF DropWriter
<1>13. ASSUME PollCancelled PROVE AcceptInv'
  BY <1>0, <1>13 DEF PollCancelled
<1>14. ASSUME PollData PROVE AcceptInv'
  BY <1>0, <1>14 DEF PollData
<1>15. ASSUME PollFinish PROVE AcceptInv'
  BY <1>0, <1>15 DEF PollFinish
<1>16. ASSUME PollOrphaned PROVE AcceptInv'
  BY <1>0, <1>16 DEF PollOrphaned
<1>17. ASSUME DropBody PROVE AcceptInv'
  BY <1>0, <1>17 DEF DropBody
<1>18. ASSUME UNCHANGED vars PROVE AcceptInv'
  BY <1>0, <1>18 DEF vars
<1> QED
  BY <1>1, <1>2, <1>3, <1>4, <1>5, <1>6, <1>7, <1>8, <1>9, <1>10, <1>11, <1>12,
     <1>13, <1>14, <1>15, <1>16, <1>17, <1>18 DEF Next, CallStep, Poll

\* Every step keeps what was delivered a prefix of what was accepted.
LEMMA DeliverStep ==
  ASSUME IndInv, [Next]_vars
  PROVE  DeliverInv'
<1> USE DEF body, writers
<1>0. ASSUME UNCHANGED <<delivered, accepted>> PROVE DeliverInv'
  BY <1>0 DEF IndInv, DeliverInv
<1>1. ASSUME NEW w \in Writer, NEW n \in 0 .. MaxChunks, StartSend(w, n) PROVE DeliverInv'
  BY <1>0, <1>1 DEF StartSend
<1>2. ASSUME NEW w \in Writer, StartFinish(w) PROVE DeliverInv'
  BY <1>0, <1>2 DEF StartFinish
<1>3. ASSUME NEW w \in Writer, Acquire(w) PROVE DeliverInv'
  BY <1>0, <1>3 DEF Acquire, Leave
<1>4. ASSUME NEW w \in Writer, PushChunk(w) PROVE DeliverInv'
  <2>1. delivered' = delivered /\ Len(accepted) \in Nat /\ Len(delivered) \in Nat
    BY <1>4 DEF PushChunk, IndInv, TypeOK
  <2> QED
    BY <1>4, <2>1, PushAccepts DEF IndInv, DeliverInv
<1>5. ASSUME NEW w \in Writer, SendReturns(w) PROVE DeliverInv'
  BY <1>0, <1>5 DEF SendReturns, Leave
<1>6. ASSUME NEW w \in Writer, FinishReturns(w) PROVE DeliverInv'
  BY <1>0, <1>6 DEF FinishReturns, Leave
<1>7. ASSUME NEW w \in Writer, ConsumerClosed(w) PROVE DeliverInv'
  BY <1>0, <1>7 DEF ConsumerClosed, Leave
<1>8. ASSUME NEW w \in Writer, CallCancelled(w) PROVE DeliverInv'
  BY <1>0, <1>8 DEF CallCancelled, Leave
<1>9. ASSUME NEW w \in Writer, DropCall(w) PROVE DeliverInv'
  BY <1>0, <1>9 DEF DropCall, Leave
<1>10. ASSUME NEW w \in Writer, DropGuard(w) PROVE DeliverInv'
  BY <1>0, <1>10 DEF DropGuard, Fail
<1>11. ASSUME ProducerFails PROVE DeliverInv'
  BY <1>0, <1>11 DEF ProducerFails, Fail
<1>12. ASSUME DropWriter PROVE DeliverInv'
  BY <1>0, <1>12 DEF DropWriter
<1>13. ASSUME PollCancelled PROVE DeliverInv'
  BY <1>0, <1>13 DEF PollCancelled
<1>14. ASSUME PollData PROVE DeliverInv'
  <2>1. delivered' = Append(delivered, Head(queue)) /\ accepted' = accepted
          /\ queue # <<>> /\ queue[1] # Finish /\ Flowing
    BY <1>14 DEF PollData, IndInv, TypeOK, Flowing
  <2>2. queue \in Seq(Data \cup {Finish}) /\ delivered \in Seq(Data)
          /\ accepted \in Seq(Data) /\ 1 \in 1 .. Len(queue)
    BY <2>1 DEF IndInv, TypeOK
  <2>3. Len(delivered) + 1 <= Len(accepted) /\ queue[1] = accepted[Len(delivered) + 1]
    BY <2>1, <2>2 DEF IndInv, QueueInv
  <2>4. /\ Len(delivered') = Len(delivered) + 1
        /\ \A i \in 1 .. Len(delivered) : delivered'[i] = delivered[i]
        /\ delivered'[Len(delivered) + 1] = queue[1]
    BY <2>1, <2>2
  <2> QED
    BY <2>1, <2>2, <2>3, <2>4 DEF IndInv, DeliverInv
<1>15. ASSUME PollFinish PROVE DeliverInv'
  BY <1>0, <1>15 DEF PollFinish
<1>16. ASSUME PollOrphaned PROVE DeliverInv'
  BY <1>0, <1>16 DEF PollOrphaned
<1>17. ASSUME DropBody PROVE DeliverInv'
  BY <1>0, <1>17 DEF DropBody
<1>18. ASSUME UNCHANGED vars PROVE DeliverInv'
  BY <1>0, <1>18 DEF vars
<1> QED
  BY <1>1, <1>2, <1>3, <1>4, <1>5, <1>6, <1>7, <1>8, <1>9, <1>10, <1>11, <1>12,
     <1>13, <1>14, <1>15, <1>16, <1>17, <1>18 DEF Next, CallStep, Poll

\* The facts a push or a finish starts from.
LEMMA HolderFacts ==
  ASSUME IndInv, NEW w \in Writer, pc[w] \in Holding
  PROVE  /\ sender /\ ~finished /\ mutex = w
         /\ \A v \in Writer \ {w} : pc[v] \notin Holding
         /\ \A v \in Writer : pc[v] # "dropping"
BY DEF IndInv, LockInv, DropInv, Holding

\* Every step keeps the queue between what was delivered and what was accepted.
LEMMA QueueStep ==
  ASSUME IndInv, [Next]_vars
  PROVE  QueueInv'
<1> USE DEF body, state, writers
<1>0. ASSUME UNCHANGED <<queue, delivered, accepted, outcome, cancelled, finished>>
      PROVE  QueueInv'
  BY <1>0 DEF IndInv, QueueInv, Flowing
<1>00. ASSUME outcome' # "run" \/ cancelled' PROVE QueueInv'
  BY <1>00 DEF QueueInv, Flowing
<1>1. ASSUME NEW w \in Writer, NEW n \in 0 .. MaxChunks, StartSend(w, n) PROVE QueueInv'
  BY <1>0, <1>1 DEF StartSend
<1>2. ASSUME NEW w \in Writer, StartFinish(w) PROVE QueueInv'
  BY <1>0, <1>2 DEF StartFinish
<1>3. ASSUME NEW w \in Writer, Acquire(w) PROVE QueueInv'
  BY <1>0, <1>3 DEF Acquire, Leave
<1>4. ASSUME NEW w \in Writer, PushChunk(w) PROVE QueueInv'
  <2>0. queue \in Seq(Data \cup {Finish}) /\ delivered \in Seq(Data)
          /\ accepted \in Seq(Data) /\ Len(queue) \in Nat /\ Len(delivered) \in Nat
          /\ Len(accepted) \in Nat
    BY DEF IndInv, TypeOK
  <2> DEFINE c == call[w]
             e == <<c, pushed[c] + 1>>
  <2>1. /\ queue' = Append(queue, e) /\ delivered' = delivered
        /\ UNCHANGED <<outcome, cancelled>> /\ pc[w] = "send"
    BY <1>4 DEF PushChunk
  <2>2. ~finished
    BY <2>1, HolderFacts DEF Holding
  <2>3. e # Finish
    BY <1>4, PushAccepts DEF Call, Finish
  <2>4. ASSUME Flowing
        PROVE  Taken + 1 <= Len(accepted') /\ accepted'[Taken + 1] = e
    <3>1. CASE pushed[c] = 0
      <4>1. Len(accepted) = Taken
        BY <2>1, <2>4, <3>1 DEF IndInv, RestInv, PartInv
      <4>2. 1 \in 1 .. total[c] /\ Len(accepted') = Len(accepted) + total[c]
              /\ accepted'[Len(accepted) + 1] = <<c, 1>>
        BY <1>4, <3>1, PushAccepts
      <4>3. e = <<c, 1>> /\ total[c] >= 1 /\ total[c] \in Nat
        BY <3>1, <4>2, <1>4, PushAccepts
      <4> QED
        BY <2>0, <4>1, <4>2, <4>3
    <3>2. CASE pushed[c] # 0
      <4>1. /\ Len(accepted) = Taken + total[c] - pushed[c]
            /\ \A i \in pushed[c] + 1 .. total[c] : accepted[Taken + i - pushed[c]] = <<c, i>>
        BY <2>1, <2>4, <3>2 DEF IndInv, RestInv, PartInv
      <4>2. pushed[c] \in Nat /\ total[c] \in Nat /\ pushed[c] < total[c] /\ accepted' = accepted
        BY <1>4, <3>2, PushAccepts
      <4>3. Taken \in Nat
        BY <2>0 DEF Taken
      <4>4. Taken + (pushed[c] + 1) - pushed[c] = Taken + 1
              /\ pushed[c] + 1 \in pushed[c] + 1 .. total[c]
        BY <4>2, <4>3
      <4>5. accepted[Taken + 1] = e
        BY <4>1, <4>4
      <4>6. Taken + 1 <= Len(accepted)
        BY <4>1, <4>2, <4>3
      <4> QED
        BY <4>2, <4>5, <4>6
    <3> QED
      BY <3>1, <3>2
  <2>5. \A i \in 1 .. Len(accepted) : accepted'[i] = accepted[i]
    BY <1>4, PushAccepts
  <2>6. Len(accepted) <= Len(accepted')
    BY <1>4, <2>0, PushAccepts
  <2> HIDE DEF e
  <2>7. Len(queue') = Len(queue) + 1 /\ queue'[Len(queue) + 1] = e
          /\ \A i \in 1 .. Len(queue) : queue'[i] = queue[i]
    <3>1. e \in Data
      BY <1>4, PushAccepts, UploadAssumption DEF e, Data, IndInv, TypeOK
    <3> QED
      BY <2>0, <2>1, <3>1
  <2>8. ASSUME Flowing, NEW i \in 1 .. Len(queue')
        PROVE  /\ queue'[i] # Finish /\ Len(delivered) + i <= Len(accepted')
               /\ queue'[i] = accepted'[Len(delivered) + i]
    <3>1. CASE i = Len(queue) + 1
      BY <2>3, <2>4, <2>7, <2>8, <3>1, <2>0 DEF Taken
    <3>2. CASE i # Len(queue) + 1
      <4>1. i \in 1 .. Len(queue) /\ queue'[i] = queue[i]
        BY <2>0, <2>7, <3>2
      <4>2. queue[i] # Finish /\ Len(delivered) + i <= Len(accepted)
              /\ queue[i] = accepted[Len(delivered) + i]
        BY <2>2, <2>8, <4>1 DEF IndInv, QueueInv
      <4>3. Len(delivered) + i \in 1 .. Len(accepted)
        BY <2>0, <4>1, <4>2
      <4> QED
        BY <2>0, <2>5, <2>6, <4>1, <4>2, <4>3
    <3> QED
      BY <3>1, <3>2
  <2>9. Flowing' = Flowing
    BY <2>1 DEF Flowing
  <2> QED
    BY <2>1, <2>8, <2>9 DEF QueueInv
<1>5. ASSUME NEW w \in Writer, SendReturns(w) PROVE QueueInv'
  BY <1>0, <1>5 DEF SendReturns, Leave
<1>6. ASSUME NEW w \in Writer, FinishReturns(w) PROVE QueueInv'
  <2>0. queue \in Seq(Data \cup {Finish}) /\ delivered \in Seq(Data)
          /\ accepted \in Seq(Data) /\ Len(queue) \in Nat /\ Len(delivered) \in Nat
          /\ Len(accepted) \in Nat
    BY DEF IndInv, TypeOK
  <2>1. /\ queue' = Append(queue, Finish) /\ finished' /\ pc[w] = "finish"
        /\ UNCHANGED <<delivered, accepted, outcome, cancelled>>
    BY <1>6 DEF FinishReturns
  <2>2. ~finished
    BY <2>1, HolderFacts DEF Holding
  <2>3. Len(queue') = Len(queue) + 1 /\ queue'[Len(queue) + 1] = Finish
          /\ \A i \in 1 .. Len(queue) : queue'[i] = queue[i]
    BY <2>0, <2>1
  <2>4. Flowing' = Flowing
    BY <2>1 DEF Flowing
  <2>5. ASSUME Flowing, NEW i \in 1 .. Len(queue')
        PROVE  IF queue'[i] = Finish THEN finished' /\ i = Len(queue')
               ELSE /\ Len(delivered) + i <= Len(accepted)
                    /\ queue'[i] = accepted[Len(delivered) + i]
    <3>1. CASE i = Len(queue) + 1
      BY <2>1, <2>3, <3>1
    <3>2. CASE i # Len(queue) + 1
      <4>1. i \in 1 .. Len(queue) /\ queue'[i] = queue[i]
        BY <2>0, <2>3, <3>2
      <4> QED
        BY <2>2, <2>5, <4>1 DEF IndInv, QueueInv
    <3> QED
      BY <3>1, <3>2
  <2> QED
    BY <2>1, <2>4, <2>5 DEF QueueInv
<1>7. ASSUME NEW w \in Writer, ConsumerClosed(w) PROVE QueueInv'
  BY <1>0, <1>7 DEF ConsumerClosed, Leave
<1>8. ASSUME NEW w \in Writer, CallCancelled(w) PROVE QueueInv'
  BY <1>0, <1>8 DEF CallCancelled, Leave
<1>9. ASSUME NEW w \in Writer, DropCall(w) PROVE QueueInv'
  BY <1>0, <1>9 DEF DropCall, Leave
<1>10. ASSUME NEW w \in Writer, DropGuard(w) PROVE QueueInv'
  BY <1>00, <1>10 DEF DropGuard, Fail
<1>11. ASSUME ProducerFails PROVE QueueInv'
  BY <1>00, <1>11 DEF ProducerFails, Fail
<1>12. ASSUME DropWriter PROVE QueueInv'
  BY <1>0, <1>12 DEF DropWriter
<1>13. ASSUME PollCancelled PROVE QueueInv'
  BY <1>00, <1>13 DEF PollCancelled
<1>14. ASSUME PollData PROVE QueueInv'
  <2>0. queue \in Seq(Data \cup {Finish}) /\ delivered \in Seq(Data)
          /\ accepted \in Seq(Data) /\ Len(queue) \in Nat /\ Len(delivered) \in Nat
          /\ Len(accepted) \in Nat
    BY DEF IndInv, TypeOK
  <2>1. /\ queue # <<>> /\ Head(queue) # Finish /\ queue' = Tail(queue)
        /\ delivered' = Append(delivered, Head(queue))
        /\ UNCHANGED <<accepted, finished>> /\ Flowing
    BY <1>14 DEF PollData, Flowing
  <2>2. Len(queue') = Len(queue) - 1 /\ Len(delivered') = Len(delivered) + 1
          /\ \A i \in 1 .. Len(queue') : queue'[i] = queue[i + 1]
    BY <2>0, <2>1
  <2>3. ASSUME NEW i \in 1 .. Len(queue')
        PROVE  IF queue'[i] = Finish THEN finished /\ i = Len(queue')
               ELSE /\ Len(delivered') + i <= Len(accepted)
                    /\ queue'[i] = accepted[Len(delivered') + i]
    <3>1. i + 1 \in 1 .. Len(queue) /\ queue'[i] = queue[i + 1]
      BY <2>0, <2>2
    <3>2. IF queue[i + 1] = Finish THEN finished /\ i + 1 = Len(queue)
          ELSE /\ Len(delivered) + (i + 1) <= Len(accepted)
               /\ queue[i + 1] = accepted[Len(delivered) + (i + 1)]
      BY <2>1, <3>1 DEF IndInv, QueueInv
    <3>3. Len(delivered') + i = Len(delivered) + (i + 1)
      BY <2>0, <2>2
    <3> QED
      BY <2>0, <2>2, <3>1, <3>2, <3>3
  <2> QED
    BY <2>1, <2>3 DEF QueueInv
<1>15. ASSUME PollFinish PROVE QueueInv'
  BY <1>00, <1>15 DEF PollFinish
<1>16. ASSUME PollOrphaned PROVE QueueInv'
  BY <1>00, <1>16 DEF PollOrphaned
<1>17. ASSUME DropBody PROVE QueueInv'
  BY <1>00, <1>17 DEF DropBody
<1>18. ASSUME UNCHANGED vars PROVE QueueInv'
  BY <1>0, <1>18 DEF vars
<1> QED
  BY <1>1, <1>2, <1>3, <1>4, <1>5, <1>6, <1>7, <1>8, <1>9, <1>10, <1>11, <1>12,
     <1>13, <1>14, <1>15, <1>16, <1>17, <1>18 DEF Next, CallStep, Poll

\* Every step accounts for what was accepted and is not delivered yet.
LEMMA RestStep ==
  ASSUME ~DropsRace, IndInv, [Next]_vars
  PROVE  RestInv'
<1> USE DEF body, state, writers
<1>0. ASSUME UNCHANGED <<queue, pushed, delivered, accepted, outcome, cancelled, finished>>,
             \A v \in Writer : pc'[v] = "send" =>
                pc[v] = "send" /\ call'[v] = call[v] /\ total'[call[v]] = total[call[v]],
             (\A v \in Writer : pc'[v] \notin {"send", "dropping"}) =>
                \A v \in Writer : pc[v] \notin {"send", "dropping"}
      PROVE  RestInv'
  <2>1. Taken' = Taken /\ Flowing' = Flowing
    BY <1>0 DEF Taken, Flowing
  <2>2. ASSUME NEW v \in Writer, pc'[v] = "send", PartInv(v) PROVE PartInv(v)'
    <3>1. /\ call'[v] = call[v] /\ total'[call[v]] = total[call[v]]
          /\ pushed' = pushed /\ accepted' = accepted
      BY <1>0, <2>2
    <3> QED
      BY <2>1, <2>2, <3>1 DEF PartInv
  <2> QED
    BY <1>0, <2>1, <2>2 DEF IndInv, RestInv
<1>00. ASSUME outcome' # "run" \/ cancelled' PROVE RestInv'
  BY <1>00 DEF RestInv, Flowing
<1>1. ASSUME NEW w \in Writer, NEW n \in 0 .. MaxChunks, StartSend(w, n) PROVE RestInv'
  <2>1. /\ pc' = [pc EXCEPT ![w] = "sendlock"] /\ pc[w] = "idle"
        /\ call' = [call EXCEPT ![w] = sends + 1]
        /\ total' = [total EXCEPT ![sends + 1] = n]
        /\ UNCHANGED <<queue, pushed, delivered, accepted, outcome, cancelled, finished>>
        /\ \A v \in Writer : pc[v] # "dropping"
    BY <1>1 DEF StartSend, MayStart
  <2>2. ASSUME NEW v \in Writer, pc'[v] = "send"
        PROVE  pc[v] = "send" /\ call'[v] = call[v] /\ total'[call[v]] = total[call[v]]
    <3>1. v # w /\ pc[v] = "send"
      BY <2>1, <2>2 DEF IndInv, TypeOK
    <3>2. call[v] # sends + 1 /\ call[v] \in Call
      BY <3>1, UploadAssumption DEF IndInv, TypeOK, CallInv, Call
    <3> QED
      BY <2>1, <3>1, <3>2 DEF IndInv, TypeOK
  <2>3. (\A v \in Writer : pc'[v] \notin {"send", "dropping"}) =>
           \A v \in Writer : pc[v] \notin {"send", "dropping"}
    BY <2>1 DEF IndInv, TypeOK
  <2> QED
    BY <1>0, <2>1, <2>2, <2>3
<1>2. ASSUME NEW w \in Writer, StartFinish(w) PROVE RestInv'
  <2>1. /\ pc' = [pc EXCEPT ![w] = "finishlock"] /\ pc[w] = "idle"
        /\ UNCHANGED <<queue, call, total, pushed, delivered, accepted, outcome,
                       cancelled, finished>>
    BY <1>2 DEF StartFinish
  <2>2. \A v \in Writer : pc'[v] = "send" => pc[v] = "send" /\ call'[v] = call[v]
    BY <2>1 DEF IndInv, TypeOK
  <2>3. (\A v \in Writer : pc'[v] \notin {"send", "dropping"}) =>
           \A v \in Writer : pc[v] \notin {"send", "dropping"}
    BY <2>1 DEF IndInv, TypeOK
  <2> QED
    BY <1>0, <2>1, <2>2, <2>3
<1>3. ASSUME NEW w \in Writer, Acquire(w) PROVE RestInv'
  <2>1. /\ UNCHANGED <<queue, total, pushed, delivered, accepted, outcome, cancelled, finished>>
        /\ pc[w] \in {"sendlock", "finishlock"} /\ mutex = NoWriter
    BY <1>3 DEF Acquire
  <2>2. CASE sender
    <3>1. /\ pc' = [pc EXCEPT ![w] = IF @ = "sendlock" THEN "send" ELSE "finish"]
          /\ UNCHANGED call
      BY <1>3, <2>2 DEF Acquire
    <3>2. ~finished /\ \A v \in Writer : pc[v] \notin {"send", "dropping"}
      BY <2>1, <2>2, UploadAssumption DEF IndInv, LockInv, DropInv, Holding
    <3>3. Flowing => Len(accepted) = Taken
      BY <3>2 DEF IndInv, RestInv
    <3>4. \A v \in Writer : pc'[v] = "send" => v = w /\ pushed[call[v]] = 0
      BY <2>1, <3>1, <3>2 DEF IndInv, TypeOK, CallInv
    <3>5. Taken' = Taken /\ Flowing' = Flowing /\ accepted' = accepted
            /\ ~finished' /\ pushed' = pushed
      BY <2>1, <3>2 DEF Taken, Flowing
    <3> QED
      BY <3>1, <3>3, <3>4, <3>5 DEF RestInv, PartInv
  <2>3. CASE ~sender
    <3>1. /\ pc' = [pc EXCEPT ![w] = "idle"] /\ call' = [call EXCEPT ![w] = 0]
      BY <1>3, <2>3 DEF Acquire, Leave
    <3>2. \A v \in Writer : pc'[v] = "send" => pc[v] = "send" /\ call'[v] = call[v]
      BY <2>1, <3>1 DEF IndInv, TypeOK
    <3>3. (\A v \in Writer : pc'[v] \notin {"send", "dropping"}) =>
             \A v \in Writer : pc[v] \notin {"send", "dropping"}
      BY <2>1, <3>1 DEF IndInv, TypeOK
    <3> QED
      BY <1>0, <2>1, <3>2, <3>3
  <2> QED
    BY <2>2, <2>3
<1>4. ASSUME NEW w \in Writer, PushChunk(w) PROVE RestInv'
  <2> DEFINE c == call[w]
  <2>0. pushed'[c] = pushed[c] + 1
    BY <1>4, PushAccepts DEF PushChunk, IndInv, TypeOK
  <2>1. /\ Len(queue') = Len(queue) + 1 /\ pc[w] = "send"
        /\ UNCHANGED <<delivered, outcome, cancelled, finished, pc, call, total>>
        /\ Len(queue) \in Nat /\ Len(delivered) \in Nat /\ Len(accepted) \in Nat
    <3>1. queue \in Seq(Data \cup {Finish}) /\ delivered \in Seq(Data)
            /\ accepted \in Seq(Data)
      BY DEF IndInv, TypeOK
    <3>2. <<c, pushed[c] + 1>> \in Data
      BY <1>4, PushAccepts, UploadAssumption DEF Data, IndInv, TypeOK
    <3> QED
      BY <1>4, <3>1, <3>2 DEF PushChunk
  <2>2. ~finished /\ \A v \in Writer : pc[v] = "send" => v = w
    BY <2>1, HolderFacts DEF Holding
  <2>3. Taken' = Taken + 1 /\ Taken \in Nat /\ Flowing' = Flowing
    BY <2>1 DEF Taken, Flowing
  <2>4. /\ pushed[c] \in Nat /\ total[c] \in Nat /\ pushed[c] < total[c]
        /\ pushed'[c] # 0 /\ call' = call /\ total' = total
    BY <1>4, <2>0, <2>1, PushAccepts
  <2> HIDE DEF c
  <2>5. ASSUME Flowing
        PROVE  /\ Len(accepted') = Taken + total[c] - pushed[c]
               /\ \A i \in pushed[c] + 1 .. total[c] :
                     accepted'[Taken + i - pushed[c]] = <<c, i>>
    <3>1. CASE pushed[c] = 0
      <4>1. Len(accepted) = Taken
        BY <2>1, <2>5, <3>1 DEF IndInv, RestInv, PartInv, c
      <4>2. Len(accepted') = Taken + total[c]
              /\ \A i \in 1 .. total[c] : accepted'[Taken + i] = <<c, i>>
        BY <1>4, <3>1, <4>1, PushAccepts DEF c
      <4>3. \A i \in 1 .. total[c] : Taken + i - 0 = Taken + i
        BY <2>3
      <4> QED
        BY <2>3, <2>4, <3>1, <4>2, <4>3
    <3>2. CASE pushed[c] # 0
      BY <1>4, <2>1, <2>5, <3>2, PushAccepts DEF IndInv, RestInv, PartInv, c
    <3> QED
      BY <3>1, <3>2
  <2>6. ASSUME Flowing
        PROVE  /\ Len(accepted') = Taken' + total[c] - pushed'[c]
               /\ \A i \in pushed'[c] + 1 .. total[c] :
                     accepted'[Taken' + i - pushed'[c]] = <<c, i>>
    <3>1. Len(accepted') = Taken' + total[c] - pushed'[c]
      <4>1. Len(accepted') = Taken + total[c] - pushed[c]
        BY <2>5, <2>6
      <4> QED
        BY <2>0, <2>3, <2>4, <4>1
    <3>2. ASSUME NEW i \in pushed'[c] + 1 .. total[c]
          PROVE  accepted'[Taken' + i - pushed'[c]] = <<c, i>>
      <4>1. Taken' + i - pushed'[c] = Taken + i - pushed[c] /\ i \in pushed[c] + 1 .. total[c]
        BY <2>0, <2>3, <2>4
      <4> QED
        BY <2>5, <2>6, <4>1
    <3> QED
      BY <3>1, <3>2
  <2>7. ASSUME Flowing PROVE PartInv(w)'
    BY <2>4, <2>6, <2>7 DEF PartInv, c
  <2> QED
    BY <2>1, <2>2, <2>3, <2>7 DEF RestInv
<1>5. ASSUME NEW w \in Writer, SendReturns(w) PROVE RestInv'
  <2>1. /\ UNCHANGED <<queue, total, pushed, delivered, accepted, outcome, cancelled, finished>>
        /\ pc' = [pc EXCEPT ![w] = "idle"] /\ pc[w] = "send"
        /\ pushed[call[w]] = total[call[w]]
    BY <1>5 DEF SendReturns, Leave
  <2>2. ~finished /\ \A v \in Writer : pc[v] = "send" => v = w
    BY <2>1, HolderFacts DEF Holding
  <2>3. Flowing => Len(accepted) = Taken
    <3>1. Taken \in Nat /\ (call[w] \in Call => total[call[w]] \in Nat)
      BY UploadAssumption DEF Taken, IndInv, TypeOK
    <3>2. call[w] \in Call
      BY <2>1 DEF IndInv, TypeOK, CallInv, Call
    <3>3. Flowing => PartInv(w)
      BY <2>1 DEF IndInv, RestInv
    <3> QED
      BY <2>1, <3>1, <3>2, <3>3 DEF PartInv
  <2>4. Taken' = Taken /\ Flowing' = Flowing /\ accepted' = accepted /\ ~finished'
    BY <2>1, <2>2 DEF Taken, Flowing
  <2>5. \A v \in Writer : pc'[v] # "send"
    BY <2>1, <2>2 DEF IndInv, TypeOK
  <2> QED
    BY <2>3, <2>4, <2>5 DEF RestInv
<1>6. ASSUME NEW w \in Writer, FinishReturns(w) PROVE RestInv'
  <2>1. /\ queue' = Append(queue, Finish) /\ finished' /\ pc[w] = "finish"
        /\ UNCHANGED <<delivered, accepted, outcome, cancelled>>
        /\ pc' = [pc EXCEPT ![w] = "idle"]
    BY <1>6 DEF FinishReturns, Leave
  <2>2. ~finished /\ \A v \in Writer : pc[v] \notin {"send", "dropping"}
    BY <2>1, HolderFacts DEF Holding
  <2>3. Flowing => Len(accepted) = Taken
    BY <2>2 DEF IndInv, RestInv
  <2>4. Flowing' = Flowing /\ Len(accepted') = Len(accepted)
    BY <2>1 DEF Flowing
  <2>5. /\ Taken' = Taken + 1 /\ Taken \in Nat /\ queue' # <<>>
        /\ queue'[Len(queue')] = Finish
    <3>1. queue \in Seq(Data \cup {Finish}) /\ delivered \in Seq(Data)
      BY DEF IndInv, TypeOK
    <3> QED
      BY <2>1, <3>1 DEF Taken
  <2>6. \A v \in Writer : pc'[v] # "send"
    BY <2>1, <2>2 DEF IndInv, TypeOK
  <2> QED
    BY <2>1, <2>3, <2>4, <2>5, <2>6 DEF RestInv
<1>7. ASSUME NEW w \in Writer, ConsumerClosed(w) PROVE RestInv'
  <2>1. outcome' # "run"
    BY <1>7 DEF ConsumerClosed, IndInv, LockInv
  <2> QED
    BY <1>00, <2>1
<1>8. ASSUME NEW w \in Writer, CallCancelled(w) PROVE RestInv'
  BY <1>00, <1>8 DEF CallCancelled
<1>9. ASSUME NEW w \in Writer, DropCall(w) PROVE RestInv'
  <2>1. /\ pc' = [pc EXCEPT ![w] = "dropping"] /\ pc[w] # "idle"
        /\ UNCHANGED <<queue, total, pushed, delivered, accepted, outcome, cancelled, finished>>
        /\ \A v \in Writer \ {w} : pc[v] = "idle"
    BY <1>9 DEF DropCall, Leave
  <2>2. pc'[w] = "dropping" /\ \A v \in Writer : pc'[v] # "send"
    BY <2>1 DEF IndInv, TypeOK
  <2>3. Taken' = Taken /\ Flowing' = Flowing
    BY <2>1 DEF Taken, Flowing
  <2> QED
    BY <2>1, <2>2, <2>3 DEF IndInv, RestInv
<1>10. ASSUME NEW w \in Writer, DropGuard(w) PROVE RestInv'
  BY <1>00, <1>10 DEF DropGuard, Fail
<1>11. ASSUME ProducerFails PROVE RestInv'
  BY <1>00, <1>11 DEF ProducerFails, Fail
<1>12. ASSUME DropWriter PROVE RestInv'
  BY <1>0, <1>12 DEF DropWriter
<1>13. ASSUME PollCancelled PROVE RestInv'
  BY <1>00, <1>13 DEF PollCancelled
<1>14. ASSUME PollData PROVE RestInv'
  <2>1. /\ queue # <<>> /\ Head(queue) # Finish /\ queue' = Tail(queue)
        /\ delivered' = Append(delivered, Head(queue)) /\ Flowing
        /\ UNCHANGED <<accepted, finished, pc, call, total, pushed>>
    BY <1>14 DEF PollData, Flowing
  <2>2. queue \in Seq(Data \cup {Finish}) /\ delivered \in Seq(Data)
    BY DEF IndInv, TypeOK
  <2>3. Taken' = Taken
    BY <2>1, <2>2 DEF Taken
  <2>4. finished => queue' # <<>> /\ queue'[Len(queue')] = Finish
    <3>1. finished => queue[Len(queue)] = Finish
      BY <2>1 DEF IndInv, RestInv
    <3>2. finished => Len(queue) > 1
      BY <2>1, <2>2, <3>1
    <3> QED
      BY <2>1, <2>2, <3>1, <3>2
  <2>5. \A w \in Writer : PartInv(w)' = PartInv(w)
    BY <2>1, <2>3 DEF PartInv
  <2> QED
    BY <2>1, <2>3, <2>4, <2>5 DEF IndInv, RestInv
<1>15. ASSUME PollFinish PROVE RestInv'
  BY <1>00, <1>15 DEF PollFinish
<1>16. ASSUME PollOrphaned PROVE RestInv'
  BY <1>00, <1>16 DEF PollOrphaned
<1>17. ASSUME DropBody PROVE RestInv'
  BY <1>00, <1>17 DEF DropBody
<1>18. ASSUME UNCHANGED vars PROVE RestInv'
  BY <1>0, <1>18 DEF vars
<1> QED
  BY <1>1, <1>2, <1>3, <1>4, <1>5, <1>6, <1>7, <1>8, <1>9, <1>10, <1>11, <1>12,
     <1>13, <1>14, <1>15, <1>16, <1>17, <1>18 DEF Next, CallStep, Poll

\* Every step keeps the end of the body after everything that was accepted.
LEMMA EofStep ==
  ASSUME IndInv, [Next]_vars
  PROVE  EofInv'
<1> USE DEF body, writers
<1>0. ASSUME UNCHANGED <<outcome, delivered, accepted, finished>> PROVE EofInv'
  BY <1>0 DEF IndInv, EofInv
<1>1. ASSUME NEW w \in Writer, NEW n \in 0 .. MaxChunks, StartSend(w, n) PROVE EofInv'
  BY <1>0, <1>1 DEF StartSend
<1>2. ASSUME NEW w \in Writer, StartFinish(w) PROVE EofInv'
  BY <1>0, <1>2 DEF StartFinish
<1>3. ASSUME NEW w \in Writer, Acquire(w) PROVE EofInv'
  BY <1>0, <1>3 DEF Acquire, Leave
<1>4. ASSUME NEW w \in Writer, PushChunk(w) PROVE EofInv'
  <2>1. ~finished /\ UNCHANGED outcome
    BY <1>4, HolderFacts DEF PushChunk, Holding
  <2> QED
    BY <2>1 DEF IndInv, EofInv
<1>5. ASSUME NEW w \in Writer, SendReturns(w) PROVE EofInv'
  BY <1>0, <1>5 DEF SendReturns, Leave
<1>6. ASSUME NEW w \in Writer, FinishReturns(w) PROVE EofInv'
  BY <1>6 DEF FinishReturns, IndInv, EofInv
<1>7. ASSUME NEW w \in Writer, ConsumerClosed(w) PROVE EofInv'
  BY <1>0, <1>7 DEF ConsumerClosed, Leave
<1>8. ASSUME NEW w \in Writer, CallCancelled(w) PROVE EofInv'
  BY <1>0, <1>8 DEF CallCancelled, Leave
<1>9. ASSUME NEW w \in Writer, DropCall(w) PROVE EofInv'
  BY <1>0, <1>9 DEF DropCall, Leave
<1>10. ASSUME NEW w \in Writer, DropGuard(w) PROVE EofInv'
  BY <1>0, <1>10 DEF DropGuard, Fail
<1>11. ASSUME ProducerFails PROVE EofInv'
  BY <1>0, <1>11 DEF ProducerFails, Fail
<1>12. ASSUME DropWriter PROVE EofInv'
  BY <1>0, <1>12 DEF DropWriter
<1>13. ASSUME PollCancelled PROVE EofInv'
  BY <1>13 DEF PollCancelled, EofInv
<1>14. ASSUME PollData PROVE EofInv'
  BY <1>14 DEF PollData, EofInv
<1>15. ASSUME PollFinish PROVE EofInv'
  <2>1. /\ queue # <<>> /\ queue[1] = Finish /\ Flowing
        /\ UNCHANGED <<delivered, accepted, finished>>
    BY <1>15 DEF PollFinish, Flowing, IndInv, TypeOK
  <2>2. queue \in Seq(Data \cup {Finish}) /\ delivered \in Seq(Data) /\ accepted \in Seq(Data)
    BY DEF IndInv, TypeOK
  <2>3. finished /\ 1 = Len(queue)
    <3>1. 1 \in 1 .. Len(queue)
      BY <2>1, <2>2
    <3> QED
      BY <2>1, <3>1 DEF IndInv, QueueInv
  <2>4. Len(accepted) = Len(delivered)
    <3>1. Len(accepted) = Taken - 1
      BY <2>1, <2>3 DEF IndInv, RestInv
    <3>2. Taken = Len(delivered) + 1
      BY <2>3 DEF Taken
    <3>3. Len(delivered) \in Nat
      BY <2>2
    <3> QED
      BY <3>1, <3>2, <3>3
  <2>5. delivered = accepted
    BY <2>2, <2>4, SameByElement DEF IndInv, DeliverInv
  <2> QED
    BY <2>1, <2>3, <2>5 DEF EofInv
<1>16. ASSUME PollOrphaned PROVE EofInv'
  BY <1>16 DEF PollOrphaned, EofInv
<1>17. ASSUME DropBody PROVE EofInv'
  BY <1>17 DEF DropBody, EofInv
<1>18. ASSUME UNCHANGED vars PROVE EofInv'
  BY <1>0, <1>18 DEF vars
<1> QED
  BY <1>1, <1>2, <1>3, <1>4, <1>5, <1>6, <1>7, <1>8, <1>9, <1>10, <1>11, <1>12,
     <1>13, <1>14, <1>15, <1>16, <1>17, <1>18 DEF Next, CallStep, Poll

-----------------------------------------------------------------------------
\* The channel.

\* The type invariant, however calls are dropped.
THEOREM TypeCorrect == Spec => []TypeOK
<1>1. Init => BaseInv
  <2> SUFFICES ASSUME Init PROVE BaseInv
    OBVIOUS
  <2>1. SeqType /\ CallType /\ FlagType
    BY InitType
  <2>2. LockInv /\ CallInv
    BY UploadAssumption DEF Init, LockInv, CallInv, Holding, Call
  <2> QED
    BY <2>1, <2>2, TypeParts DEF BaseInv
<1>2. BaseInv /\ [Next]_vars => BaseInv'
  BY TypeStep, LockStep, CallStepKeeps DEF BaseInv
<1>3. BaseInv => TypeOK
  BY DEF BaseInv
<1> QED
  BY <1>1, <1>2, <1>3, PTL DEF Spec

\* IndInv holds at the start.
LEMMA Starts == Init => IndInv
<1> SUFFICES ASSUME Init PROVE IndInv
  OBVIOUS
<1>1. SeqType /\ CallType /\ FlagType
  BY InitType
<1>2. LockInv /\ CallInv /\ DropInv /\ AcceptInv
  BY UploadAssumption DEF Init, LockInv, CallInv, DropInv, AcceptInv, Holding, Call
<1>3. DeliverInv /\ QueueInv /\ RestInv /\ EofInv
  BY DEF Init, DeliverInv, QueueInv, RestInv, Taken, EofInv
<1> QED
  BY <1>1, <1>2, <1>3, TypeParts DEF IndInv

\* IndInv holds as long as calls are dropped one at a time.
THEOREM Inductive ==
  ASSUME ~DropsRace
  PROVE  Spec => []IndInv
<1>1. Init => IndInv
  BY Starts
<1>2. IndInv /\ [Next]_vars => IndInv'
  BY TypeStep, LockStep, CallStepKeeps, DropStep, AcceptStep, DeliverStep, QueueStep,
     RestStep, EofStep DEF IndInv, BaseInv
<1> QED
  BY <1>1, <1>2, PTL DEF Spec

\* UploadBody reports EOF only after a finish, when every send that put a chunk
\* into the queue, or that returned, has been delivered whole.  The assumption is
\* what the finding about racing drops shows to be needed.
THEOREM EofCorrect ==
  ASSUME ~DropsRace
  PROVE  Spec => []EofIsComplete
<1>1. IndInv => EofIsComplete
  <2> SUFFICES ASSUME IndInv, outcome = "eof" PROVE EofIsComplete
    BY DEF EofIsComplete
  <2>1. finished /\ delivered = accepted
    BY DEF IndInv, EofInv
  <2>2. ASSUME NEW c \in Call, pushed[c] > 0 \/ result[c] = "ok", NEW i \in 1 .. total[c]
        PROVE  pushed[c] > 0
    BY <2>2, UploadAssumption DEF IndInv, TypeOK, CallInv
  <2>3. ASSUME NEW c \in Call, pushed[c] > 0 \/ result[c] = "ok", NEW i \in 1 .. total[c]
        PROVE  \E j \in DOMAIN delivered : delivered[j] = <<c, i>>
    BY <2>1, <2>2, <2>3 DEF IndInv, AcceptInv
  <2> QED
    BY <2>1, <2>3 DEF EofIsComplete
<1> QED
  BY <1>1, Inductive, PTL

\* A step of the channel is one of the stream it promises, or none.
LEMMA PromiseStep ==
  ASSUME IndInv, IndInv', [Next]_vars
  PROVE  [Promise!Next]_Promise!vars
<1> USE DEF body, writers
<1>0. ASSUME UNCHANGED <<accepted, finished, delivered, outcome>>
      PROVE  [Promise!Next]_Promise!vars
  BY <1>0 DEF Promise!vars
<1>1. ASSUME NEW w \in Writer, NEW n \in 0 .. MaxChunks, StartSend(w, n) PROVE [Promise!Next]_Promise!vars
  BY <1>0, <1>1 DEF StartSend
<1>2. ASSUME NEW w \in Writer, StartFinish(w) PROVE [Promise!Next]_Promise!vars
  BY <1>0, <1>2 DEF StartFinish
<1>3. ASSUME NEW w \in Writer, Acquire(w) PROVE [Promise!Next]_Promise!vars
  BY <1>0, <1>3 DEF Acquire, Leave
<1>4. ASSUME NEW w \in Writer, PushChunk(w) PROVE [Promise!Next]_Promise!vars
  <2>1. UNCHANGED <<finished, delivered, outcome>> /\ ~finished
    BY <1>4, HolderFacts DEF PushChunk, Holding
  <2>2. CASE pushed[call[w]] # 0
    BY <1>4, <1>0, <2>1, <2>2, PushAccepts
  <2>3. CASE pushed[call[w]] = 0
    <3>1. /\ Len(accepted') = Len(accepted) + total[call[w]] /\ total[call[w]] > 0
          /\ \A i \in 1 .. Len(accepted) : accepted'[i] = accepted[i]
          /\ total[call[w]] \in Nat
      BY <1>4, <2>3, PushAccepts
    <3>2. accepted \in Seq(Data) /\ accepted' \in Seq(Data)
      BY DEF IndInv, TypeOK
    <3>3. Promise!IsPrefixOf(accepted, accepted')
      BY <3>1, <3>2, PrefixByElement
    <3>4. accepted' # accepted
      BY <3>1, <3>2
    <3>5. Promise!Add
      BY <2>1, <3>3, <3>4 DEF Promise!Add
    <3> QED
      BY <3>5 DEF Promise!Next
  <2> QED
    BY <2>2, <2>3
<1>5. ASSUME NEW w \in Writer, SendReturns(w) PROVE [Promise!Next]_Promise!vars
  BY <1>0, <1>5 DEF SendReturns, Leave
<1>6. ASSUME NEW w \in Writer, FinishReturns(w) PROVE [Promise!Next]_Promise!vars
  <2>1. ~finished /\ finished' /\ UNCHANGED <<accepted, delivered, outcome>>
    BY <1>6, HolderFacts DEF FinishReturns, Holding
  <2>2. Promise!AskEnd
    BY <2>1 DEF Promise!AskEnd
  <2> QED
    BY <2>2 DEF Promise!Next
<1>7. ASSUME NEW w \in Writer, ConsumerClosed(w) PROVE [Promise!Next]_Promise!vars
  BY <1>0, <1>7 DEF ConsumerClosed, Leave
<1>8. ASSUME NEW w \in Writer, CallCancelled(w) PROVE [Promise!Next]_Promise!vars
  BY <1>0, <1>8 DEF CallCancelled, Leave
<1>9. ASSUME NEW w \in Writer, DropCall(w) PROVE [Promise!Next]_Promise!vars
  BY <1>0, <1>9 DEF DropCall, Leave
<1>10. ASSUME NEW w \in Writer, DropGuard(w) PROVE [Promise!Next]_Promise!vars
  BY <1>0, <1>10 DEF DropGuard, Fail
<1>11. ASSUME ProducerFails PROVE [Promise!Next]_Promise!vars
  BY <1>0, <1>11 DEF ProducerFails, Fail
<1>12. ASSUME DropWriter PROVE [Promise!Next]_Promise!vars
  BY <1>0, <1>12 DEF DropWriter
<1>13. ASSUME PollCancelled PROVE [Promise!Next]_Promise!vars
  <2>1. /\ outcome = "run" /\ outcome' = "error"
        /\ UNCHANGED <<accepted, delivered, finished>>
    BY <1>13 DEF PollCancelled
  <2>2. Promise!Fail
    BY <2>1 DEF Promise!Fail
  <2> QED
    BY <2>2 DEF Promise!Next
<1>14. ASSUME PollData PROVE [Promise!Next]_Promise!vars
  <2>1. /\ delivered' = Append(delivered, Head(queue)) /\ queue # <<>> /\ Head(queue) # Finish
        /\ UNCHANGED <<accepted, finished, outcome>> /\ outcome = "run"
    BY <1>14 DEF PollData
  <2>2. delivered \in Seq(Data) /\ delivered' \in Seq(Data) /\ accepted \in Seq(Data)
    BY <2>1 DEF IndInv, TypeOK
  <2>3. Promise!IsPrefixOf(delivered, delivered') /\ delivered' # delivered
    <3>1. Head(queue) \in Data
      BY <2>1 DEF IndInv, TypeOK
    <3>2. /\ Len(delivered') = Len(delivered) + 1
          /\ \A i \in 1 .. Len(delivered) : delivered'[i] = delivered[i]
      BY <2>1, <2>2, <3>1
    <3> QED
      BY <2>2, <3>2, PrefixByElement
  <2>4. Promise!IsPrefixOf(delivered', accepted)
    BY <2>1, <2>2, PrefixByElement DEF IndInv, DeliverInv
  <2>5. Promise!Deliver
    BY <2>1, <2>3, <2>4 DEF Promise!Deliver
  <2> QED
    BY <2>5 DEF Promise!Next
<1>15. ASSUME PollFinish PROVE [Promise!Next]_Promise!vars
  <2>1. /\ outcome = "run" /\ outcome' = "eof"
        /\ UNCHANGED <<accepted, delivered, finished>>
    BY <1>15 DEF PollFinish
  <2>2. finished /\ delivered = accepted
    BY <2>1 DEF IndInv, EofInv
  <2>3. Promise!End
    BY <2>1, <2>2 DEF Promise!End
  <2> QED
    BY <2>3 DEF Promise!Next
<1>16. ASSUME PollOrphaned PROVE [Promise!Next]_Promise!vars
  <2>1. /\ outcome = "run" /\ outcome' = "error"
        /\ UNCHANGED <<accepted, delivered, finished>>
    BY <1>16 DEF PollOrphaned
  <2>2. Promise!Fail
    BY <2>1 DEF Promise!Fail
  <2> QED
    BY <2>2 DEF Promise!Next
<1>17. ASSUME DropBody PROVE [Promise!Next]_Promise!vars
  <2>1. /\ outcome' = "dropped" /\ UNCHANGED <<accepted, delivered, finished>>
    BY <1>17 DEF DropBody
  <2>2. CASE outcome = "run"
    <3>1. Promise!Fail
      BY <2>1, <2>2 DEF Promise!Fail
    <3> QED
      BY <3>1 DEF Promise!Next
  <2>3. CASE outcome = "error"
    BY <2>1, <2>3 DEF Promise!vars
  <2> QED
    BY <1>17, <2>2, <2>3 DEF DropBody
<1>18. ASSUME UNCHANGED vars PROVE [Promise!Next]_Promise!vars
  BY <1>0, <1>18 DEF vars
<1> QED
  BY <1>1, <1>2, <1>3, <1>4, <1>5, <1>6, <1>7, <1>8, <1>9, <1>10, <1>11, <1>12,
     <1>13, <1>14, <1>15, <1>16, <1>17, <1>18 DEF Next, CallStep, Poll

\* The channel keeps the promise of BodyStream for any producers and capacity.
THEOREM ChannelImplements ==
  ASSUME ~DropsRace
  PROVE  Spec => IsBodyStream
<1>1. Init => Promise!Init
  BY DEF Init, Promise!Init
<1>2. IndInv /\ IndInv' /\ [Next]_vars => [Promise!Next]_Promise!vars
  BY PromiseStep
<1> QED
  BY <1>1, <1>2, Inductive, PTL DEF Spec, IsBodyStream, Promise!Spec

-----------------------------------------------------------------------------
\* The pumps.

\* A settled pump has finished or failed the upload before it says so; one that
\* never started has not called anything.
PumpInv ==
    /\ language \in {"python", "js"}
    /\ gone => step = "unstarted"
    /\ step = "ended" => finished
    /\ step = "failed" => cancelled
    /\ outer = "done" => step \in Settled \cup {"unstarted"}
    /\ step = "unstarted" => outer = "done"
    /\ outer = "new" \/ step = "unstarted" => HoldsNothing /\ language = "python"
    /\ pc \in [Writer -> Phase]

pumpAll == <<vars, pumpVars>>

\* Neither outcome is taken back by the channel.
LEMMA ChannelKeeps ==
  ASSUME PumpInv, (\E w \in Writer : CallStep(w) \/ DropCall(w)) \/ Poll \/ DropBody,
         UNCHANGED pumpVars
  PROVE  PumpInv'
<1>1. gone' = gone /\ (finished => finished') /\ (cancelled => cancelled')
  BY DEF PumpInv, CallStep, Poll, Acquire, PushChunk, SendReturns, FinishReturns,
     ConsumerClosed, CallCancelled, DropCall, DropGuard, PollCancelled, PollData,
     PollFinish, PollOrphaned, DropBody, Fail, body, state, writers
<1>2. (pc[Pump] = "idle" => pc'[Pump] = "idle") /\ pc' \in [Writer -> Phase]
  BY PumpAssumption DEF PumpInv, Phase, CallStep, Poll, Acquire, PushChunk, SendReturns, FinishReturns,
     ConsumerClosed, CallCancelled, DropCall, DropGuard, Leave, PollCancelled, PollData,
     PollFinish, PollOrphaned, DropBody, body, state, writers
<1> QED
  BY <1>1, <1>2 DEF PumpInv, pumpVars, HoldsNothing

\* Every step of a pump is one that the channel allows its producers.
LEMMA PumpStepKeeps ==
  ASSUME PumpInv, [PumpNext]_pumpAll
  PROVE  PumpInv' /\ [Next]_vars
<1> USE PumpAssumption DEF Settled, Running, HoldsNothing, Phase
<1> DEFINE Goal == PumpInv' /\ [Next]_vars
<1>1. ASSUME Raise, UNCHANGED <<queue, writers, body, language, notice, noticed>>,
             outer' = outer \/ outer' = "done", outer # "new", step # "unstarted"
      PROVE  Goal
  <2>1. ProducerFails
    BY <1>1 DEF Raise, ProducerFails, writers, PumpInv
  <2>2. PumpInv'
    BY <1>1 DEF Raise, Fail, PumpInv, writers
  <2> QED
    BY <2>1, <2>2 DEF Next
<1>2. ASSUME CallReturns PROVE Goal
  <2>1. CASE Raise
    BY <1>1, <1>2, <2>1 DEF CallReturns, PumpInv
  <2>2. CASE ~Raise
    BY <1>2, <2>2 DEF CallReturns, PumpInv, writers, body, state, vars
  <2> QED
    BY <2>1, <2>2
<1>3. ASSUME ReadStops PROVE Goal
  BY <1>1, <1>3 DEF ReadStops, PumpInv
<1>4. ASSUME LoopNotices PROVE Goal
  BY <1>4 DEF LoopNotices, PumpInv, vars
<1>5. ASSUME WaitReturns PROVE Goal
  BY <1>5 DEF WaitReturns, PumpInv, vars
<1>6. ASSUME TaskCancelled PROVE Goal
  BY <1>1, <1>6 DEF TaskCancelled, PumpInv
<1>7. ASSUME ClosedLocks \/ ClosedReturns PROVE Goal
  BY <1>7 DEF ClosedLocks, ClosedReturns, PumpInv, vars
<1>8. ASSUME BodyEnds PROVE Goal
  BY <1>8 DEF BodyEnds, PumpInv, vars
<1>9. ASSUME TrailersReady PROVE Goal
  <2>1. Next
    BY <1>9 DEF TrailersReady, Next
  <2> QED
    BY <1>9, <2>1 DEF TrailersReady, StartFinish, PumpInv
<1>10. ASSUME ApplicationRaises PROVE Goal
  BY <1>1, <1>10 DEF ApplicationRaises, PumpInv
<1>11. ASSUME NEW n \in 0 .. MaxChunks, ChunkRead(n) PROVE Goal
  <2>1. Next
    BY <1>11 DEF ChunkRead, Next
  <2> QED
    BY <1>11, <2>1 DEF ChunkRead, StartSend, PumpInv
<1>12. ASSUME PumpCancelled PROVE Goal
  BY <1>12 DEF PumpCancelled, PumpInv, vars
<1>13. ASSUME CallDestroyed PROVE Goal
  BY <1>13, ChannelKeeps DEF CallDestroyed, Next
<1>14. ASSUME CallStep(Pump) \/ Poll \/ DropBody, UNCHANGED pumpVars PROVE Goal
  BY <1>14, ChannelKeeps DEF Next
<1>15. ASSUME UNCHANGED pumpAll PROVE Goal
  BY <1>15 DEF pumpAll, pumpVars, PumpInv, vars
<1>16. ASSUME PumpStarts PROVE Goal
  BY <1>16 DEF PumpStarts, PumpInv, vars
<1>17. ASSUME UnstartedCancelled PROVE Goal
  BY <1>17 DEF UnstartedCancelled, PumpInv, vars
<1>18. ASSUME WriterReleased PROVE Goal
  <2>1. CASE DropWriter
    BY <1>18, <2>1 DEF WriterReleased, DropWriter, pumpVars, PumpInv, body, state, Next
  <2>2. CASE DropBody
    BY <1>18, <2>2, ChannelKeeps DEF WriterReleased, Next
  <2> QED
    BY <1>18, <2>1, <2>2 DEF WriterReleased
<1> QED
  BY <1>2, <1>3, <1>4, <1>5, <1>6, <1>7, <1>8, <1>9, <1>10, <1>11, <1>12, <1>13,
     <1>14, <1>15, <1>16, <1>17, <1>18 DEF PumpNext, LoopStep, NoticeStep

\* A pump is a producer of the channel like any other, cancelled or not.
THEOREM PumpUsesChannel == PumpSpec => Spec
<1>1. PumpInit => Init /\ PumpInv
  BY PumpAssumption DEF PumpInit, Init, PumpInv, Settled, HoldsNothing, Phase
<1>2. PumpInv /\ [PumpNext]_pumpAll => PumpInv' /\ [Next]_vars
  BY PumpStepKeeps
<1> QED
  BY <1>1, <1>2, PTL DEF PumpSpec, Spec, pumpAll

\* A pump that has ended, in either language, has queued the end or failed the
\* upload; a Python task cancelled before its first step has done neither, but keeps
\* nothing of the writer, so that it can be dropped (PumpInv, EndedPumpIsHeard).
THEOREM PumpCorrect == PumpSpec => []PumpSettles
<1>1. PumpInit => PumpInv
  BY PumpAssumption DEF PumpInit, Init, PumpInv, Settled, HoldsNothing, Phase
<1>2. PumpInv /\ [PumpNext]_pumpAll => PumpInv'
  BY PumpStepKeeps
<1>3. PumpInv => PumpSettles
  BY DEF PumpInv, PumpSettles, PumpEnded, Settled, HoldsNothing
<1> QED
  BY <1>1, <1>2, <1>3, PTL DEF PumpSpec, pumpAll

\* What a pump uploads is a body stream, the cancellation of its task included.
THEOREM PumpImplements ==
  ASSUME ~DropsRace
  PROVE  PumpSpec => IsBodyStream
BY PumpUsesChannel, ChannelImplements, PTL

=============================================================================
