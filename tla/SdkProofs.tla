----------------------------- MODULE SdkProofs ------------------------------
(***************************************************************************)
(* The parts of the SDK above the lifecycle, for any length of a response, *)
(* any origins and number of redirects, and any number of requests at a    *)
(* listener: one exchange (SdkExchange), a request of a language SDK       *)
(* (LanguageFetch) and a listener of a language SDK (LanguageServe).       *)
(***************************************************************************)
EXTENDS MCSdk, Sequences, TLAPS

-----------------------------------------------------------------------------
\* LanguageFetch

\* A hop has sent one request.  One with credentials follows no other origin, and
\* one with a body follows nothing.
RedirectInv ==
    /\ \A s \in sent : s.hop <= count /\ (s.hop = count => s.request = sending)
    /\ sending.credentials =>
         sending.origin = First /\ \A s \in sent : s.request.origin = First
    /\ sending.body => count = 0

\* Hops to come have nothing, hops that are over have released everything, and
\* what the present one has follows from where the call is.
HopInv ==
    /\ \A i \in Fetch!Hop : i > count => exchange[i] = "none" /\ pump[i] = "none"
    /\ \A i \in Fetch!Hop : i < count => exchange[i] # "live" /\ pump[i] \notin Fetch!PumpLive
    /\ phase \in {"enter", "trailers", "starting"} =>
         exchange[count] = "none" /\ pump[count] = "none"
    /\ phase = "started" => pump[count] = "none"
    /\ phase \in {"releasing", "failing", "rejected"} => exchange[count] # "live"
    /\ phase = "rejected" => pump[count] \notin Fetch!PumpLive

FetchInv == Fetch!TypeOK /\ RedirectInv /\ HopInv /\ RedirectsAreSafe

\* Cancelling an exchange touches no other and leaves none of it live.
LEMMA CancelledIs ==
    ASSUME Fetch!TypeOK, NEW i \in Fetch!Hop
    PROVE  /\ Fetch!Cancelled(i) \in [Fetch!Hop -> {"none", "live", "cancelled", "ended"}]
           /\ \A j \in Fetch!Hop \ {i} : Fetch!Cancelled(i)[j] = exchange[j]
           /\ Fetch!Cancelled(i)[i] # "live"
           /\ exchange[i] = "none" => Fetch!Cancelled(i)[i] = "none"
BY DEF Fetch!Cancelled, Fetch!TypeOK

\* Every step of a fetch keeps the types.
LEMMA FetchTypes == Fetch!TypeOK /\ [Fetch!Next]_Fetch!vars => Fetch!TypeOK'
<1> SUFFICES ASSUME Fetch!TypeOK, [Fetch!Next]_Fetch!vars PROVE Fetch!TypeOK'
  OBVIOUS
<1> USE SdkAssumption DEF Fetch!TypeOK
<1>c. Fetch!Cancelled(count) \in [Fetch!Hop -> {"none", "live", "cancelled", "ended"}]
  BY CancelledIs
<1>1. CASE Fetch!Enter
  BY <1>1 DEF Fetch!Enter, Fetch!Settled
<1>2. CASE Fetch!TrailersReady
  BY <1>2 DEF Fetch!TrailersReady, Fetch!Settled
<1>3. CASE Fetch!NativeStarts
  <2>1. [hop |-> count, request |-> sending] \in [hop : Fetch!Hop, request : Fetch!HopRequest]
    OBVIOUS
  <2>2. sent' \subseteq [hop : Fetch!Hop, request : Fetch!HopRequest]
    BY <1>3, <2>1 DEF Fetch!NativeStarts
  <2>3. exchange' \in [Fetch!Hop -> {"none", "live", "cancelled", "ended"}]
    BY <1>3 DEF Fetch!NativeStarts
  <2> QED
    BY <1>3, <2>2, <2>3 DEF Fetch!NativeStarts, Fetch!Settled
<1>4. CASE Fetch!StartReturns
  BY <1>4, <1>c DEF Fetch!StartReturns, Fetch!Settled, Fetch!PumpLive
<1>5. ASSUME NEW redirect \in BOOLEAN, Fetch!HeadersReturn(redirect) PROVE Fetch!TypeOK'
  BY <1>5, <1>c DEF Fetch!HeadersReturn, Fetch!Settled
<1>6. CASE Fetch!HeadersFail
  BY <1>6, <1>c DEF Fetch!HeadersFail, Fetch!Settled
<1>7. CASE Fetch!FailReturns
  BY <1>7 DEF Fetch!FailReturns, Fetch!Settled
<1>8. ASSUME NEW status \in Fetch!Status, NEW o \in Origin, Fetch!Redirect(status, o)
      PROVE  Fetch!TypeOK'
  <2>1. UNCHANGED <<client, mode, exchange, pump, aborted, endpoint, scope, awaited, sent>>
    BY <1>8 DEF Fetch!Redirect
  <2>2. phase' \in {"enter", "rejected"}
    BY <1>8 DEF Fetch!Redirect
  <2>3. count' = count \/ (count < MaxRedirects /\ count' = count + 1)
    BY <1>8 DEF Fetch!Redirect
  <2>4. count' \in Fetch!Hop
    BY <2>3 DEF Fetch!Hop
  <2>5. \/ sending' = sending
        \/ sending' = [origin |-> o, credentials |-> Fetch!KeepsCredentials(o), body |-> FALSE,
                       post |-> sending.post /\ ~Fetch!BecomesGet(status)]
    BY <1>8 DEF Fetch!Redirect
  <2>6. Fetch!KeepsCredentials(o) \in BOOLEAN /\ (sending.post /\ ~Fetch!BecomesGet(status)) \in BOOLEAN
    BY Zenon DEF Fetch!KeepsCredentials
  <2>7. sending' \in Fetch!HopRequest
    <3>1. CASE sending' = sending
      BY <3>1
    <3>2. CASE sending' # sending
      <4> DEFINE keeps == Fetch!KeepsCredentials(o)
                 posts == sending.post /\ ~Fetch!BecomesGet(status)
      <4>1. keeps \in BOOLEAN /\ posts \in BOOLEAN
        BY <2>6
      <4>2. sending' = [origin |-> o, credentials |-> keeps, body |-> FALSE, post |-> posts]
        BY <2>5, <3>2
      <4> HIDE DEF keeps, posts
      <4> QED
        BY <4>1, <4>2 DEF Fetch!HopRequest
    <3> QED
      BY <3>1, <3>2
  <2> HIDE DEF Fetch!TypeOK
  <2>8. Fetch!TypeOK
    OBVIOUS
  <2> QED
    BY <2>1, <2>2, <2>4, <2>7, <2>8 DEF Fetch!TypeOK, Fetch!Settled
<1>9. CASE Fetch!Abort
  BY <1>9, <1>c DEF Fetch!Abort, Fetch!Settled
<1>10. CASE Fetch!ReleaseResponse
  BY <1>10, <1>c DEF Fetch!ReleaseResponse
<1>11. CASE Fetch!Close \/ Fetch!CloseReturnsNative \/ Fetch!CloseReturns
  BY <1>11 DEF Fetch!Close, Fetch!CloseReturnsNative, Fetch!CloseReturns
<1>12. CASE Fetch!NativeCloses
  BY <1>12 DEF Fetch!NativeCloses
<1>13. ASSUME NEW i \in Fetch!Hop,
              Fetch!ExchangeEnds(i) \/ Fetch!AwaitTrailers(i) \/ Fetch!PumpEnds(i)
       PROVE  Fetch!TypeOK'
  BY <1>13 DEF Fetch!ExchangeEnds, Fetch!AwaitTrailers, Fetch!PumpEnds, Fetch!PumpLive
<1>14. CASE UNCHANGED Fetch!vars
  BY <1>14 DEF Fetch!vars
<1> QED
  BY <1>1, <1>2, <1>3, <1>4, <1>5, <1>6, <1>7, <1>8, <1>9, <1>10, <1>11, <1>12, <1>13,
     <1>14 DEF Fetch!Next, Fetch!LoopStep

\* Redirects keep the requests they have sent apart.
LEMMA RedirectStep ==
    FetchInv /\ [Fetch!Next]_Fetch!vars => RedirectInv' /\ RedirectsAreSafe'
<1> SUFFICES ASSUME FetchInv, [Fetch!Next]_Fetch!vars PROVE RedirectInv' /\ RedirectsAreSafe'
  OBVIOUS
<1> USE SdkAssumption
<1>i. Fetch!TypeOK /\ RedirectInv /\ RedirectsAreSafe
  BY DEF FetchInv
<1>t. /\ count \in Nat /\ sending \in Fetch!HopRequest
      /\ \A s \in sent : s.hop \in Nat
  BY <1>i DEF Fetch!TypeOK, Fetch!Hop
<1>1. ASSUME UNCHANGED <<sent, sending, count>> PROVE RedirectInv' /\ RedirectsAreSafe'
  BY <1>1, <1>i DEF RedirectInv, RedirectsAreSafe, Fetch!RedirectsAreSafe
<1>2. ASSUME sent' = sent \cup {[hop |-> count, request |-> sending]}, UNCHANGED <<sending, count>>
      PROVE  RedirectInv' /\ RedirectsAreSafe'
  <2> DEFINE new == [hop |-> count, request |-> sending]
  <2>1. new.hop = count /\ new.request = sending
    OBVIOUS
  <2> HIDE DEF new
  <2>2. sent' = sent \cup {new}
    BY <1>2 DEF new
  <2>3. RedirectInv'
    BY <1>i, <1>t, <1>2, <2>1, <2>2 DEF RedirectInv
  <2>4. ASSUME NEW s \in sent', s.request.credentials, NEW t \in sent', t.hop <= s.hop
        PROVE  t.request.origin = First
    <3>1. CASE s \in sent /\ t \in sent
      BY <1>i, <2>4, <3>1 DEF RedirectsAreSafe, Fetch!RedirectsAreSafe
    <3>2. CASE s = new
      BY <1>i, <2>1, <2>2, <2>4, <3>2 DEF RedirectInv
    <3>3. CASE s \in sent /\ t = new
      <4>1. s.hop = count
        BY <1>i, <1>t, <2>1, <2>4, <3>3 DEF RedirectInv
      <4>2. s.request = sending
        BY <1>i, <3>3, <4>1 DEF RedirectInv
      <4> QED
        BY <1>i, <2>1, <2>4, <3>3, <4>2 DEF RedirectInv
    <3> QED
      BY <2>2, <3>1, <3>2, <3>3
  <2>5. ASSUME NEW s \in sent', s.request.body PROVE s.hop = 0
    BY <1>i, <2>1, <2>2, <2>5 DEF RedirectInv, RedirectsAreSafe, Fetch!RedirectsAreSafe
  <2> QED
    BY <2>3, <2>4, <2>5 DEF RedirectsAreSafe, Fetch!RedirectsAreSafe
<1>3. ASSUME NEW status \in Fetch!Status, NEW o \in Origin, Fetch!Redirect(status, o)
      PROVE  RedirectInv' /\ RedirectsAreSafe'
  <2>1. CASE UNCHANGED <<sending, count>>
    BY <1>1, <1>3, <2>1 DEF Fetch!Redirect
  <2>2. ASSUME sending' = [origin |-> o, credentials |-> Fetch!KeepsCredentials(o),
                           body |-> FALSE,
                           post |-> sending.post /\ ~Fetch!BecomesGet(status)],
               count' = count + 1
        PROVE  RedirectInv' /\ RedirectsAreSafe'
    <3>1. sent' = sent
      BY <1>3 DEF Fetch!Redirect
    <3>2. /\ sending'.origin = o /\ ~sending'.body
          /\ sending'.credentials => sending.credentials /\ o = sending.origin
      BY <2>2 DEF Fetch!KeepsCredentials
    <3>3. \A s \in sent : s.hop <= count' /\ s.hop # count'
      BY <1>i, <1>t, <2>2 DEF RedirectInv
    <3>4. RedirectInv'
      BY <1>i, <3>1, <3>2, <3>3 DEF RedirectInv
    <3> QED
      BY <1>i, <3>1, <3>4 DEF RedirectsAreSafe, Fetch!RedirectsAreSafe
  <2> QED
    BY <1>3, <2>1, <2>2 DEF Fetch!Redirect
<1>4. CASE Fetch!NativeStarts
  BY <1>1, <1>2, <1>4 DEF Fetch!NativeStarts
<1>5. ASSUME \/ Fetch!Enter \/ Fetch!TrailersReady \/ Fetch!StartReturns \/ Fetch!FailReturns
             \/ Fetch!CloseReturnsNative \/ Fetch!CloseReturns \/ Fetch!HeadersFail
             \/ \E redirect \in BOOLEAN : Fetch!HeadersReturn(redirect)
             \/ Fetch!Abort \/ Fetch!ReleaseResponse \/ Fetch!Close \/ Fetch!NativeCloses
             \/ \E i \in Fetch!Hop :
                  Fetch!ExchangeEnds(i) \/ Fetch!AwaitTrailers(i) \/ Fetch!PumpEnds(i)
             \/ UNCHANGED Fetch!vars
      PROVE  RedirectInv' /\ RedirectsAreSafe'
  BY <1>1, <1>5 DEF Fetch!Enter, Fetch!TrailersReady, Fetch!StartReturns,
       Fetch!FailReturns,
       Fetch!CloseReturnsNative, Fetch!CloseReturns, Fetch!HeadersFail,
       Fetch!HeadersReturn,
       Fetch!Abort, Fetch!ReleaseResponse, Fetch!Close, Fetch!NativeCloses,
       Fetch!ExchangeEnds, Fetch!AwaitTrailers, Fetch!PumpEnds, Fetch!vars
<1> QED
  BY <1>3, <1>4, <1>5 DEF Fetch!Next, Fetch!LoopStep

\* A hop takes up what the next one needs and lets go of what the last one had.
LEMMA HopStep == FetchInv /\ [Fetch!Next]_Fetch!vars => HopInv'
<1> SUFFICES ASSUME FetchInv, [Fetch!Next]_Fetch!vars PROVE HopInv'
  OBVIOUS
<1> USE SdkAssumption
<1>i. Fetch!TypeOK /\ HopInv
  BY DEF FetchInv
<1>t. /\ count \in Fetch!Hop /\ Fetch!Hop \subseteq Nat
      /\ exchange \in [Fetch!Hop -> {"none", "live", "cancelled", "ended"}]
      /\ pump \in [Fetch!Hop -> {"none", "settled"} \cup Fetch!PumpLive]
  BY <1>i DEF Fetch!TypeOK, Fetch!Hop
<1>c. /\ \A j \in Fetch!Hop \ {count} : Fetch!Cancelled(count)[j] = exchange[j]
      /\ Fetch!Cancelled(count)[count] # "live"
      /\ exchange[count] = "none" => Fetch!Cancelled(count)[count] = "none"
  BY <1>i, <1>t, CancelledIs
<1>n. \A i \in Fetch!Hop : ~(i > i) /\ ~(i < i)
  BY <1>t
<1>1. CASE Fetch!Enter
  BY <1>1, <1>i DEF Fetch!Enter, HopInv, Fetch!PumpLive
<1>2. CASE Fetch!TrailersReady
  BY <1>2, <1>i DEF Fetch!TrailersReady, HopInv, Fetch!PumpLive
<1>3. CASE Fetch!NativeStarts
  <2>1. \A i \in Fetch!Hop : i # count => exchange'[i] = exchange[i]
    BY <1>3, <1>t DEF Fetch!NativeStarts
  <2>2. UNCHANGED <<pump, count>> /\ phase' \in {"started", "rejected"}
        /\ phase = "starting" /\ (phase' = "rejected" => exchange' = exchange)
    BY <1>3 DEF Fetch!NativeStarts
  <2> QED
    BY <1>i, <1>t, <1>n, <2>1, <2>2 DEF HopInv, Fetch!PumpLive
<1>4. CASE Fetch!StartReturns
  <2>1. \A i \in Fetch!Hop : i # count => exchange'[i] = exchange[i] /\ pump'[i] = pump[i]
    BY <1>4, <1>t, <1>c DEF Fetch!StartReturns
  <2>2. /\ count' = count /\ phase = "started"
        /\ phase' = "headers" \/ (phase' = "rejected" /\ exchange'[count] # "live" /\ pump' = pump)
    BY <1>4, <1>c DEF Fetch!StartReturns
  <2> QED
    BY <1>i, <1>t, <1>n, <2>1, <2>2 DEF HopInv, Fetch!PumpLive
<1>5. ASSUME \/ Fetch!HeadersFail \/ Fetch!ReleaseResponse \/ Fetch!FailReturns
             \/ \E redirect \in BOOLEAN : Fetch!HeadersReturn(redirect)
      PROVE  HopInv'
  <2>1. \A i \in Fetch!Hop : i # count => exchange'[i] = exchange[i]
    BY <1>5, <1>c DEF Fetch!HeadersFail, Fetch!ReleaseResponse, Fetch!FailReturns,
         Fetch!HeadersReturn
  <2>2. /\ UNCHANGED <<pump, count>>
        /\ \/ phase' = "response"
           \/ phase' \in {"releasing", "failing"} /\ exchange'[count] # "live"
           \/ phase' = "rejected" /\ phase = "failing" /\ exchange' = exchange /\ pump[count] \notin Fetch!PumpLive
    BY <1>5, <1>c DEF Fetch!HeadersFail, Fetch!ReleaseResponse, Fetch!FailReturns,
         Fetch!HeadersReturn
  <2> QED
    BY <1>i, <1>t, <1>n, <2>1, <2>2 DEF HopInv
<1>6. ASSUME NEW status \in Fetch!Status, NEW o \in Origin, Fetch!Redirect(status, o)
      PROVE  HopInv'
  <2>1. /\ phase = "releasing" /\ pump[count] \notin Fetch!PumpLive /\ UNCHANGED <<exchange, pump>>
        /\ \/ count < MaxRedirects /\ count' = count + 1 /\ phase' = "enter"
           \/ count' = count /\ phase' = "rejected"
    BY <1>6 DEF Fetch!Redirect
  <2>2. CASE count' = count /\ phase' = "rejected"
    BY <1>i, <2>1, <2>2 DEF HopInv
  <2>3. CASE count < MaxRedirects /\ count' = count + 1 /\ phase' = "enter"
    <3>1. count + 1 \in Fetch!Hop /\ count + 1 > count
      BY <1>t, <2>3 DEF Fetch!Hop
    <3>2. \A i \in Fetch!Hop : i > count + 1 => i > count
      BY <1>t
    <3>3. \A i \in Fetch!Hop : i < count + 1 => i < count \/ i = count
      BY <1>t
    <3> QED
      BY <1>i, <2>1, <2>3, <3>1, <3>2, <3>3 DEF HopInv
  <2> QED
    BY <2>1, <2>2, <2>3
<1>7. CASE Fetch!Abort
  <2>1. \A i \in Fetch!Hop : i # count => exchange'[i] = exchange[i]
    BY <1>7, <1>c DEF Fetch!Abort
  <2>2. /\ UNCHANGED <<pump, count>>
        /\ exchange'[count] = exchange[count] \/ exchange'[count] # "live"
        /\ exchange[count] = "none" => exchange'[count] = "none"
        /\ \/ phase' = phase
           \/ phase' \in {"rejected", "failing"} /\ exchange'[count] # "live"
        /\ phase' = "rejected" => phase \in {"starting", "started", "rejected"}
    BY <1>7, <1>c DEF Fetch!Abort
  <2> QED
    BY <1>i, <1>t, <1>n, <2>1, <2>2 DEF HopInv, Fetch!PumpLive
<1>8. CASE Fetch!Close \/ Fetch!CloseReturnsNative \/ Fetch!CloseReturns \/ UNCHANGED Fetch!vars
  <2>1. UNCHANGED <<phase, count, exchange, pump>>
    BY <1>8 DEF Fetch!Close, Fetch!CloseReturnsNative, Fetch!CloseReturns, Fetch!vars
  <2> QED
    BY <1>i, <2>1 DEF HopInv
<1>9. CASE Fetch!NativeCloses
  <2>1. UNCHANGED <<phase, count, pump>>
        /\ \A i \in Fetch!Hop : /\ exchange'[i] # "live"
                                /\ exchange[i] = "none" => exchange'[i] = "none"
    BY <1>9, <1>t DEF Fetch!NativeCloses
  <2> QED
    BY <1>i, <1>t, <2>1 DEF HopInv
<1>10. ASSUME NEW i \in Fetch!Hop,
              Fetch!ExchangeEnds(i) \/ Fetch!AwaitTrailers(i) \/ Fetch!PumpEnds(i)
       PROVE  HopInv'
  <2>1. /\ UNCHANGED <<phase, count>>
        /\ \A j \in Fetch!Hop :
             /\ exchange'[j] = exchange[j] \/ (exchange[j] # "none" /\ exchange'[j] # "live")
             /\ pump[j] = "none" => pump'[j] = "none"
             /\ pump'[j] \in Fetch!PumpLive => pump[j] \in Fetch!PumpLive
    BY <1>10, <1>t DEF Fetch!ExchangeEnds, Fetch!AwaitTrailers, Fetch!PumpEnds, Fetch!PumpLive
  <2> QED
    BY <1>i, <1>t, <2>1 DEF HopInv
<1> QED
  BY <1>1, <1>2, <1>3, <1>4, <1>5, <1>6, <1>7, <1>8, <1>9, <1>10 DEF Fetch!Next,
       Fetch!LoopStep

\* The inductive invariant of a fetch.
LEMMA FetchInductive == Fetch!Spec => []FetchInv
<1>1. Fetch!Init => FetchInv
  <2> SUFFICES ASSUME Fetch!Init PROVE FetchInv
    OBVIOUS
  <2> USE SdkAssumption DEF Fetch!Init
  <2>1. Fetch!TypeOK
    <3>1. sending \in Fetch!HopRequest
      BY DEF Fetch!HopRequest
    <3>2. count \in Fetch!Hop
      BY DEF Fetch!Hop
    <3> QED
      BY <3>1, <3>2 DEF Fetch!TypeOK
  <2>2. RedirectInv /\ RedirectsAreSafe
    BY DEF RedirectInv, RedirectsAreSafe, Fetch!RedirectsAreSafe
  <2>3. HopInv
    BY DEF HopInv, Fetch!Hop
  <2> QED
    BY <2>1, <2>2, <2>3 DEF FetchInv
<1>2. FetchInv /\ [Fetch!Next]_Fetch!vars => FetchInv'
  BY FetchTypes, RedirectStep, HopStep DEF FetchInv
<1> QED
  BY <1>1, <1>2, PTL DEF Fetch!Spec

\* However often a fetch is redirected, to whatever origins, credentials go to the
\* first origin only and the body with the first request only (index.js fetch).
THEOREM RedirectsCorrect == Fetch!Spec => []RedirectsAreSafe
<1>1. FetchInv => RedirectsAreSafe
  BY DEF FetchInv
<1> QED
  BY <1>1, FetchInductive, PTL

\* A hop begins, and a fetch rejects, only when no exchange and no upload of the
\* request is at work (index.js fetch, endpoint.py _request).
THEOREM FetchCorrect == Fetch!Spec => []Fetch!FetchHoldsOne
<1>1. FetchInv => Fetch!FetchHoldsOne
  <2> SUFFICES ASSUME FetchInv, NEW i \in Fetch!Hop, i < count \/ phase = "rejected"
               PROVE  exchange[i] # "live" /\ pump[i] \notin Fetch!PumpLive
    BY DEF Fetch!FetchHoldsOne
  <2>1. HopInv /\ count \in Nat /\ i \in Nat
    BY DEF FetchInv, Fetch!TypeOK, Fetch!Hop
  <2>2. CASE i < count
    BY <2>1, <2>2 DEF HopInv
  <2>3. CASE i > count
    BY <2>1, <2>3 DEF HopInv, Fetch!PumpLive
  <2>4. CASE i = count /\ phase = "rejected"
    BY <2>1, <2>4 DEF HopInv
  <2>5. i < count \/ i > count \/ i = count
    BY <2>1
  <2>6. i = count => phase = "rejected"
    BY <2>1
  <2> QED
    BY <2>2, <2>3, <2>4, <2>5, <2>6
<1> QED
  BY <1>1, FetchInductive, PTL

-----------------------------------------------------------------------------
\* LanguageServe

\* From the moment the native close has returned there is no native handler, so no
\* callback can start a pump, and close waits for those there are.
QuietInv ==
    /\ listening \in {"tasks", "closed"} =>
         ended /\ \A h \in Stream : native[h] \in {"idle", "done"}
    /\ listening = "tasks" => \A h \in Stream : pumping[h] \in Serve!PumpLive => h \in joined
    /\ listening = "closed" => \A h \in Stream : pumping[h] \notin Serve!PumpLive

ServeInv == Serve!TypeOK /\ QuietInv

\* Every step of a listener keeps the types.
LEMMA ServeTypes == Serve!TypeOK /\ [Serve!Next]_Serve!vars => Serve!TypeOK'
<1> SUFFICES ASSUME Serve!TypeOK, [Serve!Next]_Serve!vars PROVE Serve!TypeOK'
  OBVIOUS
<1> USE DEF Serve!TypeOK
<1>1. ASSUME NEW h \in Stream,
             \/ Serve!Invoke(h) \/ Serve!NativeResumes(h) \/ Serve!NativeWrites(h)
             \/ Serve!NativeEnds(h)
      PROVE  Serve!TypeOK'
  BY <1>1 DEF Serve!Invoke, Serve!NativeResumes, Serve!NativeWrites, Serve!NativeEnds
<1>2. ASSUME NEW h \in Stream, Serve!BodyCancelled(h) \/ Serve!CallbackStarts(h)
      PROVE  Serve!TypeOK'
  BY <1>2 DEF Serve!BodyCancelled, Serve!CallbackStarts
<1>3. ASSUME NEW h \in Stream, Serve!Respond(h) PROVE Serve!TypeOK'
  BY <1>3 DEF Serve!Respond, Serve!PumpLive
<1>4. ASSUME NEW h \in Stream,
             \/ Serve!HandlerRaises(h) \/ Serve!HandlerStops(h) \/ Serve!AwaitTrailers(h)
             \/ Serve!PumpEnds(h)
      PROVE  Serve!TypeOK'
  BY <1>4 DEF Serve!HandlerRaises, Serve!HandlerStops, Serve!AwaitTrailers, Serve!PumpEnds,
       Serve!PumpLive
<1>5. CASE Serve!Close \/ Serve!NativeCloses \/ Serve!CloseReturns \/ UNCHANGED Serve!vars
  BY <1>5 DEF Serve!Close, Serve!NativeCloses, Serve!CloseReturns, Serve!vars
<1>6. CASE Serve!NativeCloseReturns
  BY <1>6 DEF Serve!NativeCloseReturns, Serve!Tasks
<1> QED
  BY <1>1, <1>2, <1>3, <1>4, <1>5, <1>6 DEF Serve!Next, Serve!LoopStep

\* The inductive invariant of a listener.
LEMMA ServeInductive == Serve!Spec => []ServeInv
<1>1. Serve!Init => ServeInv
  BY DEF Serve!Init, ServeInv, Serve!TypeOK, QuietInv
<1>2. ASSUME ServeInv, [Serve!Next]_Serve!vars PROVE QuietInv'
  <2>i. QuietInv /\ native \in [Stream -> {"idle", "calling", "writing", "body", "done"}]
        /\ pumping \in [Stream -> {"none", "settled"} \cup Serve!PumpLive]
    BY <1>2 DEF ServeInv, Serve!TypeOK
  <2>1. ASSUME NEW h \in Stream,
               \/ Serve!Invoke(h) \/ Serve!NativeResumes(h) \/ Serve!NativeWrites(h)
               \/ Serve!NativeEnds(h)
        PROVE  QuietInv'
    <3>1. /\ UNCHANGED <<pumping, listening, ended, joined>>
          /\ \A g \in Stream : native'[g] = native[g] \/ ~ended
                               \/ native[g] \in {"calling", "writing", "body"}
      BY <2>1, <2>i DEF Serve!Invoke, Serve!NativeResumes, Serve!NativeWrites, Serve!NativeEnds
    <3> QED
      BY <3>1, <2>i DEF QuietInv
  <2>2. ASSUME NEW h \in Stream,
               \/ Serve!BodyCancelled(h) \/ Serve!CallbackStarts(h) \/ Serve!HandlerRaises(h)
               \/ Serve!HandlerStops(h)
        PROVE  QuietInv'
    BY <2>2, <2>i DEF QuietInv, Serve!BodyCancelled, Serve!CallbackStarts,
         Serve!HandlerRaises, Serve!HandlerStops
  <2>3. ASSUME NEW h \in Stream, Serve!Respond(h) \/ Serve!AwaitTrailers(h) \/ Serve!PumpEnds(h)
        PROVE  QuietInv'
    <3>1. /\ UNCHANGED <<native, listening, ended, joined>>
          /\ \A g \in Stream : pumping'[g] \in Serve!PumpLive =>
                                 pumping[g] \in Serve!PumpLive \/ native[g] = "calling"
      BY <2>3, <2>i DEF Serve!Respond, Serve!AwaitTrailers, Serve!PumpEnds, Serve!PumpLive
    <3> QED
      BY <3>1, <2>i DEF QuietInv
  <2>4. CASE Serve!Close \/ Serve!NativeCloses \/ UNCHANGED Serve!vars
    BY <2>4, <2>i DEF QuietInv, Serve!Close, Serve!NativeCloses, Serve!vars
  <2>5. CASE Serve!NativeCloseReturns
    BY <2>5, <2>i DEF QuietInv, Serve!NativeCloseReturns, Serve!Tasks
  <2>6. CASE Serve!CloseReturns
    <3>1. \A h \in Stream : pumping[h] \notin Serve!PumpLive
      BY <2>6, <2>i DEF QuietInv, Serve!CloseReturns, Serve!Tasks
    <3> QED
      BY <2>6, <2>i, <3>1 DEF QuietInv, Serve!CloseReturns
  <2> QED
    BY <1>2, <2>1, <2>2, <2>3, <2>4, <2>5, <2>6 DEF Serve!Next, Serve!LoopStep
<1>3. ServeInv /\ [Serve!Next]_Serve!vars => ServeInv'
  BY <1>2, ServeTypes DEF ServeInv
<1> QED
  BY <1>1, <1>3, PTL DEF Serve!Spec

\* However many requests reach a listener, and wherever closing it finds their
\* callbacks, none of its handlers and pumps is at work once Listener.close() has
\* returned (index.js, endpoint.py, binding.rs).
THEOREM ListenerCorrect == Serve!Spec => []Serve!ListenerIsQuiet
<1>1. ServeInv => Serve!ListenerIsQuiet
  BY DEF ServeInv, QuietInv, Serve!ListenerIsQuiet
<1> QED
  BY <1>1, ServeInductive, PTL

\* Neither a fetch nor a closed listener leaves work behind.
THEOREM NothingLeft == Fetch!Spec /\ Serve!Spec => []NothingLeftBehind
<1>1. Fetch!FetchHoldsOne /\ Serve!ListenerIsQuiet => NothingLeftBehind
  BY DEF NothingLeftBehind
<1> QED
  BY <1>1, FetchCorrect, ListenerCorrect, PTL

-----------------------------------------------------------------------------
\* SdkExchange

Cancelling == failing \/ owner

\* Whoever cancels stores an error first, and an error that a task is about to store
\* says "cancelled" only if somebody gave up or another error was stored before.
CauseInv ==
    /\ failing => error # "none"
    /\ task = "failed" \/ recv = "erred" \/ completion = "error" \/ reply = "error" =>
         cause # "none"
    /\ cause = "cancelled" => error # "none" \/ abandoned \/ owner
    /\ response = "dropped" => abandoned

\* As long as nobody cancels, the call that the worker serves is still waiting; the
\* end of the body is published before anybody hears of it.
ServingInv ==
    /\ next = "idle" => reply = "none"
    /\ recv \in {"serving", "eof"} => Cancelling \/ (next = "waiting" /\ reply = "queued")
    /\ recv = "eof" => completion = "ok"
    /\ sawEnd \/ reply = "eof" => completion = "ok" \/ error # "none"
    /\ next = "waiting" => ~sawEnd /\ failed = "none"

InFlight == IF reply = "data" THEN 1 ELSE 0

\* No frame is lost on its way to the consumer as long as nobody cancels, and the
\* end is published when the last one has arrived.
CountInv ==
    /\ got + left + InFlight <= MaxData
    /\ Cancelling \/ got + left + InFlight = MaxData
    /\ completion = "ok" \/ reply = "eof" \/ sawEnd => got = MaxData

ExchangeInv ==
    Exchange!TypeOK /\ CauseInv /\ ServingInv /\ CountInv /\ EofKeepsUpload

\* Every step of an exchange keeps the types.
LEMMA ExchangeTypes == ExchangeInv /\ [Exchange!Next]_Exchange!vars => Exchange!TypeOK'
<1> SUFFICES ASSUME ExchangeInv, [Exchange!Next]_Exchange!vars PROVE Exchange!TypeOK'
  OBVIOUS
<1> USE SdkAssumption
<1>i. Exchange!TypeOK /\ CountInv
  BY DEF ExchangeInv
<1>1. CASE Exchange!Connected
  BY <1>i, <1>1 DEF Exchange!Connected, Exchange!AtAwait, Exchange!IsCancelled,
       Exchange!TypeOK, Exchange!Error, Exchange!NoError, CountInv, InFlight,
       Exchange!state, Exchange!consumer
<1>2. CASE Exchange!TaskCancelled
  BY <1>i, <1>2 DEF Exchange!TaskCancelled, Exchange!AtAwait, Exchange!IsCancelled,
       Exchange!ExchangeFails, Exchange!StateError, Exchange!TypeOK, Exchange!Error,
       Exchange!NoError, CountInv, InFlight, Exchange!state, Exchange!consumer
<1>3. CASE Exchange!DeadlineExpires
  BY <1>i, <1>3 DEF Exchange!DeadlineExpires, Exchange!AtAwait, Exchange!IsCancelled,
       Exchange!ExchangeFails, Exchange!TypeOK, Exchange!Error, Exchange!NoError,
       CountInv, InFlight, Exchange!state, Exchange!consumer
<1>4. CASE Exchange!TransportFails
  BY <1>i, <1>4 DEF Exchange!TransportFails, Exchange!AtAwait, Exchange!IsCancelled,
       Exchange!ExchangeFails, Exchange!TypeOK, Exchange!Error, Exchange!NoError,
       CountInv, InFlight, Exchange!state, Exchange!consumer
<1>5. CASE Exchange!PumpEnds
  BY <1>i, <1>5 DEF Exchange!PumpEnds, Exchange!AtAwait, Exchange!IsCancelled,
       Exchange!TypeOK, Exchange!Error, Exchange!NoError, CountInv, InFlight,
       Exchange!state, Exchange!consumer
<1>6. CASE Exchange!HeadersArrive
  BY <1>i, <1>6 DEF Exchange!HeadersArrive, Exchange!AtAwait, Exchange!IsCancelled,
       Exchange!ExchangeFails, Exchange!TypeOK, Exchange!Error, Exchange!NoError,
       CountInv, InFlight, Exchange!state, Exchange!consumer
<1>7. CASE Exchange!WorkerTakes
  BY <1>i, <1>7 DEF Exchange!WorkerTakes, Exchange!AtAwait, Exchange!IsCancelled,
       Exchange!TypeOK, Exchange!Error, Exchange!NoError, CountInv, InFlight,
       Exchange!state, Exchange!consumer
<1>8. CASE Exchange!WorkerData
  BY <1>i, <1>8 DEF Exchange!WorkerData, Exchange!AtAwait, Exchange!IsCancelled,
       Exchange!TypeOK, Exchange!Error, Exchange!NoError, CountInv, InFlight,
       Exchange!state, Exchange!consumer
<1>9. CASE Exchange!WorkerPublishesEnd
  BY <1>i, <1>9 DEF Exchange!WorkerPublishesEnd, Exchange!AtAwait,
       Exchange!IsCancelled, Exchange!TypeOK, Exchange!Error, Exchange!NoError,
       CountInv, InFlight, Exchange!state, Exchange!consumer
<1>10. CASE Exchange!WorkerEnd
  BY <1>i, <1>10 DEF Exchange!WorkerEnd, Exchange!TypeOK, Exchange!Error,
       Exchange!NoError, CountInv, InFlight, Exchange!state, Exchange!consumer
<1>11. CASE Exchange!WorkerErrs
  BY <1>i, <1>11 DEF Exchange!WorkerErrs, Exchange!AtAwait, Exchange!IsCancelled,
       Exchange!TypeOK, Exchange!Error, Exchange!NoError, CountInv, InFlight,
       Exchange!state, Exchange!consumer
<1>12. CASE Exchange!WorkerCancelled
  BY <1>i, <1>12 DEF Exchange!WorkerCancelled, Exchange!AtAwait, Exchange!IsCancelled,
       Exchange!StateError, Exchange!TypeOK, Exchange!Error, Exchange!NoError,
       CountInv, InFlight, Exchange!state, Exchange!consumer
<1>13. CASE Exchange!WorkerMarks
  BY <1>i, <1>13 DEF Exchange!WorkerMarks, Exchange!Fail, Exchange!ExchangeFails,
       Exchange!TypeOK, Exchange!Error, Exchange!NoError, CountInv, InFlight,
       Exchange!state, Exchange!consumer
<1>14. CASE Exchange!ExchangeSucceeds
  BY <1>i, <1>14 DEF Exchange!ExchangeSucceeds, Exchange!TypeOK, Exchange!Error,
       Exchange!NoError, CountInv, InFlight, Exchange!state, Exchange!consumer
<1>15. CASE Exchange!TaskMarks
  BY <1>i, <1>15 DEF Exchange!TaskMarks, Exchange!Fail, Exchange!TypeOK,
       Exchange!Error, Exchange!NoError, CountInv, InFlight, Exchange!state,
       Exchange!consumer
<1>16. CASE Exchange!TaskEnds
  BY <1>i, <1>16 DEF Exchange!TaskEnds, Exchange!TypeOK, Exchange!Error,
       Exchange!NoError, CountInv, InFlight, Exchange!state, Exchange!consumer
<1>17. CASE Exchange!ResponseReturns
  BY <1>i, <1>17 DEF Exchange!ResponseReturns, Exchange!TypeOK, Exchange!Error,
       Exchange!NoError, CountInv, InFlight, Exchange!state, Exchange!consumer,
       Exchange!worker
<1>18. CASE Exchange!ResponseDropped
  BY <1>i, <1>18 DEF Exchange!ResponseDropped, Exchange!Fail, Exchange!TypeOK,
       Exchange!Error, Exchange!NoError, CountInv, InFlight, Exchange!state,
       Exchange!consumer, Exchange!worker
<1>19. CASE Exchange!NextCall
  <2>1. UNCHANGED <<error, failing, owner, task, cause, upload, recv, left, response,
                    completion, reader, got, abandoned>>
    BY <1>19 DEF Exchange!NextCall, Exchange!state, Exchange!worker
  <2>2. Exchange!StateError \in Exchange!Error
    BY <1>i DEF Exchange!StateError, Exchange!TypeOK, Exchange!Error, Exchange!NoError
  <2>3. /\ next' = next \/ next' = "waiting"
        /\ reply' = reply \/ reply' = "queued"
        /\ sawEnd' = sawEnd \/ sawEnd' = TRUE
        /\ failed' = failed \/ failed' = Exchange!StateError \/ failed' = cause
    BY <1>19 DEF Exchange!NextCall
  <2>4. sawEnd' \in BOOLEAN /\ abandoned' \in BOOLEAN
    BY <1>i, <2>1, <2>3 DEF Exchange!TypeOK
  <2> QED
    BY <1>i, <2>1, <2>2, <2>3, <2>4 DEF Exchange!TypeOK
<1>20. CASE Exchange!NextReturns
  <2>1. UNCHANGED <<error, failing, owner, task, cause, upload, recv, left, response,
                    completion, reader, abandoned>>
    BY <1>20 DEF Exchange!NextReturns, Exchange!state, Exchange!worker
  <2>2. Exchange!StateError \in Exchange!Error
    BY <1>i DEF Exchange!StateError, Exchange!TypeOK, Exchange!Error, Exchange!NoError
  <2>3. /\ next' = "idle" /\ reply' = "none"
        /\ sawEnd' = sawEnd \/ sawEnd' = TRUE
        /\ failed' = failed \/ failed' = Exchange!StateError \/ failed' = cause
        /\ got' = got \/ (reply = "data" /\ got' = got + 1)
    BY <1>20 DEF Exchange!NextReturns
  <2>4. sawEnd' \in BOOLEAN /\ abandoned' \in BOOLEAN
    BY <1>i, <2>1, <2>3 DEF Exchange!TypeOK
  <2>5. got' \in 0 .. MaxData
    BY <1>i, <2>3 DEF Exchange!TypeOK, CountInv, InFlight
  <2> QED
    BY <1>i, <2>1, <2>2, <2>3, <2>4, <2>5 DEF Exchange!TypeOK
<1>21. CASE Exchange!NextDropped
  BY <1>i, <1>21 DEF Exchange!NextDropped, Exchange!Fail, Exchange!TypeOK,
       Exchange!Error, Exchange!NoError, CountInv, InFlight, Exchange!state,
       Exchange!consumer, Exchange!worker
<1>22. CASE Exchange!ReaderDropped
  <2>1. UNCHANGED <<owner, task, cause, upload, recv, left, response, completion, reply,
                    next, got, sawEnd, failed>>
    BY <1>22 DEF Exchange!ReaderDropped, Exchange!Fail, Exchange!state, Exchange!worker
  <2>2. /\ reader' = "dropped"
        /\ error' = error \/ error' = "cancelled"
        /\ failing' = failing \/ failing' = TRUE
    BY <1>22 DEF Exchange!ReaderDropped, Exchange!Fail, Exchange!state
  <2>3. abandoned' \in BOOLEAN
    BY <1>22, Zenon DEF Exchange!ReaderDropped
  <2>4. failing' \in BOOLEAN /\ owner' \in BOOLEAN /\ sawEnd' \in BOOLEAN
    BY <1>i, <2>1, <2>2 DEF Exchange!TypeOK
  <2> QED
    BY <1>i, <2>1, <2>2, <2>3, <2>4 DEF Exchange!TypeOK, Exchange!Error
<1>23. CASE Exchange!Cancel
  BY <1>i, <1>23 DEF Exchange!Cancel, Exchange!Fail, Exchange!TypeOK, Exchange!Error,
       Exchange!NoError, CountInv, InFlight, Exchange!state, Exchange!consumer,
       Exchange!worker
<1>24. CASE Exchange!OwnerCloses
  BY <1>i, <1>24 DEF Exchange!OwnerCloses, Exchange!TypeOK, Exchange!Error,
       Exchange!NoError, CountInv, InFlight, Exchange!state, Exchange!consumer,
       Exchange!worker
<1>25. CASE UNCHANGED Exchange!vars
  BY <1>i, <1>25 DEF Exchange!vars, Exchange!TypeOK, Exchange!Error, Exchange!NoError,
       CountInv, InFlight, Exchange!state, Exchange!consumer
<1> QED
  BY <1>1, <1>2, <1>3, <1>4, <1>5, <1>6, <1>7, <1>8, <1>9, <1>10, <1>11, <1>12, <1>13,
       <1>14, <1>15, <1>16, <1>17, <1>18, <1>19, <1>20, <1>21, <1>22, <1>23, <1>24,
       <1>25 DEF Exchange!Next, Exchange!TaskStep

\* Every step keeps track of why the exchange ends.
LEMMA CauseStep == ExchangeInv /\ [Exchange!Next]_Exchange!vars => (CauseInv /\ EofKeepsUpload)'
<1> SUFFICES ASSUME ExchangeInv, [Exchange!Next]_Exchange!vars PROVE (CauseInv /\ EofKeepsUpload)'
  OBVIOUS
<1> USE SdkAssumption
<1>i. Exchange!TypeOK /\ CauseInv /\ ServingInv /\ EofKeepsUpload
  BY DEF ExchangeInv
<1>1. CASE Exchange!Connected
  BY <1>i, <1>1 DEF Exchange!Connected, Exchange!AtAwait, Exchange!IsCancelled,
       Exchange!TypeOK, Exchange!Error, Exchange!NoError, CauseInv, ServingInv,
       Cancelling, EofKeepsUpload, Exchange!EofKeepsUpload, Exchange!state,
       Exchange!consumer
<1>2. CASE Exchange!TaskCancelled
  BY <1>i, <1>2 DEF Exchange!TaskCancelled, Exchange!AtAwait, Exchange!IsCancelled,
       Exchange!ExchangeFails, Exchange!StateError, Exchange!TypeOK, Exchange!Error,
       Exchange!NoError, CauseInv, ServingInv, Cancelling, EofKeepsUpload,
       Exchange!EofKeepsUpload, Exchange!state, Exchange!consumer
<1>3. CASE Exchange!DeadlineExpires
  BY <1>i, <1>3 DEF Exchange!DeadlineExpires, Exchange!AtAwait, Exchange!IsCancelled,
       Exchange!ExchangeFails, Exchange!TypeOK, Exchange!Error, Exchange!NoError,
       CauseInv, ServingInv, Cancelling, EofKeepsUpload, Exchange!EofKeepsUpload,
       Exchange!state, Exchange!consumer
<1>4. CASE Exchange!TransportFails
  BY <1>i, <1>4 DEF Exchange!TransportFails, Exchange!AtAwait, Exchange!IsCancelled,
       Exchange!ExchangeFails, Exchange!TypeOK, Exchange!Error, Exchange!NoError,
       CauseInv, ServingInv, Cancelling, EofKeepsUpload, Exchange!EofKeepsUpload,
       Exchange!state, Exchange!consumer
<1>5. CASE Exchange!PumpEnds
  BY <1>i, <1>5 DEF Exchange!PumpEnds, Exchange!AtAwait, Exchange!IsCancelled,
       Exchange!TypeOK, Exchange!Error, Exchange!NoError, CauseInv, ServingInv,
       Cancelling, EofKeepsUpload, Exchange!EofKeepsUpload, Exchange!state,
       Exchange!consumer
<1>6. CASE Exchange!HeadersArrive
  BY <1>i, <1>6 DEF Exchange!HeadersArrive, Exchange!AtAwait, Exchange!IsCancelled,
       Exchange!ExchangeFails, Exchange!TypeOK, Exchange!Error, Exchange!NoError,
       CauseInv, ServingInv, Cancelling, EofKeepsUpload, Exchange!EofKeepsUpload,
       Exchange!state, Exchange!consumer
<1>7. CASE Exchange!WorkerTakes
  BY <1>i, <1>7 DEF Exchange!WorkerTakes, Exchange!AtAwait, Exchange!IsCancelled,
       Exchange!TypeOK, Exchange!Error, Exchange!NoError, CauseInv, ServingInv,
       Cancelling, EofKeepsUpload, Exchange!EofKeepsUpload, Exchange!state,
       Exchange!consumer
<1>8. CASE Exchange!WorkerData
  BY <1>i, <1>8 DEF Exchange!WorkerData, Exchange!AtAwait, Exchange!IsCancelled,
       Exchange!TypeOK, Exchange!Error, Exchange!NoError, CauseInv, ServingInv,
       Cancelling, EofKeepsUpload, Exchange!EofKeepsUpload, Exchange!state,
       Exchange!consumer
<1>9. CASE Exchange!WorkerPublishesEnd
  BY <1>i, <1>9 DEF Exchange!WorkerPublishesEnd, Exchange!AtAwait,
       Exchange!IsCancelled, Exchange!TypeOK, Exchange!Error, Exchange!NoError,
       CauseInv, ServingInv, Cancelling, EofKeepsUpload, Exchange!EofKeepsUpload,
       Exchange!state, Exchange!consumer
<1>10. CASE Exchange!WorkerEnd
  BY <1>i, <1>10 DEF Exchange!WorkerEnd, Exchange!TypeOK, Exchange!Error,
       Exchange!NoError, CauseInv, ServingInv, Cancelling, EofKeepsUpload,
       Exchange!EofKeepsUpload, Exchange!state, Exchange!consumer
<1>11. CASE Exchange!WorkerErrs
  BY <1>i, <1>11 DEF Exchange!WorkerErrs, Exchange!AtAwait, Exchange!IsCancelled,
       Exchange!TypeOK, Exchange!Error, Exchange!NoError, CauseInv, ServingInv,
       Cancelling, EofKeepsUpload, Exchange!EofKeepsUpload, Exchange!state,
       Exchange!consumer
<1>12. CASE Exchange!WorkerCancelled
  BY <1>i, <1>12 DEF Exchange!WorkerCancelled, Exchange!AtAwait, Exchange!IsCancelled,
       Exchange!StateError, Exchange!TypeOK, Exchange!Error, Exchange!NoError,
       CauseInv, ServingInv, Cancelling, EofKeepsUpload, Exchange!EofKeepsUpload,
       Exchange!state, Exchange!consumer
<1>13. CASE Exchange!WorkerMarks
  BY <1>i, <1>13 DEF Exchange!WorkerMarks, Exchange!Fail, Exchange!ExchangeFails,
       Exchange!TypeOK, Exchange!Error, Exchange!NoError, CauseInv, ServingInv,
       Cancelling, EofKeepsUpload, Exchange!EofKeepsUpload, Exchange!state,
       Exchange!consumer
<1>14. CASE Exchange!ExchangeSucceeds
  BY <1>i, <1>14 DEF Exchange!ExchangeSucceeds, Exchange!TypeOK, Exchange!Error,
       Exchange!NoError, CauseInv, ServingInv, Cancelling, EofKeepsUpload,
       Exchange!EofKeepsUpload, Exchange!state, Exchange!consumer
<1>15. CASE Exchange!TaskMarks
  BY <1>i, <1>15 DEF Exchange!TaskMarks, Exchange!Fail, Exchange!TypeOK,
       Exchange!Error, Exchange!NoError, CauseInv, ServingInv, Cancelling,
       EofKeepsUpload, Exchange!EofKeepsUpload, Exchange!state, Exchange!consumer
<1>16. CASE Exchange!TaskEnds
  BY <1>i, <1>16 DEF Exchange!TaskEnds, Exchange!TypeOK, Exchange!Error,
       Exchange!NoError, CauseInv, ServingInv, Cancelling, EofKeepsUpload,
       Exchange!EofKeepsUpload, Exchange!state, Exchange!consumer
<1>17. CASE Exchange!ResponseReturns
  BY <1>i, <1>17 DEF Exchange!ResponseReturns, Exchange!TypeOK, Exchange!Error,
       Exchange!NoError, CauseInv, ServingInv, Cancelling, EofKeepsUpload,
       Exchange!EofKeepsUpload, Exchange!state, Exchange!consumer, Exchange!worker
<1>18. CASE Exchange!ResponseDropped
  BY <1>i, <1>18 DEF Exchange!ResponseDropped, Exchange!Fail, Exchange!TypeOK,
       Exchange!Error, Exchange!NoError, CauseInv, ServingInv, Cancelling,
       EofKeepsUpload, Exchange!EofKeepsUpload, Exchange!state, Exchange!consumer,
       Exchange!worker
<1>19. CASE Exchange!NextCall
  BY <1>i, <1>19 DEF Exchange!NextCall, Exchange!IsCancelled, Exchange!StateError,
       Exchange!TypeOK, Exchange!Error, Exchange!NoError, CauseInv, ServingInv,
       Cancelling, EofKeepsUpload, Exchange!EofKeepsUpload, Exchange!state,
       Exchange!consumer, Exchange!worker
<1>20. CASE Exchange!NextReturns
  BY <1>i, <1>20 DEF Exchange!NextReturns, Exchange!IsCancelled, Exchange!StateError,
       Exchange!TypeOK, Exchange!Error, Exchange!NoError, CauseInv, ServingInv,
       Cancelling, EofKeepsUpload, Exchange!EofKeepsUpload, Exchange!state,
       Exchange!consumer, Exchange!worker
<1>21. CASE Exchange!NextDropped
  BY <1>i, <1>21 DEF Exchange!NextDropped, Exchange!Fail, Exchange!TypeOK,
       Exchange!Error, Exchange!NoError, CauseInv, ServingInv, Cancelling,
       EofKeepsUpload, Exchange!EofKeepsUpload, Exchange!state, Exchange!consumer,
       Exchange!worker
<1>22. CASE Exchange!ReaderDropped
  BY <1>i, <1>22 DEF Exchange!ReaderDropped, Exchange!Fail, Exchange!TypeOK,
       Exchange!Error, Exchange!NoError, CauseInv, ServingInv, Cancelling,
       EofKeepsUpload, Exchange!EofKeepsUpload, Exchange!state, Exchange!consumer,
       Exchange!worker
<1>23. CASE Exchange!Cancel
  BY <1>i, <1>23 DEF Exchange!Cancel, Exchange!Fail, Exchange!TypeOK, Exchange!Error,
       Exchange!NoError, CauseInv, ServingInv, Cancelling, EofKeepsUpload,
       Exchange!EofKeepsUpload, Exchange!state, Exchange!consumer, Exchange!worker
<1>24. CASE Exchange!OwnerCloses
  BY <1>i, <1>24 DEF Exchange!OwnerCloses, Exchange!TypeOK, Exchange!Error,
       Exchange!NoError, CauseInv, ServingInv, Cancelling, EofKeepsUpload,
       Exchange!EofKeepsUpload, Exchange!state, Exchange!consumer, Exchange!worker
<1>25. CASE UNCHANGED Exchange!vars
  BY <1>i, <1>25 DEF Exchange!vars, Exchange!TypeOK, Exchange!Error, Exchange!NoError,
       CauseInv, ServingInv, Cancelling, EofKeepsUpload, Exchange!EofKeepsUpload,
       Exchange!state, Exchange!consumer
<1> QED
  BY <1>1, <1>2, <1>3, <1>4, <1>5, <1>6, <1>7, <1>8, <1>9, <1>10, <1>11, <1>12, <1>13,
       <1>14, <1>15, <1>16, <1>17, <1>18, <1>19, <1>20, <1>21, <1>22, <1>23, <1>24,
       <1>25 DEF Exchange!Next, Exchange!TaskStep

\* A call that is served waits until its reply is there.
LEMMA ServingStep == ExchangeInv /\ [Exchange!Next]_Exchange!vars => ServingInv'
<1> SUFFICES ASSUME ExchangeInv, [Exchange!Next]_Exchange!vars PROVE ServingInv'
  OBVIOUS
<1> USE SdkAssumption
<1>i. Exchange!TypeOK /\ CauseInv /\ ServingInv
  BY DEF ExchangeInv
<1>1. CASE Exchange!Connected
  BY <1>i, <1>1 DEF Exchange!Connected, Exchange!AtAwait, Exchange!IsCancelled,
       Exchange!TypeOK, Exchange!Error, Exchange!NoError, CauseInv, ServingInv,
       Cancelling, Exchange!state, Exchange!consumer
<1>2. CASE Exchange!TaskCancelled
  BY <1>i, <1>2 DEF Exchange!TaskCancelled, Exchange!AtAwait, Exchange!IsCancelled,
       Exchange!ExchangeFails, Exchange!StateError, Exchange!TypeOK, Exchange!Error,
       Exchange!NoError, CauseInv, ServingInv, Cancelling, Exchange!state,
       Exchange!consumer
<1>3. CASE Exchange!DeadlineExpires
  BY <1>i, <1>3 DEF Exchange!DeadlineExpires, Exchange!AtAwait, Exchange!IsCancelled,
       Exchange!ExchangeFails, Exchange!TypeOK, Exchange!Error, Exchange!NoError,
       CauseInv, ServingInv, Cancelling, Exchange!state, Exchange!consumer
<1>4. CASE Exchange!TransportFails
  BY <1>i, <1>4 DEF Exchange!TransportFails, Exchange!AtAwait, Exchange!IsCancelled,
       Exchange!ExchangeFails, Exchange!TypeOK, Exchange!Error, Exchange!NoError,
       CauseInv, ServingInv, Cancelling, Exchange!state, Exchange!consumer
<1>5. CASE Exchange!PumpEnds
  BY <1>i, <1>5 DEF Exchange!PumpEnds, Exchange!AtAwait, Exchange!IsCancelled,
       Exchange!TypeOK, Exchange!Error, Exchange!NoError, CauseInv, ServingInv,
       Cancelling, Exchange!state, Exchange!consumer
<1>6. CASE Exchange!HeadersArrive
  BY <1>i, <1>6 DEF Exchange!HeadersArrive, Exchange!AtAwait, Exchange!IsCancelled,
       Exchange!ExchangeFails, Exchange!TypeOK, Exchange!Error, Exchange!NoError,
       CauseInv, ServingInv, Cancelling, Exchange!state, Exchange!consumer
<1>7. CASE Exchange!WorkerTakes
  BY <1>i, <1>7 DEF Exchange!WorkerTakes, Exchange!AtAwait, Exchange!IsCancelled,
       Exchange!TypeOK, Exchange!Error, Exchange!NoError, CauseInv, ServingInv,
       Cancelling, Exchange!state, Exchange!consumer
<1>8. CASE Exchange!WorkerData
  BY <1>i, <1>8 DEF Exchange!WorkerData, Exchange!AtAwait, Exchange!IsCancelled,
       Exchange!TypeOK, Exchange!Error, Exchange!NoError, CauseInv, ServingInv,
       Cancelling, Exchange!state, Exchange!consumer
<1>9. CASE Exchange!WorkerPublishesEnd
  BY <1>i, <1>9 DEF Exchange!WorkerPublishesEnd, Exchange!AtAwait,
       Exchange!IsCancelled, Exchange!TypeOK, Exchange!Error, Exchange!NoError,
       CauseInv, ServingInv, Cancelling, Exchange!state, Exchange!consumer
<1>10. CASE Exchange!WorkerEnd
  BY <1>i, <1>10 DEF Exchange!WorkerEnd, Exchange!TypeOK, Exchange!Error,
       Exchange!NoError, CauseInv, ServingInv, Cancelling, Exchange!state,
       Exchange!consumer
<1>11. CASE Exchange!WorkerErrs
  BY <1>i, <1>11 DEF Exchange!WorkerErrs, Exchange!AtAwait, Exchange!IsCancelled,
       Exchange!TypeOK, Exchange!Error, Exchange!NoError, CauseInv, ServingInv,
       Cancelling, Exchange!state, Exchange!consumer
<1>12. CASE Exchange!WorkerCancelled
  BY <1>i, <1>12 DEF Exchange!WorkerCancelled, Exchange!AtAwait, Exchange!IsCancelled,
       Exchange!StateError, Exchange!TypeOK, Exchange!Error, Exchange!NoError,
       CauseInv, ServingInv, Cancelling, Exchange!state, Exchange!consumer
<1>13. CASE Exchange!WorkerMarks
  BY <1>i, <1>13 DEF Exchange!WorkerMarks, Exchange!Fail, Exchange!ExchangeFails,
       Exchange!TypeOK, Exchange!Error, Exchange!NoError, CauseInv, ServingInv,
       Cancelling, Exchange!state, Exchange!consumer
<1>14. CASE Exchange!ExchangeSucceeds
  BY <1>i, <1>14 DEF Exchange!ExchangeSucceeds, Exchange!TypeOK, Exchange!Error,
       Exchange!NoError, CauseInv, ServingInv, Cancelling, Exchange!state,
       Exchange!consumer
<1>15. CASE Exchange!TaskMarks
  BY <1>i, <1>15 DEF Exchange!TaskMarks, Exchange!Fail, Exchange!TypeOK,
       Exchange!Error, Exchange!NoError, CauseInv, ServingInv, Cancelling,
       Exchange!state, Exchange!consumer
<1>16. CASE Exchange!TaskEnds
  BY <1>i, <1>16 DEF Exchange!TaskEnds, Exchange!TypeOK, Exchange!Error,
       Exchange!NoError, CauseInv, ServingInv, Cancelling, Exchange!state,
       Exchange!consumer
<1>17. CASE Exchange!ResponseReturns
  BY <1>i, <1>17 DEF Exchange!ResponseReturns, Exchange!TypeOK, Exchange!Error,
       Exchange!NoError, CauseInv, ServingInv, Cancelling, Exchange!state,
       Exchange!consumer, Exchange!worker
<1>18. CASE Exchange!ResponseDropped
  BY <1>i, <1>18 DEF Exchange!ResponseDropped, Exchange!Fail, Exchange!TypeOK,
       Exchange!Error, Exchange!NoError, CauseInv, ServingInv, Cancelling,
       Exchange!state, Exchange!consumer, Exchange!worker
<1>19. CASE Exchange!NextCall
  BY <1>i, <1>19 DEF Exchange!NextCall, Exchange!IsCancelled, Exchange!StateError,
       Exchange!TypeOK, Exchange!Error, Exchange!NoError, CauseInv, ServingInv,
       Cancelling, Exchange!state, Exchange!consumer, Exchange!worker
<1>20. CASE Exchange!NextReturns
  BY <1>i, <1>20 DEF Exchange!NextReturns, Exchange!IsCancelled, Exchange!StateError,
       Exchange!TypeOK, Exchange!Error, Exchange!NoError, CauseInv, ServingInv,
       Cancelling, Exchange!state, Exchange!consumer, Exchange!worker
<1>21. CASE Exchange!NextDropped
  BY <1>i, <1>21 DEF Exchange!NextDropped, Exchange!Fail, Exchange!TypeOK,
       Exchange!Error, Exchange!NoError, CauseInv, ServingInv, Cancelling,
       Exchange!state, Exchange!consumer, Exchange!worker
<1>22. CASE Exchange!ReaderDropped
  BY <1>i, <1>22 DEF Exchange!ReaderDropped, Exchange!Fail, Exchange!TypeOK,
       Exchange!Error, Exchange!NoError, CauseInv, ServingInv, Cancelling,
       Exchange!state, Exchange!consumer, Exchange!worker
<1>23. CASE Exchange!Cancel
  BY <1>i, <1>23 DEF Exchange!Cancel, Exchange!Fail, Exchange!TypeOK, Exchange!Error,
       Exchange!NoError, CauseInv, ServingInv, Cancelling, Exchange!state,
       Exchange!consumer, Exchange!worker
<1>24. CASE Exchange!OwnerCloses
  BY <1>i, <1>24 DEF Exchange!OwnerCloses, Exchange!TypeOK, Exchange!Error,
       Exchange!NoError, CauseInv, ServingInv, Cancelling, Exchange!state,
       Exchange!consumer, Exchange!worker
<1>25. CASE UNCHANGED Exchange!vars
  BY <1>i, <1>25 DEF Exchange!vars, Exchange!TypeOK, Exchange!Error, Exchange!NoError,
       CauseInv, ServingInv, Cancelling, Exchange!state, Exchange!consumer
<1> QED
  BY <1>1, <1>2, <1>3, <1>4, <1>5, <1>6, <1>7, <1>8, <1>9, <1>10, <1>11, <1>12, <1>13,
       <1>14, <1>15, <1>16, <1>17, <1>18, <1>19, <1>20, <1>21, <1>22, <1>23, <1>24,
       <1>25 DEF Exchange!Next, Exchange!TaskStep

\* Frames are handed on, never dropped or made up.
LEMMA CountStep == ExchangeInv /\ [Exchange!Next]_Exchange!vars => CountInv'
<1> SUFFICES ASSUME ExchangeInv, [Exchange!Next]_Exchange!vars PROVE CountInv'
  OBVIOUS
<1> USE SdkAssumption
<1>i. Exchange!TypeOK /\ ServingInv /\ CountInv
  BY DEF ExchangeInv
<1>1. CASE Exchange!Connected
  BY <1>i, <1>1 DEF Exchange!Connected, Exchange!AtAwait, Exchange!IsCancelled,
       Exchange!TypeOK, Exchange!Error, Exchange!NoError, ServingInv, CountInv,
       Cancelling, InFlight, Exchange!state, Exchange!consumer
<1>2. CASE Exchange!TaskCancelled
  BY <1>i, <1>2 DEF Exchange!TaskCancelled, Exchange!AtAwait, Exchange!IsCancelled,
       Exchange!ExchangeFails, Exchange!StateError, Exchange!TypeOK, Exchange!Error,
       Exchange!NoError, ServingInv, CountInv, Cancelling, InFlight, Exchange!state,
       Exchange!consumer
<1>3. CASE Exchange!DeadlineExpires
  BY <1>i, <1>3 DEF Exchange!DeadlineExpires, Exchange!AtAwait, Exchange!IsCancelled,
       Exchange!ExchangeFails, Exchange!TypeOK, Exchange!Error, Exchange!NoError,
       ServingInv, CountInv, Cancelling, InFlight, Exchange!state, Exchange!consumer
<1>4. CASE Exchange!TransportFails
  BY <1>i, <1>4 DEF Exchange!TransportFails, Exchange!AtAwait, Exchange!IsCancelled,
       Exchange!ExchangeFails, Exchange!TypeOK, Exchange!Error, Exchange!NoError,
       ServingInv, CountInv, Cancelling, InFlight, Exchange!state, Exchange!consumer
<1>5. CASE Exchange!PumpEnds
  BY <1>i, <1>5 DEF Exchange!PumpEnds, Exchange!AtAwait, Exchange!IsCancelled,
       Exchange!TypeOK, Exchange!Error, Exchange!NoError, ServingInv, CountInv,
       Cancelling, InFlight, Exchange!state, Exchange!consumer
<1>6. CASE Exchange!HeadersArrive
  BY <1>i, <1>6 DEF Exchange!HeadersArrive, Exchange!AtAwait, Exchange!IsCancelled,
       Exchange!ExchangeFails, Exchange!TypeOK, Exchange!Error, Exchange!NoError,
       ServingInv, CountInv, Cancelling, InFlight, Exchange!state, Exchange!consumer
<1>7. CASE Exchange!WorkerTakes
  BY <1>i, <1>7 DEF Exchange!WorkerTakes, Exchange!AtAwait, Exchange!IsCancelled,
       Exchange!TypeOK, Exchange!Error, Exchange!NoError, ServingInv, CountInv,
       Cancelling, InFlight, Exchange!state, Exchange!consumer
<1>8. CASE Exchange!WorkerData
  BY <1>i, <1>8 DEF Exchange!WorkerData, Exchange!AtAwait, Exchange!IsCancelled,
       Exchange!TypeOK, Exchange!Error, Exchange!NoError, ServingInv, CountInv,
       Cancelling, InFlight, Exchange!state, Exchange!consumer
<1>9. CASE Exchange!WorkerPublishesEnd
  BY <1>i, <1>9 DEF Exchange!WorkerPublishesEnd, Exchange!AtAwait,
       Exchange!IsCancelled, Exchange!TypeOK, Exchange!Error, Exchange!NoError,
       ServingInv, CountInv, Cancelling, InFlight, Exchange!state, Exchange!consumer
<1>10. CASE Exchange!WorkerEnd
  BY <1>i, <1>10 DEF Exchange!WorkerEnd, Exchange!TypeOK, Exchange!Error,
       Exchange!NoError, ServingInv, CountInv, Cancelling, InFlight, Exchange!state,
       Exchange!consumer
<1>11. CASE Exchange!WorkerErrs
  BY <1>i, <1>11 DEF Exchange!WorkerErrs, Exchange!AtAwait, Exchange!IsCancelled,
       Exchange!TypeOK, Exchange!Error, Exchange!NoError, ServingInv, CountInv,
       Cancelling, InFlight, Exchange!state, Exchange!consumer
<1>12. CASE Exchange!WorkerCancelled
  BY <1>i, <1>12 DEF Exchange!WorkerCancelled, Exchange!AtAwait, Exchange!IsCancelled,
       Exchange!StateError, Exchange!TypeOK, Exchange!Error, Exchange!NoError,
       ServingInv, CountInv, Cancelling, InFlight, Exchange!state, Exchange!consumer
<1>13. CASE Exchange!WorkerMarks
  BY <1>i, <1>13 DEF Exchange!WorkerMarks, Exchange!Fail, Exchange!ExchangeFails,
       Exchange!TypeOK, Exchange!Error, Exchange!NoError, ServingInv, CountInv,
       Cancelling, InFlight, Exchange!state, Exchange!consumer
<1>14. CASE Exchange!ExchangeSucceeds
  BY <1>i, <1>14 DEF Exchange!ExchangeSucceeds, Exchange!TypeOK, Exchange!Error,
       Exchange!NoError, ServingInv, CountInv, Cancelling, InFlight, Exchange!state,
       Exchange!consumer
<1>15. CASE Exchange!TaskMarks
  BY <1>i, <1>15 DEF Exchange!TaskMarks, Exchange!Fail, Exchange!TypeOK,
       Exchange!Error, Exchange!NoError, ServingInv, CountInv, Cancelling, InFlight,
       Exchange!state, Exchange!consumer
<1>16. CASE Exchange!TaskEnds
  BY <1>i, <1>16 DEF Exchange!TaskEnds, Exchange!TypeOK, Exchange!Error,
       Exchange!NoError, ServingInv, CountInv, Cancelling, InFlight, Exchange!state,
       Exchange!consumer
<1>17. CASE Exchange!ResponseReturns
  BY <1>i, <1>17 DEF Exchange!ResponseReturns, Exchange!TypeOK, Exchange!Error,
       Exchange!NoError, ServingInv, CountInv, Cancelling, InFlight, Exchange!state,
       Exchange!consumer, Exchange!worker
<1>18. CASE Exchange!ResponseDropped
  BY <1>i, <1>18 DEF Exchange!ResponseDropped, Exchange!Fail, Exchange!TypeOK,
       Exchange!Error, Exchange!NoError, ServingInv, CountInv, Cancelling, InFlight,
       Exchange!state, Exchange!consumer, Exchange!worker
<1>19. CASE Exchange!NextCall
  BY <1>i, <1>19 DEF Exchange!NextCall, Exchange!IsCancelled, Exchange!StateError,
       Exchange!TypeOK, Exchange!Error, Exchange!NoError, ServingInv, CountInv,
       Cancelling, InFlight, Exchange!state, Exchange!consumer, Exchange!worker
<1>20. CASE Exchange!NextReturns
  BY <1>i, <1>20 DEF Exchange!NextReturns, Exchange!IsCancelled, Exchange!StateError,
       Exchange!TypeOK, Exchange!Error, Exchange!NoError, ServingInv, CountInv,
       Cancelling, InFlight, Exchange!state, Exchange!consumer, Exchange!worker
<1>21. CASE Exchange!NextDropped
  BY <1>i, <1>21 DEF Exchange!NextDropped, Exchange!Fail, Exchange!TypeOK,
       Exchange!Error, Exchange!NoError, ServingInv, CountInv, Cancelling, InFlight,
       Exchange!state, Exchange!consumer, Exchange!worker
<1>22. CASE Exchange!ReaderDropped
  BY <1>i, <1>22 DEF Exchange!ReaderDropped, Exchange!Fail, Exchange!TypeOK,
       Exchange!Error, Exchange!NoError, ServingInv, CountInv, Cancelling, InFlight,
       Exchange!state, Exchange!consumer, Exchange!worker
<1>23. CASE Exchange!Cancel
  BY <1>i, <1>23 DEF Exchange!Cancel, Exchange!Fail, Exchange!TypeOK, Exchange!Error,
       Exchange!NoError, ServingInv, CountInv, Cancelling, InFlight, Exchange!state,
       Exchange!consumer, Exchange!worker
<1>24. CASE Exchange!OwnerCloses
  BY <1>i, <1>24 DEF Exchange!OwnerCloses, Exchange!TypeOK, Exchange!Error,
       Exchange!NoError, ServingInv, CountInv, Cancelling, InFlight, Exchange!state,
       Exchange!consumer, Exchange!worker
<1>25. CASE UNCHANGED Exchange!vars
  BY <1>i, <1>25 DEF Exchange!vars, Exchange!TypeOK, Exchange!Error, Exchange!NoError,
       ServingInv, CountInv, Cancelling, InFlight, Exchange!state, Exchange!consumer
<1> QED
  BY <1>1, <1>2, <1>3, <1>4, <1>5, <1>6, <1>7, <1>8, <1>9, <1>10, <1>11, <1>12, <1>13,
       <1>14, <1>15, <1>16, <1>17, <1>18, <1>19, <1>20, <1>21, <1>22, <1>23, <1>24,
       <1>25 DEF Exchange!Next, Exchange!TaskStep

\* The inductive invariant of an exchange.
LEMMA ExchangeInductive == Exchange!Spec => []ExchangeInv
<1>1. Exchange!Init => ExchangeInv
  <2> SUFFICES ASSUME Exchange!Init PROVE ExchangeInv
    OBVIOUS
  <2> USE SdkAssumption DEF Exchange!Init, Exchange!NoError
  <2>f. /\ failing \in BOOLEAN /\ owner \in BOOLEAN
        /\ sawEnd \in BOOLEAN /\ abandoned \in BOOLEAN
    BY Zenon
  <2>l. left \in 0 .. MaxData /\ got \in 0 .. MaxData
    OBVIOUS
  <2>1. Exchange!TypeOK
    BY <2>f, <2>l DEF Exchange!TypeOK, Exchange!Error
  <2>2. CauseInv /\ ServingInv /\ EofKeepsUpload
    BY DEF CauseInv, ServingInv, EofKeepsUpload, Exchange!EofKeepsUpload
  <2>3. CountInv
    BY DEF CountInv, InFlight
  <2> QED
    BY <2>1, <2>2, <2>3 DEF ExchangeInv
<1>2. ExchangeInv /\ [Exchange!Next]_Exchange!vars => ExchangeInv'
  BY ExchangeTypes, CauseStep, ServingStep, CountStep DEF ExchangeInv
<1> QED
  BY <1>1, <1>2, PTL DEF Exchange!Spec

\* A reader that has seen the end of the body never cancels the exchange by being
\* dropped (stream.rs BodyReader::drop): only a consumer that gave up, or the owner,
\* makes "cancelled" the error of the exchange.
THEOREM UploadCorrect == Exchange!Spec => []EofKeepsUpload
<1>1. ExchangeInv => EofKeepsUpload
  BY DEF ExchangeInv
<1> QED
  BY <1>1, ExchangeInductive, PTL

\* Numbered frames: the first m are a prefix of the first n.
LEMMA FramePrefix ==
    ASSUME NEW m \in Nat, NEW n \in Nat, m <= n
    PROVE  /\ Exchange!Promise!IsPrefixOf([i \in 1 .. m |-> i], [i \in 1 .. n |-> i])
           /\ m # n => [i \in 1 .. m |-> i] # [i \in 1 .. n |-> i]
<1> DEFINE few == [i \in 1 .. m |-> i]
           many == [i \in 1 .. n |-> i]
<1>1. few \in Seq(Nat) /\ Len(few) = m /\ many \in Seq(Nat) /\ Len(many) = n
  OBVIOUS
<1>2. \A i \in 1 .. m : few[i] = many[i]
  OBVIOUS
<1> HIDE DEF few, many
<1>3. few = SubSeq(many, 1, m)
  BY <1>1, <1>2
<1>4. Exchange!Promise!IsPrefixOf(few, many)
  BY <1>1, <1>3 DEF Exchange!Promise!IsPrefixOf
<1>5. m # n => few # many
  BY <1>1
<1> QED
  BY <1>4, <1>5 DEF few, many

\* next() returns in one of these ways, and nothing else of the exchange matters to
\* its caller.
LEMMA WhatNextReturns ==
    ASSUME ExchangeInv, [Exchange!Next]_Exchange!vars
    PROVE  \/ UNCHANGED <<got, sawEnd, failed>>
           \/ /\ ~sawEnd /\ failed = "none"
              /\ \/ got' = got + 1 /\ got + 1 <= MaxData /\ UNCHANGED <<sawEnd, failed>>
                 \/ got = MaxData /\ sawEnd' /\ UNCHANGED <<got, failed>>
                 \/ failed' # "none" /\ UNCHANGED <<got, sawEnd>>
<1> USE DEF Exchange!NoError
<1>i. Exchange!TypeOK /\ CauseInv /\ ServingInv /\ CountInv
  BY DEF ExchangeInv
<1>e. Exchange!StateError # "none"
  BY DEF Exchange!StateError
<1>1. CASE Exchange!NextCall
  <2>1. ~sawEnd /\ failed = "none" /\ got' = got
    BY <1>1 DEF Exchange!NextCall
  <2>2. \/ UNCHANGED <<sawEnd, failed>>
        \/ completion = "ok" /\ sawEnd' /\ failed' = failed
        \/ failed' # "none" /\ sawEnd' = sawEnd
    BY <1>1, <1>i, <1>e DEF Exchange!NextCall, CauseInv
  <2> QED
    BY <1>i, <2>1, <2>2 DEF CountInv
<1>2. CASE Exchange!NextReturns
  <2>1. ~sawEnd /\ failed = "none"
    BY <1>2, <1>i DEF Exchange!NextReturns, ServingInv
  <2>2. \/ failed' # "none" /\ UNCHANGED <<got, sawEnd>>
        \/ reply = "data" /\ got' = got + 1 /\ UNCHANGED <<sawEnd, failed>>
        \/ reply = "eof" /\ sawEnd' /\ UNCHANGED <<got, failed>>
    BY <1>2, <1>i, <1>e DEF Exchange!NextReturns, CauseInv
  <2>3. reply = "data" => got + 1 <= MaxData
    BY <1>i, SdkAssumption DEF CountInv, InFlight, Exchange!TypeOK
  <2>4. reply = "eof" => got = MaxData
    BY <1>i DEF CountInv
  <2> QED
    BY <2>1, <2>2, <2>3, <2>4
<1>3. CASE ~Exchange!NextCall /\ ~Exchange!NextReturns
  BY <1>3 DEF Exchange!Next, Exchange!TaskStep, Exchange!vars, Exchange!consumer,
       Exchange!Connected, Exchange!TaskCancelled, Exchange!DeadlineExpires,
       Exchange!TransportFails, Exchange!PumpEnds, Exchange!HeadersArrive,
       Exchange!WorkerTakes, Exchange!WorkerData, Exchange!WorkerPublishesEnd,
       Exchange!WorkerEnd, Exchange!WorkerErrs, Exchange!WorkerCancelled,
       Exchange!WorkerMarks, Exchange!ExchangeSucceeds, Exchange!TaskMarks,
       Exchange!TaskEnds, Exchange!ResponseReturns, Exchange!ResponseDropped,
       Exchange!NextDropped, Exchange!ReaderDropped, Exchange!Cancel,
       Exchange!OwnerCloses
<1> QED
  BY <1>1, <1>2, <1>3

\* next() keeps the promise of BodyStream for a response of any length: every frame
\* the peer sends arrives in order, EOF comes after the last of them only, and nothing
\* follows an error (stream.rs BodyReader, client.rs receive_response).
THEOREM ReaderImplements == Exchange!Spec => IsBodyStream
<1>1. Exchange!Init => Exchange!Promise!Init
  BY DEF Exchange!Init, Exchange!Promise!Init, Exchange!NoError
<1>2. ASSUME ExchangeInv, [Exchange!Next]_Exchange!vars
      PROVE  [Exchange!Promise!Next]_Exchange!Promise!vars
  <2> USE DEF Exchange!NoError
  <2>t. got \in Nat /\ MaxData \in Nat /\ got <= MaxData /\ sawEnd \in BOOLEAN
    BY <1>2, SdkAssumption DEF ExchangeInv, Exchange!TypeOK
  <2>1. CASE UNCHANGED <<got, sawEnd, failed>>
    BY <2>1 DEF Exchange!Promise!vars
  <2>2. CASE /\ ~sawEnd /\ failed = "none"
             /\ got' = got + 1 /\ got + 1 <= MaxData /\ UNCHANGED <<sawEnd, failed>>
    <3>1. got + 1 \in Nat /\ got <= got + 1 /\ got # got + 1
      BY <2>t
    <3>2. /\ Exchange!Promise!IsPrefixOf([i \in 1 .. got |-> i], [i \in 1 .. got + 1 |-> i])
          /\ [i \in 1 .. got |-> i] # [i \in 1 .. got + 1 |-> i]
      BY <2>t, <3>1, FramePrefix
    <3>3. Exchange!Promise!IsPrefixOf([i \in 1 .. got + 1 |-> i], [i \in 1 .. MaxData |-> i])
      BY <2>t, <2>2, <3>1, FramePrefix
    <3> QED
      BY <2>2, <3>2, <3>3 DEF Exchange!Promise!Next, Exchange!Promise!Deliver
  <2>3. CASE ~sawEnd /\ failed = "none" /\ got = MaxData /\ sawEnd' /\ UNCHANGED <<got, failed>>
    BY <2>3 DEF Exchange!Promise!Next, Exchange!Promise!End
  <2>4. CASE ~sawEnd /\ failed = "none" /\ failed' # "none" /\ UNCHANGED <<got, sawEnd>>
    BY <2>4 DEF Exchange!Promise!Next, Exchange!Promise!Fail
  <2> QED
    BY <1>2, <2>1, <2>2, <2>3, <2>4, WhatNextReturns
<1>3. ExchangeInv /\ [Exchange!Next]_Exchange!vars => [Exchange!Promise!Next]_Exchange!Promise!vars
  BY <1>2
<1> QED
  BY <1>1, <1>3, ExchangeInductive, PTL
     DEF Exchange!Spec, IsBodyStream, Exchange!IsBodyStream, Exchange!Promise!Spec

-----------------------------------------------------------------------------
\* The composition

\* The parts share no state: whichever of them a behaviour is about, each of them
\* behaves as it does alone.  So what the theorems above and those of the lifecycle
\* say of a part holds of the composition that the runs check.
THEOREM PartsCompose == MCSpec => Spec /\ Exchange!Spec /\ Fetch!Spec /\ Serve!Spec
<1>1. MCInit => Init /\ Exchange!Init /\ Fetch!Init /\ Serve!Init
  BY DEF MCInit, NoFetch, NoServe
<1>2. [MCNext]_all => [Exchange!Next]_Exchange!vars
  BY DEF MCNext, all, Living, Exchanging, Fetching, Serving, exchangeVars, Exchange!vars,
       Exchange!state, Exchange!consumer
<1>3. [MCNext]_all => [Fetch!Next]_Fetch!vars
  BY DEF MCNext, all, Living, Exchanging, Fetching, Serving, fetchVars, Fetch!vars
<1>4. [MCNext]_all => [Serve!Next]_Serve!vars
  BY DEF MCNext, all, Living, Exchanging, Fetching, Serving, serveVars, Serve!vars
<1>5. [MCNext]_all => [Next]_vars
  BY DEF MCNext, all, Living, Exchanging, Fetching, Serving
<1> QED
  BY <1>1, <1>2, <1>3, <1>4, <1>5, PTL
     DEF MCSpec, Spec, Exchange!Spec, Fetch!Spec, Serve!Spec

\* What the runs check of the SDK's requests and listeners, for every instance.
THEOREM SdkCorrect ==
    MCSpec => []EofKeepsUpload /\ IsBodyStream /\ []RedirectsAreSafe /\ []NothingLeftBehind
BY PartsCompose, UploadCorrect, ReaderImplements, RedirectsCorrect, NothingLeft, PTL

=============================================================================
