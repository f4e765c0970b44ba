----------------------------- MODULE BodyStream -----------------------------
(***************************************************************************)
(* What every body of the system promises, whoever carries it: the upload  *)
(* channel of the SDK, the request writer over its window, the body reader *)
(* of a response, and the path from a language producer to the stream.     *)
(*                                                                         *)
(* A producer adds units, may set trailers, and asks for the end.  The     *)
(* consumer is given a growing prefix of what was added.  It is told that  *)
(* the body has ended only if the producer asked for the end and          *)
(* everything, trailers included, has been given to it; every other way to *)
(* stop is a failure.  How either comes about, and when, is left open.     *)
(***************************************************************************)
EXTENDS Naturals, Sequences

VARIABLES
    accepted,   \* the units the producer has added
    trailers,   \* the trailers the producer has set
    ending,     \* the producer has asked for the end
    delivered,  \* the units the consumer has been given
    received,   \* the trailers the consumer has been given
    outcome     \* what the consumer has been told: "open", "eof" or "failed"

vars == <<accepted, trailers, ending, delivered, received, outcome>>

IsPrefixOf(s, t) == Len(s) <= Len(t) /\ s = SubSeq(t, 1, Len(s))

\* A body may come with units and trailers already set, or complete.
Init ==
    /\ delivered = <<>>
    /\ outcome = "open"

\* The producer may not have heard of a failure yet.
Add ==
    /\ ~ending
    /\ IsPrefixOf(accepted, accepted') /\ accepted' # accepted
    /\ UNCHANGED <<trailers, ending, delivered, received, outcome>>

SetTrailers ==
    /\ ~ending
    /\ trailers' # trailers
    /\ UNCHANGED <<accepted, ending, delivered, received, outcome>>

\* Nothing is added once the end was asked for.
AskEnd ==
    /\ ~ending /\ ending'
    /\ UNCHANGED <<accepted, trailers, delivered, received, outcome>>

Deliver ==
    /\ outcome = "open"
    /\ IsPrefixOf(delivered, delivered') /\ delivered' # delivered
    /\ IsPrefixOf(delivered', accepted)
    /\ UNCHANGED <<accepted, trailers, ending, received, outcome>>

End ==
    /\ outcome = "open" /\ ending
    /\ delivered = accepted
    /\ received' = trailers
    /\ outcome' = "eof"
    /\ UNCHANGED <<accepted, trailers, ending, delivered>>

Fail ==
    /\ outcome = "open"
    /\ outcome' = "failed"
    /\ UNCHANGED <<accepted, trailers, ending, delivered, received>>

Next == Add \/ SetTrailers \/ AskEnd \/ Deliver \/ End \/ Fail

Spec == Init /\ [][Next]_vars

=============================================================================
