----------------------------- MODULE MCRequest -----------------------------
(***************************************************************************)
(* Around one request of the SDK: the way of its body to the stream, its   *)
(* service at the other end, the rule written to admit it, and the line    *)
(* that is logged for it or for a certificate.  The four share no state,   *)
(* so each behaviour takes the steps of one of them and leaves the others  *)
(* where they began.                                                       *)
(***************************************************************************)
EXTENDS UploadPath, SequencesExt

CONSTANTS
    MaxRecordLen, MaxText,          \* LogRecord
    Profile, Body, MaxBody,         \* RuleGrammar
    Host, Bases, MaxFrames, Nothing \* ServeRequest

\* Hosts and names are sequences of parts.
ASSUME RequestAssumption ==
    /\ Host \subseteq Seq(STRING) /\ Bases \ {Nothing} \subseteq Seq(STRING)
    /\ MaxFrames \in Nat
    /\ Nothing \notin {"ok", "err", "NoError", "RequestCancelled", "unknown", "lost"}

VARIABLES
    part,       \* which of the four is explored
    source, done, bytes, mode, record,
    tokens, polish, stored, step,
    \* ServeRequest
    host, userinfo, name, head, phase, refused, held, produced, complete, broken,
    declined, arrived, seen, answer

logVars == <<source, done, bytes, mode, record>>
ruleVars == <<tokens, polish, stored, step>>
serveVars == <<host, userinfo, name, head, phase, refused, held, produced, complete, broken,
               declined, arrived, seen, answer>>

Log == INSTANCE LogRecord WITH outcome <- record
Grammar == INSTANCE RuleGrammar
Serve == INSTANCE ServeRequest WITH
    closed <- refused, ending <- complete, stopped <- declined, delivered <- arrived,
    outcome <- seen, result <- answer, None <- Nothing

-----------------------------------------------------------------------------
\* Client profiles: everyone, the shorthand in a glob and in a regex, an operator with
\* nothing after it, a keyword and special characters in quotes, a pattern that does
\* not build.
MCProfile ==
    [token : {"unquoted"}, text : {<<"*?">>, <<"alice", "~">>, <<"bad">>}]
    \cup [token : {"quoted"}, text : {<<"~", " ", "a", "~">>, <<"~", " ">>, <<"and">>, <<"\\", "\"">>}]

\* Keywords, which may also be patterns, the symbols, and a quoted pattern.
MCBody ==
    [token : {"unquoted"}, text : {<<w>> : w \in {"method", "header", "and", "or", "not"}}]
    \cup [token : {"symbol"}, text : {<<c>> : c \in {"(", ")", ":"}}]
    \cup [token : {"quoted"}, text : {<<"\"", "\\">>}]

\* Hosts of up to four parts, sent by an anonymous client and by a named one.
MCHost == SeqOf({"bob", "BOB", "~", ".", "dhttp.net", "_"}, 4)
MCBases == {Nothing, <<"bob", ".", "dhttp.net">>}

-----------------------------------------------------------------------------
LogIdle == source = "idle" /\ done = 0 /\ bytes = <<>> /\ mode = "plain" /\ record = "idle"

RuleIdle == tokens = <<>> /\ polish = <<>> /\ stored = <<>> /\ step = "idle"

NoTrailers == fields = 0

ServeIdle ==
    /\ host = <<>> /\ name = <<>> /\ userinfo = FALSE /\ head = FALSE /\ phase = "idle"
    /\ refused = FALSE /\ held = FALSE /\ produced = 0 /\ complete = FALSE /\ broken = FALSE
    /\ declined = Nothing /\ arrived = 0 /\ seen = "open" /\ answer = Nothing

MCInit ==
    /\ PathInit
    /\ \/ part = "path" /\ LogIdle /\ RuleIdle /\ ServeIdle
       \/ part = "log" /\ Log!Init /\ NoTrailers /\ RuleIdle /\ ServeIdle
       \/ part = "rule" /\ Grammar!Init /\ NoTrailers /\ LogIdle /\ ServeIdle
       \/ part = "serve" /\ Serve!Init /\ NoTrailers /\ LogIdle /\ RuleIdle

MCNext ==
    /\ \/ part = "path" /\ PathNext /\ UNCHANGED <<logVars, ruleVars, serveVars>>
       \/ part = "log" /\ Log!Next /\ UNCHANGED <<pathVars, ruleVars, serveVars>>
       \/ part = "rule" /\ Grammar!Next /\ UNCHANGED <<pathVars, logVars, serveVars>>
       \/ part = "serve" /\ Serve!Next /\ UNCHANGED <<pathVars, logVars, ruleVars>>
    /\ UNCHANGED part

MCSpec == MCInit /\ [][MCNext]_<<part, pathVars, logVars, ruleVars, serveVars>>

-----------------------------------------------------------------------------
\* The properties of LogRecord, RuleGrammar and ServeRequest.

\* A logged record is one printable line within the limit from whose end every field
\* can be read back, and no record that fits is refused (record.rs RecordBuilder).
RecordIsReadable == Log!RecordIsReadable

\* A rule is loaded from the store as it was parsed.
StoredRuleReadsBack == Grammar!StoredRuleReadsBack

\* A broken response never looks complete (server.rs OwnedBody).
ResponseIsBodyStream == Serve!ResponseIsBodyStream

\* The service answers what was routed to it, and leaves neither the peer nor the
\* handler's operation behind (endpoint.rs handle_request).
RequestIsAnswered == Serve!RequestIsAnswered

=============================================================================
