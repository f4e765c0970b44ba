------------------------------ MODULE LogRecord ------------------------------
(***************************************************************************)
(* Log lines of the log crate: RecordBuilder (log/src/record.rs), the      *)
(* element writer on top of it (compact.rs) and the two formatters, which  *)
(* turn an access record or a certificate record into the calls made on    *)
(* the builder, one after another.                                         *)
(*                                                                         *)
(* A byte is named for what the builder tells apart.  Method, version,     *)
(* status, byte count, action and fingerprint are one harmless byte; a     *)
(* timestamp keeps its brackets and the space between them, and what is    *)
(* written as it is (client, certificate chain) its spaces and quotes.     *)
(***************************************************************************)
EXTENDS SequencesExt, Naturals

CONSTANTS
    MaxRecordLen,       \* MAX_RECORD_LEN
    MaxText             \* bound: length of a header value or an issuer

Quote == "\""
Backslash == "\\"

\* Control and non-ASCII bytes with their hexadecimal digits.
Hex == [CR |-> <<"0", "d">>, LF |-> <<"0", "a">>, TAB |-> <<"0", "9">>,
        DEL |-> <<"7", "f">>, HIGH |-> <<"8", "0">>]

Unsafe == DOMAIN Hex

\* An Option is a sequence of at most one value.
None == <<>>
Some(values) == {<<v>> : v \in values}

FormatError == {"NestedQuoted", "CarriageReturn", "LineFeed", "InvalidByte", "TooLong"}

VARIABLES
    source,         \* the record to be formatted
    done,           \* calls made so far
    bytes,          \* RecordBuilder::bytes
    mode,           \* ElementWriter::mode
    outcome         \* "building", "finished" or a FormatError

vars == <<source, done, bytes, mode, outcome>>

-----------------------------------------------------------------------------
\* What the formatters are given.

\* The certificate record is taken from the leaf: the first organization or
\* else common name of the issuer that is valid UTF-8, and the key usage.
FirstValidIssuer(leaf) ==
    LET valid == SelectSeq(leaf.organization \o leaf.common, LAMBDA name : name # None)
    IN  IF valid = <<>> THEN None ELSE Head(valid)

CertificateUsage(leaf) ==
    CASE leaf.usage = None -> <<"u">>
      [] leaf.usage = <<{}>> -> <<"o">>
      [] leaf.usage = <<{"client"}>> -> <<"c", " ", "o">>
      [] leaf.usage = <<{"server"}>> -> <<"s", " ", "o">>
      [] OTHER -> <<"c", " ", "s">>

Texts(alphabet, max) == UNION {[1 .. n -> alphabet] : n \in 0 .. max}

\* Header values have no CR, LF or DEL, URI paths neither controls nor spaces;
\* an issuer is any text, and so is the identity a caller gives for the client.
AccessSource ==
    [log : {"access"},
     client : {None} \cup Some({<<"a">>, <<"a", "CR">>, <<"HIGH">>,
                               <<" ", Quote>>, <<"]", Backslash>>}),
     target : {None} \cup Some(Texts({"a", Quote, "HIGH"}, 1)),
     referer : {None} \cup Some(Texts({"a", " ", Quote, Backslash, "TAB"}, MaxText)),
     userAgent : {None} \cup Some({<<>>, <<Backslash>>, <<Backslash, Quote>>})]

\* Up to one name of a kind, None if it is no valid UTF-8.
Names(texts) == {<<>>} \cup Some({None} \cup Some(texts))

CertificateSource ==
    [log : {"certificate"},
     organization : Names({<<"a">>, <<Quote, "LF">>}),
     common : Names(Texts({"-", Backslash, "DEL"}, MaxText)),
     usage : {None} \cup Some(SUBSET {"client", "server"}),
     chain : {"client", "client and server"}]

\* Display of a CertificateChainKey, `client:0` or `client and server:0`, which is several
\* words (two here, as in the usage above).
CertificateChainKey(chain) ==
    IF chain = "client" THEN <<"c">> ELSE <<"c", " ", "s">>

-----------------------------------------------------------------------------
\* The calls a formatter makes.

Bytes(b) == <<[op |-> "bytes", value |-> b]>>
Literal(b) == <<[op |-> "literal", value |-> b]>>
Quoted(calls) == <<[op |-> "open", value |-> <<>>]>> \o calls
                   \o <<[op |-> "close", value |-> <<>>]>>
Optional(v) == Bytes(IF v = None THEN <<"-">> ELSE v[1])

Sp == Literal(<<" ">>)
Missing == Bytes(<<"-">>)
ClfTimestamp == Bytes(<<"[", "0", " ", "0", "]">>)
Decimal == Bytes(<<"0">>)

AccessRequestLine(s) ==
    Bytes(<<"a">>) \o Bytes(<<" ">>) \o Optional(s.target) \o Bytes(<<" ">>) \o Bytes(<<"a">>)

FormatAccess(s) ==
    Optional(s.client) \o Sp \o Missing \o Sp \o Missing \o Sp \o ClfTimestamp \o Sp
      \o Quoted(AccessRequestLine(s)) \o Sp \o Decimal \o Sp \o Decimal \o Sp
      \o Quoted(Optional(s.referer)) \o Sp \o Quoted(Optional(s.userAgent))

FormatCertificate(s) ==
    LET issuer == FirstValidIssuer(s)
    IN  ClfTimestamp \o Sp \o Bytes(<<"a">>) \o Sp
          \o (IF issuer = None THEN Missing ELSE Quoted(Bytes(issuer[1]))) \o Sp
          \o Quoted(Bytes(CertificateUsage(s))) \o Sp
          \o Bytes(CertificateChainKey(s.chain)) \o Sp
          \o ClfTimestamp \o Sp \o Quoted(Bytes(<<"a">>))

Calls(s) == IF s.log = "access" THEN FormatAccess(s) ELSE FormatCertificate(s)

-----------------------------------------------------------------------------
\* RecordBuilder.

\* Mutant: a backslash is copied.
EncodedPlainBackslash(b) ==
    CASE b = Quote -> <<Backslash, b>>
      [] b \in Unsafe -> <<Backslash, "x">> \o Hex[b]
      [] OTHER -> <<b>>

Encoded(b) ==
    CASE b \in {Quote, Backslash} -> <<Backslash, b>>
      [] b \in Unsafe -> <<Backslash, "x">> \o Hex[b]
      [] OTHER -> <<b>>

Escaped(value) == FlattenSeq([i \in DOMAIN value |-> Encoded(value[i])])

\* ensure_fits: one byte is left for the line feed.
Fits(additional) == Len(bytes) + additional < MaxRecordLen

Rejected(b) ==
    CASE b = "CR" -> "CarriageReturn"
      [] b = "LF" -> "LineFeed"
      [] OTHER -> "InvalidByte"

\* What is appended whole or not at all.
Extend(value) ==
    IF Fits(Len(value))
    THEN bytes' = bytes \o value /\ outcome' = outcome
    ELSE bytes' = bytes /\ outcome' = "TooLong"

Calling(op) ==
    /\ outcome = "building"
    /\ done < Len(Calls(source))
    /\ Calls(source)[done + 1].op \in op
    /\ done' = done + 1
    /\ UNCHANGED source

Argument == Calls(source)[done + 1].value

\* literal, and bytes outside quotes: append_plain.
AppendPlain ==
    /\ Calling(IF mode = "plain" THEN {"literal", "bytes"} ELSE {"literal"})
    /\ LET bad == SelectInSeq(Argument, LAMBDA b : b \in Unsafe)
       IN  IF bad = 0 THEN Extend(Argument)
           ELSE bytes' = bytes /\ outcome' = Rejected(Argument[bad])
    /\ UNCHANGED mode

\* bytes inside quotes.
AppendQuoted ==
    /\ Calling({"bytes"})
    /\ mode = "quoted"
    /\ Extend(Escaped(Argument))
    /\ UNCHANGED mode

\* ElementWriter::quoted
OpenQuote ==
    /\ Calling({"open"})
    /\ IF mode = "quoted" THEN bytes' = bytes /\ outcome' = "NestedQuoted"
       ELSE Extend(<<Quote>>)
    /\ mode' = "quoted"

CloseQuote ==
    /\ Calling({"close"})
    /\ Extend(<<Quote>>)
    /\ mode' = "plain"

Finish ==
    /\ outcome = "building"
    /\ done = Len(Calls(source))
    /\ IF Fits(0) THEN bytes' = Append(bytes, "LF") /\ outcome' = "finished"
       ELSE bytes' = bytes /\ outcome' = "TooLong"
    /\ UNCHANGED <<source, done, mode>>

Init ==
    /\ source \in AccessSource \cup CertificateSource
    /\ done = 0 /\ bytes = <<>> /\ mode = "plain" /\ outcome = "building"

Next == AppendPlain \/ AppendQuoted \/ OpenQuote \/ CloseQuote \/ Finish

Spec == Init /\ [][Next]_vars

TypeOK ==
    /\ source \in AccessSource \cup CertificateSource
    /\ done \in 0 .. Len(Calls(source))
    /\ Len(bytes) <= MaxRecordLen
    /\ mode \in {"plain", "quoted"}
    /\ outcome \in FormatError \cup {"building", "finished"}

-----------------------------------------------------------------------------
\* How a line is read: from its end, because of what is written as it is.  Fields
\* are separated by spaces outside brackets and quotes; what is in quotes is
\* unescaped; what is left of the eighth space of an access line is the client.

Text == [value |-> <<>>, at |-> "text", digit |-> ""]

Unescape(digits) ==
    IF \E b \in Unsafe : Hex[b] = digits THEN CHOOSE b \in Unsafe : Hex[b] = digits
    ELSE "unknown"

ReadByte(text, b) ==
    LET add(c) == [Text EXCEPT !.value = Append(text.value, c)]
    IN  CASE text.at = "text" -> (IF b = Backslash THEN [text EXCEPT !.at = "escape"] ELSE add(b))
          [] text.at = "escape" -> (IF b = "x" THEN [text EXCEPT !.at = "hex"] ELSE add(b))
          [] text.digit = "" -> [text EXCEPT !.digit = b]
          [] OTHER -> add(Unescape(<<text.digit, b>>))

Unescaped(field) == FoldLeft(ReadByte, Text, field).value

\* A quote after an odd number of backslashes is part of the text.
EscapedAt(i) ==
    Cardinality({j \in 1 .. i - 1 : \A h \in j .. i - 1 : bytes[h] = Backslash}) % 2 = 1

Line == [fields |-> <<<<>>>>, at |-> "end"]

Add(line, b) == [line EXCEPT !.fields = <<<<b>> \o Head(@)>> \o Tail(@)]

Go(line, at) == [line EXCEPT !.at = at]

ReadBack(i, line) ==
    LET b == bytes[i]
    IN  CASE line.at = "end" -> Go(line, IF b = "LF" THEN "plain" ELSE "torn")
          [] line.at = "plain" /\ source.log = "access" /\ Len(line.fields) = 9 -> Add(line, b)
          [] line.at = "plain" ->
               (CASE b = " " -> [line EXCEPT !.fields = <<<<>>>> \o @]
                  [] b = Quote -> Go(line, "quoted")
                  [] b = "]" -> Go(Add(line, b), "bracket")
                  [] OTHER -> Add(line, b))
          [] line.at = "bracket" -> Go(Add(line, b), IF b = "[" THEN "plain" ELSE "bracket")
          [] line.at = "quoted" ->
               (IF b # Quote \/ EscapedAt(i) THEN Add(line, b)
                ELSE [Go(line, "plain") EXCEPT !.fields = <<Unescaped(Head(@))>> \o Tail(@)])
          [] OTHER -> line

ReadLine == FoldRight(ReadBack, [i \in DOMAIN bytes |-> i], Line)

\* What the fields were, before any byte was escaped.  A chain is as many fields as
\* it has words: those between the fourth field and the last two.
OrDash(v) == IF v = None THEN <<"-">> ELSE v[1]

Fields(s) ==
    LET time == <<"[", "0", " ", "0", "]">>
    IN  IF s.log = "access"
        THEN <<OrDash(s.client), <<"-">>, <<"-">>, time,
               <<"a", " ">> \o OrDash(s.target) \o <<" ", "a">>,
               <<"0">>, <<"0">>, OrDash(s.referer), OrDash(s.userAgent)>>
        ELSE <<time, <<"a">>, OrDash(FirstValidIssuer(s)), CertificateUsage(s)>>
               \o (IF s.chain = "client" THEN <<<<"c">>>> ELSE <<<<"c">>, <<"s">>>>)
               \o <<time, <<"a">>>>

QuotedFields(s) ==
    IF s.log = "access" THEN {5, 8, 9}
    ELSE {4, Len(Fields(s))} \cup (IF FirstValidIssuer(s) = None THEN {} ELSE {3})

\* The length of the line if there were no limit: a space or the line feed
\* follows every field.
Length(s) ==
    MapThenSumSet(LAMBDA i : 1 + (IF i \in QuotedFields(s) THEN 2 + Len(Escaped(Fields(s)[i]))
                                  ELSE Len(Fields(s)[i])),
                  DOMAIN Fields(s))

-----------------------------------------------------------------------------
\* Properties.

\* What log/src/record.rs says of every FormattedRecord, whatever the client
\* put into its headers: within the limit, printable ASCII, and one line feed,
\* at the end.
RecordIsPhysical ==
    outcome = "finished" =>
        /\ Len(bytes) <= MaxRecordLen
        /\ Last(bytes) = "LF"
        /\ \A i \in 1 .. Len(bytes) - 1 : bytes[i] \notin Unsafe

\* A line tells what was logged: a reader who starts at its end finds the fields of
\* the record, in order and unchanged, whatever quotes, backslashes, spaces and
\* controls they hold.  (One who splits at spaces from the left does not: client and
\* chain are not quoted, so a client may look like fields and a chain is several.)
FieldsRecoverable ==
    outcome = "finished" => ReadLine.at = "plain" /\ ReadLine.fields = Fields(source)

\* Only a record that really does not fit is refused as too long, although the
\* builder decides call by call, before it knows the rest.
LimitIsExact == outcome = "TooLong" => Length(source) > MaxRecordLen

\* All of the above: a record is logged as one line that can be read back, or is
\* refused because it must be (log/src/record.rs RecordBuilder).
RecordIsReadable == RecordIsPhysical /\ FieldsRecoverable /\ LimitIsExact

=============================================================================
