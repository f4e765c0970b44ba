--------------------------- MODULE Reachability ---------------------------
(***************************************************************************)
(* Whether an access pattern can match any valid input of its domain       *)
(* (access/src/pattern/reachability.rs): the breadth-first search of the   *)
(* product of the pattern's automaton and the domain's, for the languages  *)
(* of names, location paths, query parts, tokens and header values.        *)
(*                                                                         *)
(* A byte is abstracted to a class the languages tell apart.  The dense    *)
(* automaton of regex-automata is external: it reports a match one byte    *)
(* after the match ended, or at the end of the input, and is dead once no  *)
(* other match can follow.                                                 *)
(***************************************************************************)
EXTENDS Naturals, Sequences, FiniteSets

CONSTANTS
    Language,           \* the languages to search
    RegexState,         \* states of the pattern's automaton, without the dead one
    Start,              \* its start state
    MaxLabel, MaxTotal  \* limits of a name: 63 and 253 in the code

Dead == "dead"

VARIABLES
    language,
    delta, accepting,   \* the pattern: where a byte leads, where a match ends
    queue, seen,        \* the search
    verdict             \* "searching", "reachable" or "unreachable"

vars == <<language, delta, accepting, queue, seen, verdict>>

-----------------------------------------------------------------------------
\* The languages.  "x" is a letter or digit, and a hexadecimal one in a path or
\* a query; the other classes stand for themselves.

Alphabet(lang) ==
    CASE lang = "name"  -> {"x", "-", "."}
      [] lang = "path"  -> {"x", "%", "/"}
      [] lang = "query" -> {"x", "%"}
      [] OTHER          -> {"x"}

DomainState(kind, len, total) == [kind |-> kind, len |-> len, total |-> total]

DomainStart == DomainState(0, 0, 0)

\* Where the code returns None.
Rejected == DomainState(9, 0, 0)

NameStep(s, byte) ==
    LET total == s.total + 1
        label == s.len + 1
    IN  IF total > MaxTotal THEN Rejected
        ELSE CASE s.kind = 0 /\ byte = "x" -> DomainState(1, 1, total)
               [] s.kind \in {1, 2} /\ byte = "x" /\ label <= MaxLabel
                    -> DomainState(1, label, total)
               [] s.kind \in {1, 2} /\ byte = "-" /\ label <= MaxLabel
                    -> DomainState(2, label, total)
               [] s.kind = 1 /\ byte = "." -> DomainState(0, 0, total)
               [] OTHER -> Rejected

PathStep(s, byte) ==
    CASE s.kind = 0 /\ byte = "/" -> DomainState(1, 0, 0)
      [] s.kind = 1 /\ byte = "%" -> DomainState(2, 0, 0)
      [] s.kind = 1 /\ byte # "%" -> DomainState(1, 0, 0)
      [] s.kind = 2 /\ byte = "x" -> DomainState(3, 0, 0)
      [] s.kind = 3 /\ byte = "x" -> DomainState(1, 0, 0)
      [] OTHER -> Rejected

QueryStep(s, byte) ==
    CASE s.kind = 0 /\ byte = "%" -> DomainState(1, 0, 0)
      [] s.kind = 0 /\ byte # "%" -> DomainState(0, 0, 0)
      [] s.kind = 1 /\ byte = "x" -> DomainState(2, 0, 0)
      [] s.kind = 2 /\ byte = "x" -> DomainState(0, 0, 0)
      [] OTHER -> Rejected

Step(lang, s, byte) ==
    CASE lang = "name"  -> NameStep(s, byte)
      [] lang = "path"  -> PathStep(s, byte)
      [] lang = "query" -> QueryStep(s, byte)
      [] lang = "token" -> DomainState(0, 1, 0)
      [] lang = "value" -> DomainState(0, 0, 0)

IsAccept(lang, s) ==
    CASE lang \in {"name", "path"} -> s.kind = 1
      [] lang = "query" -> s.kind = 0
      [] lang = "token" -> s.len = 1
      [] lang = "value" -> TRUE

-----------------------------------------------------------------------------
\* The dense automaton: a state of the pattern and whether the byte just read
\* followed the end of a match.

State(q, match) == [q |-> q, match |-> match]

NextState(s, byte) ==
    IF s.q = Dead THEN State(Dead, FALSE)
    ELSE State(delta[<<s.q, byte>>], s.q \in accepting)

NextEoiState(s) == State(Dead, s.q \in accepting)

IsDead(s) == s.q = Dead /\ ~s.match

-----------------------------------------------------------------------------
\* intersects

TypeOK ==
    /\ language \in Language
    /\ delta \in [RegexState \X Alphabet(language) -> RegexState \cup {Dead}]
    /\ accepting \subseteq RegexState
    /\ \A e \in seen \cup {queue[i] : i \in DOMAIN queue} :
         /\ e[1].q \in RegexState \cup {Dead}
         /\ e[2].kind \in 0..3 /\ e[2].len <= MaxLabel /\ e[2].total <= MaxTotal
         /\ e[1].match => e[3]
    /\ verdict \in {"searching", "reachable", "unreachable"}

Init ==
    /\ language \in Language
    /\ delta \in [RegexState \X Alphabet(language) -> RegexState \cup {Dead}]
    /\ accepting \in SUBSET RegexState
    /\ queue = <<<<State(Start, FALSE), DomainStart, FALSE>>>>
    /\ seen = {}
    /\ verdict = "searching"

Skip ==
    /\ verdict = "searching" /\ queue # <<>>
    /\ Head(queue) \in seen
    /\ queue' = Tail(queue)
    /\ UNCHANGED <<language, delta, accepting, seen, verdict>>

Matched(e) == e[3] \/ e[1].match

Found(e) == IsAccept(language, e[2]) /\ (Matched(e) \/ NextEoiState(e[1]).match)

Report ==
    /\ verdict = "searching" /\ queue # <<>>
    /\ Head(queue) \notin seen
    /\ Found(Head(queue))
    /\ seen' = seen \cup {Head(queue)}
    /\ queue' = Tail(queue)
    /\ verdict' = "reachable"
    /\ UNCHANGED <<language, delta, accepting>>

\* A byte that the language does not allow is passed over.
Push(e, byte) ==
    LET regex == NextState(e[1], byte)
        domain == Step(language, e[2], byte)
    IN  IF byte \notin Alphabet(language) \/ domain = Rejected THEN <<>>
        ELSE <<<<regex, domain, Matched(e) \/ regex.match>>>>

Successors(e) == Push(e, "x") \o Push(e, "-") \o Push(e, ".") \o Push(e, "%") \o Push(e, "/")

\* Mutant: a state that reports the last match is already taken for dead.
ExpandDead ==
    /\ verdict = "searching" /\ queue # <<>>
    /\ Head(queue) \notin seen
    /\ ~Found(Head(queue))
    /\ seen' = seen \cup {Head(queue)}
    /\ queue' = Tail(queue) \o (IF Head(queue)[1].q = Dead THEN <<>>
                                ELSE Successors(Head(queue)))
    /\ UNCHANGED <<language, delta, accepting, verdict>>

\* A dead state is not searched further.
Expand ==
    /\ verdict = "searching" /\ queue # <<>>
    /\ Head(queue) \notin seen
    /\ ~Found(Head(queue))
    /\ seen' = seen \cup {Head(queue)}
    /\ queue' = Tail(queue) \o (IF IsDead(Head(queue)[1]) THEN <<>>
                                ELSE Successors(Head(queue)))
    /\ UNCHANGED <<language, delta, accepting, verdict>>

GiveUp ==
    /\ verdict = "searching" /\ queue = <<>>
    /\ verdict' = "unreachable"
    /\ UNCHANGED <<language, delta, accepting, queue, seen>>

Next == Skip \/ Report \/ Expand \/ GiveUp

Spec == Init /\ [][Next]_vars

-----------------------------------------------------------------------------
\* What the search should find: an input of the language whose run through the
\* pattern passes the end of a match.

Product(q, d, matched) == [q |-> q, d |-> d, matched |-> matched \/ q \in accepting]

After(s) ==
    {LET q == IF s.q = Dead THEN Dead ELSE delta[<<s.q, byte>>]
     IN  Product(q, Step(language, s.d, byte), s.matched) :
        byte \in {b \in Alphabet(language) : Step(language, s.d, b) # Rejected}}

\* The states after at most n bytes.
Within[n \in Nat] ==
    IF n = 0 THEN {Product(Start, DomainStart, FALSE)}
    ELSE LET before == Within[n - 1]
         IN  before \cup UNION {After(s) : s \in before}

\* Enough for the automata of these models: every state of the product is
\* reached within as many bytes as there are states.
Bytes == 2 * (Cardinality(RegexState) + 1) * (MaxTotal + 3)

Matches == \E s \in Within[Bytes] : s.matched /\ IsAccept(language, s.d)

-----------------------------------------------------------------------------
\* Properties.

\* A pattern is refused exactly when it can match no valid input, although
\* matches are reported late and dead states are not searched further (which
\* is complete only because every language accepts within two bytes).
VerdictIsRight ==
    /\ verdict = "reachable" => Matches
    /\ verdict = "unreachable" => ~Matches

=============================================================================
