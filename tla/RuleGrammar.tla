---------------------------- MODULE RuleGrammar ----------------------------
(***************************************************************************)
(* How a rule's condition gets into the store and out of it again          *)
(* (access/src/expr/parse.rs, atomics.rs, exprs.rs): LocationRuleExprs     *)
(* parses the tokens of the written rule into Polish notation, Serialize   *)
(* writes that as a line of text, Deserialize lexes and parses the line    *)
(* with another grammar and checks its arity.                              *)
(*                                                                         *)
(* A text is a sequence of chunks: a word, a space, a quote, a backslash,  *)
(* the DHTTP shorthand.  Letters are lower case, as keywords are compared  *)
(* without case.  <<"bad">> stands for every pattern that does not build.  *)
(***************************************************************************)
EXTENDS Naturals, SequencesExt

CONSTANTS
    Profile,            \* client profiles: the tokens a rule may begin with
    Body,               \* the tokens that may follow `with` or `without`
    MaxBody             \* bound: how many of them follow `with`

Quote == "\""
Backslash == "\\"

Unquoted(text) == [token |-> "unquoted", text |-> text]
Quoted(text) == [token |-> "quoted", text |-> text]
Symbol(c) == [token |-> "symbol", text |-> <<c>>]

VARIABLES
    tokens,         \* the rule as written, lexed
    polish,         \* what it was parsed to
    stored,         \* the line in the store
    step            \* "written", "parsed", "stored", "loaded" or an error

vars == <<tokens, polish, stored, step>>

-----------------------------------------------------------------------------
\* Parts: operators and atoms.

Op(name) == [part |-> name, key |-> <<>>, value |-> <<>>]
Atom(kind, key, value) == [part |-> kind, key |-> key, value |-> value]

Operators == {"and", "or", "not"}

Invalid(parts) ==
    \E i \in DOMAIN parts : <<"bad">> \in {parts[i].key, parts[i].value}

\* canonicalize_name_pattern: `~` is short for the suffix, escaped in a regex.
Suffix(prefix) ==
    IF prefix \in {"~", "~*"} THEN <<Backslash, ".dhttp", Backslash, ".net">>
    ELSE <<".dhttp", ".net">>

Expand(text, suffix) ==
    FlattenSeq([i \in DOMAIN text |-> IF text[i] = "~" THEN suffix ELSE <<text[i]>>])

Canonical(text) ==
    IF Len(text) >= 2 /\ text[1] \in {"~", "~*", "=", "*"} /\ text[2] = " "
    THEN <<text[1], " ">> \o Expand(SubSeq(text, 3, Len(text)), Suffix(text[1]))
    ELSE Expand(text, Suffix(""))

-----------------------------------------------------------------------------
\* A rule of the grammar takes tokens and a position and gives the position
\* after what it matched, and its parts.

Match(at, parts) == [at |-> at, parts |-> parts]
Fail == Match(0, <<>>)

Prefixed(parts, match) ==
    IF match = Fail THEN Fail ELSE Match(match.at, parts \o match.parts)

IsText(ts, p) == p <= Len(ts) /\ ts[p].token # "symbol"
IsKeyword(ts, p, word) == p <= Len(ts) /\ ts[p] = Unquoted(<<word>>)
IsSymbol(ts, p, c) == p <= Len(ts) /\ ts[p] = Symbol(c)
\* The literal ":" is compared with the token's text, quoted or not.
IsColon(ts, p) == p <= Len(ts) /\ ts[p].text = <<":">>

Kind == {"header", "query", "method"}

\* header_pattern, query_pattern and method_pattern
PatternRule(kind, ts, p) ==
    IF ~IsText(ts, p) THEN Fail
    ELSE IF kind = "method" THEN Match(p + 1, <<Atom(kind, ts[p].text, <<>>)>>)
    ELSE IF IsColon(ts, p + 1) /\ IsText(ts, p + 2)
         THEN Match(p + 3, <<Atom(kind, ts[p].text, ts[p + 2].text)>>)
         ELSE Match(p + 1, <<Atom(kind, ts[p].text, <<"*">>)>>)

\* location_profile
ProfileRule(ts, p) ==
    IF IsKeyword(ts, p, "*?") THEN Match(p + 1, <<Atom("any", <<>>, <<>>)>>)
    ELSE IF IsText(ts, p) THEN Match(p + 1, <<Atom("name", Canonical(ts[p].text), <<>>)>>)
    ELSE Fail

\* The rules that refer to each other.  `rule` gives, for the name of a rule, a
\* kind of patterns and a position, what that rule matches there.
Bracketed(rule, kind, ts, p) ==
    LET inner == IF IsSymbol(ts, p, "(") THEN rule["composite", kind, p + 1] ELSE Fail
    IN  IF inner # Fail /\ IsSymbol(ts, inner.at, ")") THEN Match(inner.at + 1, inner.parts)
        ELSE Fail

\* possiable_negative_expr, for methods only.
Negatable(kind, ts, p) ==
    LET positive == PatternRule(kind, ts, p + 1)
    IN  IF kind = "method" /\ IsKeyword(ts, p, "not") /\ positive # Fail
        THEN Prefixed(<<Op("not")>>, positive)
        ELSE PatternRule(kind, ts, p)

\* location_patterns
LocationPatterns(rule, ts, p) ==
    LET kinds == {k \in Kind : IsKeyword(ts, p, k)}
        kind == CHOOSE k \in kinds : TRUE
        bracketed == Bracketed(rule, kind, ts, p + 1)
    IN  IF kinds = {} THEN Fail
        ELSE IF bracketed # Fail THEN bracketed
        ELSE Negatable(kind, ts, p + 1)

\* The innermost rule: the patterns of one kind, or whole location patterns.
Inner(rule, kind, ts, p) ==
    IF kind = "location" THEN LocationPatterns(rule, ts, p) ELSE Negatable(kind, ts, p)

\* Prefix operators and atoms of `precedence!`, tried in order.
Operand(rule, kind, ts, p) ==
    LET negated == IF IsKeyword(ts, p, "not") THEN rule["operand", kind, p + 1] ELSE Fail
        inner == Inner(rule, kind, ts, p)
    IN  IF negated # Fail THEN Prefixed(<<Op("not")>>, negated)
        ELSE IF inner # Fail THEN inner
        ELSE Bracketed(rule, kind, ts, p)

\* Operators and operands that follow an operand, as many as there are.
Chain(rule, kind, ts, p) ==
    LET ops == {o \in {"and", "or"} : IsKeyword(ts, p, o)}
        right == IF ops = {} THEN Fail ELSE rule["operand", kind, p + 1]
        link == [op |-> Op(CHOOSE o \in ops : TRUE), right |-> right.parts]
    IN  IF right = Fail THEN Match(p, <<>>)
        ELSE Prefixed(<<link>>, rule["chain", kind, right.at])

\* `and` and `or` bind alike, to the left.
Composite(rule, kind, ts, p) ==
    LET first == rule["operand", kind, p]
        chain == rule["chain", kind, first.at]
        Join(left, link) == <<link.op>> \o left \o link.right
    IN  IF first = Fail THEN Fail
        ELSE Match(chain.at, FoldLeft(Join, first.parts, chain.parts))

CompositeRule(kind, ts, p) ==
    LET rule[name \in {"composite", "operand", "chain"}, k \in Kind \cup {"location"},
             at \in 1 .. Len(ts) + 1] ==
          CASE name = "composite" -> Composite(rule, k, ts, at)
            [] name = "operand" -> Operand(rule, k, ts, at)
            [] name = "chain" -> Chain(rule, k, ts, at)
    IN  rule["composite", kind, p]

With(ts, p) ==
    IF IsKeyword(ts, p, "with") THEN CompositeRule("location", ts, p + 1)
    ELSE IF IsKeyword(ts, p, "without")
         THEN Prefixed(<<Op("not")>>, CompositeRule("location", ts, p + 1))
    ELSE Fail

\* infix_location_rule_exprs
Infix(ts) ==
    LET profile == ProfileRule(ts, 1)
        with == IF profile = Fail THEN Fail ELSE With(ts, profile.at)
    IN  IF with = Fail THEN profile
        ELSE Match(with.at, <<Op("and")>> \o profile.parts \o with.parts)

\* polish_location_rule_exprs: part after part, to the end.
AtomRule(ts, p) ==
    LET kinds == {k \in Kind :
                    IsKeyword(ts, p + 1, k) \/ (k = "header" /\ p < Len(ts)
                                                 /\ ts[p + 1] = Quoted(<<k>>))}
        with == IF IsKeyword(ts, p, "with") /\ kinds # {}
                THEN PatternRule(CHOOSE k \in kinds : TRUE, ts, p + 2) ELSE Fail
    IN  IF with # Fail THEN with ELSE ProfileRule(ts, p)

PartRule(ts, p) ==
    LET ops == {o \in Operators : IsKeyword(ts, p, o)}
    IN  IF ops # {} THEN Match(p + 1, <<Op(CHOOSE o \in ops : TRUE)>>) ELSE AtomRule(ts, p)

Polish(ts) ==
    LET from[p \in 1 .. Len(ts) + 1] ==
          LET next == PartRule(ts, p)
          IN  IF next = Fail THEN Match(p, <<>>) ELSE Prefixed(next.parts, from[next.at])
    IN  from[1]

Complete(match, ts) == match.at = Len(ts) + 1

-----------------------------------------------------------------------------
\* Text.

\* Mutant: backslashes are not escaped.
EscapeQuotesOnly(text) ==
    FlattenSeq([i \in DOMAIN text |->
        IF text[i] = Quote THEN <<Backslash, text[i]>> ELSE <<text[i]>>])

\* escape_pattern
Escape(text) ==
    FlattenSeq([i \in DOMAIN text |->
        IF text[i] \in {Quote, Backslash} THEN <<Backslash, text[i]>> ELSE <<text[i]>>])

InQuotes(text) == <<Quote>> \o Escape(text) \o <<Quote>>

\* Display of a part, and the space Serialize puts after it.
Display(part) ==
    CASE part.part \in Operators -> <<part.part, " ">>
      [] part.part = "any" -> <<"*?", " ">>
      [] part.part = "name" -> InQuotes(part.key) \o <<" ">>
      [] part.part = "method" -> <<"with", " ", "method", " ">> \o InQuotes(part.key) \o <<" ">>
      [] OTHER -> <<"with", " ", part.part, " ">> \o InQuotes(part.key)
                    \o <<":">> \o InQuotes(part.value) \o <<" ">>

Serialize(parts) == FlattenSeq([i \in DOMAIN parts |-> Display(parts[i])])

\* The lexer, chunk by chunk; `in` tells what has been begun.
Lexing == [tokens |-> <<>>, in |-> "space", text |-> <<>>]

Ended(lex, token) == [tokens |-> Append(lex.tokens, token), in |-> "space", text |-> <<>>]
Closed(lex) == IF lex.in = "unquoted" THEN Ended(lex, Unquoted(lex.text)) ELSE lex
More(lex, in, chunks) == [lex EXCEPT !.in = in, !.text = @ \o chunks]

LexChunk(lex, c) ==
    IF lex.in = "quoted"
    THEN (IF c = Quote THEN Ended(lex, Quoted(lex.text))
          ELSE IF c = Backslash THEN [lex EXCEPT !.in = "escape"]
          ELSE More(lex, "quoted", <<c>>))
    ELSE IF lex.in = "escape"
    THEN More(lex, "quoted", IF c \in {Quote, Backslash} THEN <<c>> ELSE <<Backslash, c>>)
    ELSE IF c = " " THEN Closed(lex)
    ELSE IF c = Quote THEN More(Closed(lex), "quoted", <<>>)
    ELSE IF c \in {"(", ")", ":"} THEN Ended(Closed(lex), Symbol(c))
    ELSE More(lex, "unquoted", <<c>>)

Lex(line) == Closed(FoldLeft(LexChunk, Lexing, line))

\* What validate_arity accepts of a parser's output: every operator has its
\* operands and nothing is left over.
Missing(part, needed) ==
    IF needed = 0 THEN 0
    ELSE IF part.part = "not" THEN needed
    ELSE IF part.part \in {"and", "or"} THEN needed + 1
    ELSE needed - 1

ArityValid(parts) ==
    /\ FoldLeft(LAMBDA n, part : Missing(part, n), 1, parts) = 0
    /\ parts # <<>>
    /\ FoldLeft(LAMBDA n, part : Missing(part, n), 1, Front(parts)) # 0

-----------------------------------------------------------------------------
\* Bodies that begin with another token, or whose brackets do not match, are
\* refused; they are left out.
Begins(t) == t \in {Symbol("(")} \cup {Unquoted(<<w>>) : w \in {"header", "method", "not"}}

Balanced(ts) ==
    LET count(c, n) == Cardinality({i \in 1 .. n : ts[i] = Symbol(c)})
    IN  /\ count(")", Len(ts)) = count("(", Len(ts))
        /\ \A n \in DOMAIN ts : ts[n] = Symbol(")") => count(")", n) <= count("(", n)

\* A profile alone, or everyone with or without a body of up to MaxBody tokens.
Init ==
    /\ \/ \E p \in Profile : tokens = <<p>>
       \/ \E n \in 0 .. MaxBody - 1, word \in {"with", "without"} :
             /\ word = "without" => n < MaxBody - 2
             /\ \E t \in {t \in Body : Begins(t)}, rest \in [1 .. n -> Body] :
                   /\ Balanced(<<t>> \o rest)
                   /\ tokens = <<Unquoted(<<"*?">>), Unquoted(<<word>>), t>> \o rest
    /\ polish = <<>> /\ stored = <<>> /\ step = "written"

\* LocationRuleExprs::from_str
FromStr ==
    /\ step = "written"
    /\ LET parsed == Infix(tokens)
       IN  IF ~Complete(parsed, tokens) THEN step' = "Incomplete" /\ UNCHANGED polish
           ELSE IF Invalid(parsed.parts) THEN step' = "Pattern" /\ UNCHANGED polish
           ELSE step' = "parsed" /\ polish' = parsed.parts
    /\ UNCHANGED <<tokens, stored>>

Store ==
    /\ step = "parsed"
    /\ stored' = Serialize(polish)
    /\ step' = "stored"
    /\ UNCHANGED <<tokens, polish>>

\* Deserialize
Load ==
    /\ step = "stored"
    /\ LET ts == Lex(stored).tokens
           read == Polish(ts)
       IN  IF Lex(stored).in # "space" THEN step' = "Lex" /\ UNCHANGED polish
           ELSE IF ~Complete(read, ts) THEN step' = "Parse" /\ UNCHANGED polish
           ELSE IF Invalid(read.parts) THEN step' = "PatternParse" /\ UNCHANGED polish
           ELSE IF ~ArityValid(read.parts) THEN step' = "InvalidPolish" /\ UNCHANGED polish
           ELSE step' = "loaded" /\ polish' = read.parts
    /\ UNCHANGED <<tokens, stored>>

Next == FromStr \/ Store \/ Load

Spec == Init /\ [][Next]_vars

TypeOK ==
    /\ \A i \in DOMAIN tokens : tokens[i].token \in {"unquoted", "quoted", "symbol"}
    /\ \A i \in DOMAIN polish : polish[i].part \in
            Operators \cup {"any", "name", "method", "header", "query"}
    /\ step \in {"written", "parsed", "stored", "loaded", "Incomplete", "Pattern",
                 "Lex", "Parse", "PatternParse", "InvalidPolish"}

-----------------------------------------------------------------------------
\* Properties.

\* Every rule that was accepted can be loaded again, and is the rule that was
\* accepted: no keyword, quote, backslash, colon or shorthand in a pattern makes
\* the second grammar read something else (access/tests/unit/parsing.rs checks
\* this of its examples).
StoredRuleReadsBack ==
    /\ step \notin {"Lex", "Parse", "PatternParse", "InvalidPolish"}
    /\ step = "loaded" => polish = Infix(tokens).parts

=============================================================================
