------------------------------ MODULE RuleExpr ------------------------------
(***************************************************************************)
(* Evaluation of an access rule's condition: the stack machine of          *)
(* access/src/expr/eval.rs, which reads the expression in Polish notation, *)
(* and its two uses in expr/exprs.rs: validate_arity, run when a stored    *)
(* expression is read, and try_eval, run for every request.                *)
(*                                                                         *)
(* An atom is abstracted to its value for the request: "T", "F" or "E" for *)
(* a client name that is needed and missing.  Arity is checked with the    *)
(* same machine over a value "U" that never short-circuits.                *)
(***************************************************************************)
EXTENDS Naturals, SequencesExt

CONSTANT MaxParts       \* bound: length of the expressions

Operator == {"and", "or", "not"}
Truth == {"T", "F", "E"}
Unit == "U"
EvalPolishError == {"IncompleteExpression", "ExtraOperands"}

VARIABLES
    parts,          \* the expression
    mode,           \* "arity" first; "eval" for an expression that passed
    pos,            \* next part to read
    settling,       \* inside try_eval, which runs until nothing can be reduced
    shortCircuit, ops, values,      \* the VM
    result          \* None, a value or an EvalPolishError

None == "none"

vars == <<parts, mode, pos, settling, shortCircuit, ops, values, result>>

TypeOK ==
    /\ parts \in Seq(Operator \cup Truth) /\ Len(parts) <= MaxParts
    /\ mode \in {"arity", "eval"}
    /\ pos \in 1 .. MaxParts + 1
    /\ settling \in BOOLEAN
    /\ shortCircuit \in 0 .. MaxParts
    /\ ops \in Seq(Operator)
    /\ values \in Seq(IF mode = "arity" THEN {Unit} ELSE Truth)
    /\ result \in Truth \cup EvalPolishError \cup {None}

NewVM ==
    /\ pos = 1
    /\ settling = FALSE
    /\ shortCircuit = 0
    /\ ops = <<>>
    /\ values = <<>>

Init ==
    /\ parts \in UNION {[1 .. n -> Operator \cup Truth] : n \in 0 .. MaxParts}
    /\ mode = "arity"
    /\ result = None
    /\ NewVM

-----------------------------------------------------------------------------
\* BooleanOperator

Operand(op) == IF op = "not" THEN 1 ELSE 2

Not(v) == CASE v = "T" -> "F" [] v = "F" -> "T" [] OTHER -> v

\* Mutant: a missing client name counts as no match.
OperateIgnoresError(op, l, r) ==
    IF Unit \in {l, r} THEN Unit
    ELSE IF op = "and" THEN (IF l = "T" /\ r = "T" THEN "T" ELSE "F")
    ELSE IF "T" \in {l, r} THEN "T" ELSE "F"

\* The left value l was pushed first; an error on the right is looked at first.
Operate(op, l, r) ==
    IF Unit \in {l, r} THEN Unit
    ELSE IF "E" \in {l, r} THEN "E"
    ELSE IF op = "and" THEN (IF l = "T" THEN r ELSE "F")
    ELSE IF l = "T" THEN "T" ELSE r

Decides(op, v) ==
    \/ op = "and" /\ v \in {"F", "E"}
    \/ op = "or" /\ v \in {"T", "E"}

-----------------------------------------------------------------------------
\* VM::try_run

Reading == result = None /\ ~settling /\ pos <= Len(parts)

PushOperator ==
    /\ Reading
    /\ parts[pos] \in Operator
    /\ shortCircuit = 0
    /\ ops' = Append(ops, parts[pos])
    /\ pos' = pos + 1
    /\ UNCHANGED <<parts, mode, settling, shortCircuit, values, result>>

PushValue ==
    /\ Reading
    /\ parts[pos] \in Truth
    /\ shortCircuit = 0
    /\ values' = Append(values, IF mode = "arity" THEN Unit ELSE parts[pos])
    /\ settling' = TRUE
    /\ pos' = pos + 1
    /\ UNCHANGED <<parts, mode, shortCircuit, ops, result>>

\* While a short-circuited operand is passed over.
SkipPart ==
    /\ Reading
    /\ shortCircuit > 0
    /\ shortCircuit' = IF parts[pos] \in Operator
                       THEN shortCircuit + Operand(parts[pos]) - 1
                       ELSE shortCircuit - 1
    /\ pos' = pos + 1
    /\ UNCHANGED <<parts, mode, settling, ops, values, result>>

\* VM::try_eval

Enough == ops # <<>> /\ Len(values) >= Operand(Last(ops))

Cut == ops # <<>> /\ ~Enough /\ values # <<>> /\ Decides(Last(ops), Last(values))

\* Mutant: the value that decides the operator is counted as missing as well.
ShortCircuitOneTooMany ==
    /\ settling
    /\ Cut
    /\ shortCircuit' = shortCircuit + Operand(Last(ops))
    /\ ops' = Front(ops)
    /\ UNCHANGED <<parts, mode, pos, settling, values, result>>

OperateTop ==
    /\ settling
    /\ Enough
    /\ LET op == Last(ops)
           rest == SubSeq(values, 1, Len(values) - Operand(op))
       IN  values' = Append(rest, IF op = "not" THEN Not(Last(values))
                                  ELSE Operate(op, Last(Front(values)), Last(values)))
    /\ ops' = Front(ops)
    /\ UNCHANGED <<parts, mode, pos, settling, shortCircuit, result>>

\* The deciding value stays; the operands that are left are to be passed over.
ShortCircuitTop ==
    /\ settling
    /\ Cut
    /\ shortCircuit' = shortCircuit + Operand(Last(ops)) - 1
    /\ ops' = Front(ops)
    /\ UNCHANGED <<parts, mode, pos, settling, values, result>>

Settled ==
    /\ settling
    /\ ~Enough /\ ~Cut
    /\ settling' = FALSE
    /\ UNCHANGED <<parts, mode, pos, shortCircuit, ops, values, result>>

\* The end of try_run.
Outcome ==
    IF ops # <<>> \/ shortCircuit # 0 \/ values = <<>> THEN "IncompleteExpression"
    ELSE IF Len(values) # 1 THEN "ExtraOperands"
    ELSE Last(values)

Ended == result = None /\ ~settling /\ pos > Len(parts)

\* Deserialization accepts the expression; it is then evaluated.
Accept ==
    /\ Ended
    /\ mode = "arity"
    /\ Outcome = Unit
    /\ mode' = "eval"
    /\ pos' = 1
    /\ values' = <<>>
    /\ UNCHANGED <<parts, settling, shortCircuit, ops, result>>

Return ==
    /\ Ended
    /\ Outcome # Unit
    /\ result' = Outcome
    /\ UNCHANGED <<parts, mode, pos, settling, shortCircuit, ops, values>>

Next ==
    \/ PushOperator \/ PushValue \/ SkipPart
    \/ OperateTop \/ ShortCircuitTop \/ Settled
    \/ Accept \/ Return

Spec == Init /\ [][Next]_vars

-----------------------------------------------------------------------------
\* What an expression means: read from the right, an operator applies to the
\* operands that follow it.  A stack entry is a value and whether a binary
\* operator occurs in the operand; "bad" marks an operator without operands.

Entry(v, binary) == [value |-> v, binary |-> binary]

Bad == <<Entry("bad", FALSE)>>

Apply(op, l, r) == IF Decides(op, l) THEN l ELSE r

Reduce(part, stack) ==
    IF stack = Bad \/ (part \in Operator /\ Len(stack) < Operand(part)) THEN Bad
    ELSE IF part \in Truth THEN <<Entry(part, FALSE)>> \o stack
    ELSE IF part = "not" THEN <<[stack[1] EXCEPT !.value = Not(@)]>> \o Tail(stack)
    ELSE <<Entry(Apply(part, stack[1].value, stack[2].value), TRUE)>> \o Tail(Tail(stack))

\* What the last n parts leave on the stack, for all of them.
Read(seq) ==
    LET last[n \in 0 .. Len(seq)] ==
          IF n = 0 THEN <<>> ELSE Reduce(seq[Len(seq) + 1 - n], last[n - 1])
    IN  last[Len(seq)]

WellFormed(seq) == Read(seq) # Bad /\ Len(Read(seq)) = 1

Meaning(seq) == Read(seq)[1].value

\* No right operand contains a binary operator.
FlatReduce(part, stack) ==
    IF part \in {"and", "or"} /\ Len(stack) >= 2 /\ stack[2].binary THEN Bad
    ELSE Reduce(part, stack)

FlatRead(seq) ==
    LET last[n \in 0 .. Len(seq)] ==
          IF n = 0 THEN <<>> ELSE FlatReduce(seq[Len(seq) + 1 - n], last[n - 1])
    IN  last[Len(seq)]

Flat(seq) == FlatRead(seq) # Bad

Conjunction(seq) == \A i \in DOMAIN seq : seq[i] \in Truth \cup {"and"}

-----------------------------------------------------------------------------
\* Properties.

\* validate_arity and try_run agree: a rule that was accepted never makes try_run
\* fail, whatever the atoms evaluate to and whatever is short-circuited.  Rule::eval
\* would silently drop the rule.
AcceptedRulesRun == mode = "eval" => result \notin EvalPolishError

\* A rule that the parser wrote is never refused when it is read from the store.
WrittenRulesLoad == (mode = "arity" /\ result # None) => ~WellFormed(parts)

\* Rules without an operator in a right operand, and pure conjunctions, decide
\* as written, missing client names and short-circuiting included.
SimpleRulesDecide ==
    (mode = "eval" /\ result # None /\ WellFormed(parts)
       /\ (Flat(parts) \/ Conjunction(parts))) => result = Meaning(parts)

\* Every rule decides as written; access/tests/unit/parsing.rs writes rules such
\* as `with method ( GET or POST )`, that is `and ClientName or GET POST`.
RulesDecide ==
    (mode = "eval" /\ result # None /\ WellFormed(parts)) => result = Meaning(parts)

=============================================================================
