------------------------------ MODULE MCAccess ------------------------------
(***************************************************************************)
(* The access crate: the rule store, the evaluation of one condition and   *)
(* the reachability of one pattern.  The three share no state, so each     *)
(* behaviour takes the steps of one of them and leaves the others where    *)
(* they began.                                                             *)
(***************************************************************************)
EXTENDS AccessStore, TLC

CONSTANTS
    file, files, images, all, named, anonymous, alice,
    MaxParts,                                       \* RuleExpr
    Language, RegexState, Start, MaxLabel, MaxTotal \* Reachability

VARIABLES
    part,       \* which of the three is explored
    parts, mode, pos, settling, shortCircuit, ops, values, result,
    language, delta, accepting, queue, seen, verdict

rulesVars == <<parts, mode, pos, settling, shortCircuit, ops, values, result>>
reachVars == <<language, delta, accepting, queue, seen, verdict>>

Rules == INSTANCE RuleExpr
Reach == INSTANCE Reachability

\* The pattern's automaton starts in a state that is not the dead one.
ASSUME AccessAssumption ==
    /\ Language \subseteq {"name", "path", "query", "token", "value"}
    /\ Start \in RegexState /\ Reach!Dead \notin RegexState
    /\ MaxLabel \in Nat /\ MaxTotal \in Nat

-----------------------------------------------------------------------------
\* Patterns of one kind that match the same path; one expression for everyone
\* and one that needs a client name.
MCKind == [p \in Pattern |-> 3]
MCCovers == [p \in Pattern |-> {file}]
MCQuery == {<<file, alice>>}
MCValue == [e \in Expr |-> [r \in Request |->
                IF e = all \/ r = alice THEN "T" ELSE IF r = anonymous THEN "E" ELSE "F"]]

MCSymmetry == Permutations(Pattern)

-----------------------------------------------------------------------------
RulesIdle ==
    /\ parts = <<>> /\ mode = "idle" /\ result = "none"
    /\ Rules!NewVM

ReachIdle ==
    /\ language = "idle" /\ verdict = "idle"
    /\ delta = <<>> /\ accepting = {} /\ queue = <<>> /\ seen = {}

MCInit ==
    \/ part = "store" /\ Init /\ RulesIdle /\ ReachIdle
    \/ part = "rules" /\ Rules!Init /\ Init /\ indexed /\ ReachIdle
    \/ part = "reach" /\ Reach!Init /\ Init /\ indexed /\ RulesIdle

MCNext ==
    /\ \/ part = "store" /\ Next /\ UNCHANGED <<rulesVars, reachVars>>
       \/ part = "rules" /\ Rules!Next /\ UNCHANGED <<vars, reachVars>>
       \/ part = "reach" /\ Reach!Next /\ UNCHANGED <<vars, rulesVars>>
    /\ UNCHANGED part

MCSpec == MCInit /\ [][MCNext]_<<part, vars, rulesVars, reachVars>>

-----------------------------------------------------------------------------
\* The properties of RuleExpr and Reachability.

\* No rule that validate_arity let into the store fails in try_run.
StoredRulesRun == Rules!AcceptedRulesRun

\* validate_arity refuses no rule that was written properly, and try_run gives a rule
\* without nested right operands its meaning.
WrittenRulesDecide == Rules!WrittenRulesLoad /\ Rules!SimpleRulesDecide

\* validate_reachable refuses exactly the patterns that can match nothing.
VerdictIsRight == Reach!VerdictIsRight

=============================================================================
