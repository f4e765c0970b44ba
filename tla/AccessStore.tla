---------------------------- MODULE AccessStore ----------------------------
(***************************************************************************)
(* The rule store of one identity (access/src/db): the location service's  *)
(* transactions, the migration that makes rules unique, and the two ways   *)
(* of deciding a request: the live evaluator of db/evaluator.rs, which     *)
(* reads locations and rules in two separate queries, and the in-memory    *)
(* matcher of matcher.rs, built from list_all_rules.                       *)
(*                                                                         *)
(* A pattern is a name with a kind (its priority) and the paths it         *)
(* matches.  An expression is a name with its value for each request.      *)
(* Every operation of the service is one SQLite transaction, so one step;  *)
(* an operation that returns an error has changed nothing and is left out. *)
(***************************************************************************)
EXTENDS Naturals, FiniteSets

CONSTANTS
    Pattern, Path, Expr, Request,
    Kind,           \* [Pattern -> Nat], smaller is tried first
    Covers,         \* [Pattern -> SUBSET Path]
    Value,          \* [Expr -> [Request -> {"T", "F", "E"}]]
    Query,          \* the paths and requests that are evaluated concurrently
    MaxLocations, MaxRules, MaxTime         \* bounds

ASSUME AccessStoreAssumption ==
    /\ Kind \in [Pattern -> Nat]
    /\ Covers \in [Pattern -> SUBSET Path]
    /\ Value \in [Expr -> [Request -> {"T", "F", "E"}]]
    /\ Query \subseteq Path \X Request
    /\ MaxLocations \in Nat /\ MaxRules \in Nat /\ MaxTime \in Nat

Action == {"allow", "deny"}

VARIABLES
    locations,      \* location_rule_sets
    rules,          \* location_rules
    nextLocation, nextRule,         \* autoincrement keys
    indexed,        \* the unique index of the second migration exists
    migrating,      \* between the two statements of that migration
    eval,           \* an evaluation in flight
    latest          \* history: the rule of the last write, if it was an append
                    \* stamped later than every rule there was

vars == <<locations, rules, nextLocation, nextRule, indexed, migrating,
          eval, latest>>

store == <<locations, rules, nextLocation, nextRule>>

Location == [id : 1 .. MaxLocations, pattern : Pattern, created : 1 .. MaxTime]
Rule == [id : 1 .. MaxRules, location : 1 .. MaxLocations,
         action : Action, expr : Expr, created : 1 .. MaxTime]

None == [id |-> 0]

\* The location and the answer of LocationRuleResult.
NoRuleSet == [location |-> 0, answer |-> "no_set"]
Decision == [location : 0 .. MaxLocations,
             answer : Action \cup {"no_rule", "no_set"}]

\* History of an evaluation: the commits since it began, at most one, and the
\* answers of the store before and after it.
Idle == [step |-> "idle"]
Evaluation ==
    {Idle} \cup
    [step : {"located"}, location : 1 .. MaxLocations, path : Path,
     request : Request, possible : SUBSET Decision, commits : 0 .. 1] \cup
    [step : {"done"}, decision : Decision, possible : SUBSET Decision]

-----------------------------------------------------------------------------
\* Logical rules.

\* same_logical_rule, for rules of one location
SameLogicalRule(r, s) ==
    r.location = s.location /\ r.action = s.action /\ r.expr = s.expr

Unique(R) == \A r, s \in R : SameLogicalRule(r, s) => r = s

Newer(r, s) == r.created > s.created \/ (r.created = s.created /\ r.id > s.id)

Newest(R) == CHOOSE r \in R : \A s \in R \ {r} : Newer(r, s)
Oldest(R) == CHOOSE r \in R : \A s \in R \ {r} : Newer(s, r)

Of(R, id) == {r \in R : r.location = id}

\* Types and references; a rule never outlives its location.
TypeOK ==
    /\ locations \subseteq Location
    /\ \A l, k \in locations : l.id = k.id \/ l.pattern = k.pattern => l = k
    /\ rules \subseteq Rule
    /\ \A r, s \in rules : r.id = s.id => r = s
    /\ \A r \in rules : \E l \in locations : l.id = r.location
    /\ nextLocation \in 1 .. MaxLocations + 1
    /\ nextRule \in 1 .. MaxRules + 1
    /\ indexed \in BOOLEAN /\ migrating \in BOOLEAN
    /\ indexed => Unique(rules)
    /\ eval \in Evaluation
    /\ latest \in Rule \cup {None}

\* A store made by init_access_database has the index; one made by a release
\* before the second migration, opened by open_existing_access_database, not.
Init ==
    /\ locations = {} /\ rules = {}
    /\ nextLocation = 1 /\ nextRule = 1
    /\ indexed \in BOOLEAN /\ migrating = FALSE
    /\ eval = Idle
    /\ latest = None

-----------------------------------------------------------------------------
\* Deciding a request.

\* PatternWithTime::cmp.  Two patterns that compare as equal are not equal, since the
\* derived PartialEq looks at the text as well: collecting into the BTreeMap keeps both,
\* in the order of the rows.
Before(l, k) ==
    \/ Kind[l.pattern] < Kind[k.pattern]
    \/ /\ Kind[l.pattern] = Kind[k.pattern]
       /\ \/ l.created > k.created
          \/ l.created = k.created /\ l.id < k.id

Matching(L, path) == {l \in L : path \in Covers[l.pattern]}

First(L) == CHOOSE l \in L : \A k \in L \ {l} : Before(l, k)

\* Rule::eval on the rules of a location, newest first; a missing client name
\* denies.
Answer(R, request) ==
    LET matched == {r \in R : Value[r.expr][request] # "F"}
        first == Newest(matched)
    IN  IF matched = {} THEN "no_rule"
        ELSE IF Value[first.expr][request] = "E" THEN "deny"
        ELSE first.action

Decide(L, R, path, request) ==
    IF Matching(L, path) = {} THEN NoRuleSet
    ELSE LET id == First(Matching(L, path)).id
         IN  [location |-> id, answer |-> Answer(Of(R, id), request)]

\* Mutant: rules with one condition and different actions count as duplicates.
DeduplicatedByExpr(R) ==
    {r \in R : \A s \in R : r.location = s.location /\ r.expr = s.expr => r.id <= s.id}

\* deduplicate_rules on load_many's rows, which come in the order of their ids
Deduplicated(R) ==
    {r \in R : \A s \in R : SameLogicalRule(r, s) => r.id <= s.id}

\* LocationRulesMatcher::from(list_all_rules)
MemoryDecide(L, R, path, request) == Decide(L, Deduplicated(R), path, request)

-----------------------------------------------------------------------------
\* The evaluator: one query for the locations, one for the rules.

EvaluateLocations(path, request) ==
    LET before == Decide(locations, rules, path, request)
        matching == Matching(locations, path)
    IN  /\ eval.step # "located"
        /\ eval' = IF matching = {}
                   THEN [step |-> "done", decision |-> NoRuleSet,
                         possible |-> {before}]
                   ELSE [step |-> "located", location |-> First(matching).id,
                         path |-> path, request |-> request,
                         possible |-> {before}, commits |-> 0]
        /\ UNCHANGED <<store, indexed, migrating, latest>>

\* Mutant: the rules of every location are read.
EvaluateAllRules ==
    /\ eval.step = "located"
    /\ eval' = [step |-> "done", possible |-> eval.possible,
                decision |-> [location |-> eval.location,
                              answer |-> Answer(rules, eval.request)]]
    /\ UNCHANGED <<store, indexed, migrating, latest>>

EvaluateRules ==
    /\ eval.step = "located"
    /\ eval' = [step |-> "done", possible |-> eval.possible,
                decision |-> [location |-> eval.location,
                              answer |-> Answer(Of(rules, eval.location),
                                                eval.request)]]
    /\ UNCHANGED <<store, indexed, migrating, latest>>

\* Both queries' failures: LocationRuleDecisionError::backend.
EvaluateFails ==
    /\ eval.step = "located"
    /\ eval' = Idle
    /\ UNCHANGED <<store, indexed, migrating, latest>>

-----------------------------------------------------------------------------
\* The location service.

\* A transaction commits; an evaluation in flight may now see the new store.
\* After a second commit it is not followed any further.
Commit(L, R) ==
    /\ locations' = L
    /\ rules' = R
    /\ eval' = IF eval.step = "located" /\ eval.commits = 0
               THEN [eval EXCEPT !.commits = 1,
                                 !.possible = @ \cup {Decide(L, R, eval.path, eval.request)}]
               ELSE Idle

\* chrono::Utc::now(): the wall clock may stand or step back.
Clock == 1 .. MaxTime

Remember(rule) == IF \A r \in rules : r.created < rule.created THEN rule ELSE None

\* match_location_internal, strict
At(pattern) == {l \in locations : l.pattern = pattern}

\* append_rule_internal: the location is created when missing; a rule with the
\* same meaning is refreshed, the oldest of several.

\* Mutant: the rule that is there already keeps its place.
AppendKeepsPlace(pattern, action, expr) ==
    \E t \in Clock, l \in At(pattern) :
       LET same == {r \in Of(rules, l.id) : r.action = action /\ r.expr = expr}
       IN  /\ same # {}
           /\ Commit(locations, rules)
           /\ latest' = Remember([Oldest(same) EXCEPT !.created = t])
           /\ UNCHANGED <<nextLocation, nextRule, indexed, migrating>>

AppendExisting(pattern, action, expr) ==
    \E t \in Clock, l \in At(pattern) :
       LET same == {r \in Of(rules, l.id) : r.action = action /\ r.expr = expr}
           refreshed == [Oldest(same) EXCEPT !.created = t]
       IN  /\ same # {}
           /\ Commit(locations, (rules \ {Oldest(same)}) \cup {refreshed})
           /\ latest' = Remember(refreshed)
           /\ UNCHANGED <<nextLocation, nextRule, indexed, migrating>>

AppendNew(pattern, action, expr) ==
    \E t \in Clock, l \in At(pattern) :
       LET new == [id |-> nextRule, location |-> l.id, action |-> action,
                   expr |-> expr, created |-> t]
       IN  /\ ~ \E r \in rules : SameLogicalRule(r, new)
           /\ nextRule <= MaxRules
           /\ Commit(locations, rules \cup {new})
           /\ nextRule' = nextRule + 1
           /\ latest' = Remember(new)
           /\ UNCHANGED <<nextLocation, indexed, migrating>>

AppendFirst(pattern, action, expr) ==
    \E t \in Clock :
       LET location == [id |-> nextLocation, pattern |-> pattern, created |-> t]
           new == [id |-> nextRule, location |-> nextLocation, action |-> action,
                   expr |-> expr, created |-> t]
       IN  /\ At(pattern) = {}
           /\ nextLocation <= MaxLocations /\ nextRule <= MaxRules
           /\ Commit(locations \cup {location}, rules \cup {new})
           /\ nextLocation' = nextLocation + 1
           /\ nextRule' = nextRule + 1
           /\ latest' = Remember(new)
           /\ UNCHANGED <<indexed, migrating>>

\* replace_rule_by_id keeps created_at.  The unique index, where there is one,
\* refuses a rule that the location has already.
ReplaceRuleById(id, action, expr) ==
    /\ \E r \in rules :
          LET new == [r EXCEPT !.action = action, !.expr = expr]
          IN  /\ r.id = id
              /\ indexed => ~ \E s \in rules \ {r} : SameLogicalRule(s, new)
              /\ Commit(locations, (rules \ {r}) \cup {new})
    /\ latest' = None
    /\ UNCHANGED <<nextLocation, nextRule, indexed, migrating>>

\* The foreign key deletes the rules as well.
RemoveRuleSet(pattern) ==
    /\ \E l \in At(pattern) : Commit(locations \ {l}, rules \ Of(rules, l.id))
    /\ latest' = None
    /\ UNCHANGED <<nextLocation, nextRule, indexed, migrating>>

\* list_rules_by_pattern shows each logical rule once, the oldest of several.
Listed(id) ==
    {r \in Of(rules, id) : \A s \in rules : SameLogicalRule(r, s) /\ s # r => Newer(s, r)}

\* Every row that means the same as a selected one is deleted.
RemoveLogical(selected) ==
    /\ selected # {}
    /\ Commit(locations, {r \in rules : ~ \E s \in selected : SameLogicalRule(r, s)})
    /\ latest' = None
    /\ UNCHANGED <<nextLocation, nextRule, indexed, migrating>>

\* remove_rules selects by the numbers of the listing.
RemoveRules(pattern) ==
    \E l \in At(pattern) : \E selected \in SUBSET Listed(l.id) : RemoveLogical(selected)

\* remove_rules_by_ids accepts any rows of the location.
RemoveRulesByIds(pattern) ==
    \E l \in At(pattern) : \E selected \in SUBSET Of(rules, l.id) : RemoveLogical(selected)

-----------------------------------------------------------------------------
\* The second migration: two statements, no transaction around them.

\* Mutant: the row that was inserted first is kept.
MigrateKeepsFirst ==
    /\ ~indexed /\ ~migrating
    /\ migrating' = TRUE
    /\ Commit(locations, Deduplicated(rules))
    /\ UNCHANGED <<nextLocation, nextRule, indexed, latest>>

MigrateDelete ==
    /\ ~indexed /\ ~migrating
    /\ migrating' = TRUE
    /\ Commit(locations,
              {r \in rules : ~ \E s \in rules : SameLogicalRule(r, s) /\ Newer(s, r)})
    /\ UNCHANGED <<nextLocation, nextRule, indexed, latest>>

MigrateIndex ==
    /\ migrating
    /\ Unique(rules)
    /\ indexed' = TRUE
    /\ migrating' = FALSE
    /\ UNCHANGED <<store, eval, latest>>

\* CREATE UNIQUE INDEX fails on duplicates made meanwhile, or the process stops.
MigrateStops ==
    /\ migrating
    /\ migrating' = FALSE
    /\ UNCHANGED <<store, indexed, eval, latest>>

-----------------------------------------------------------------------------
Next ==
    \/ \E query \in Query : EvaluateLocations(query[1], query[2])
    \/ EvaluateRules
    \/ EvaluateFails
    \/ \E pattern \in Pattern :
          \/ \E action \in Action, expr \in Expr :
                \/ AppendExisting(pattern, action, expr)
                \/ AppendNew(pattern, action, expr)
                \/ AppendFirst(pattern, action, expr)
          \/ RemoveRuleSet(pattern)
          \/ RemoveRules(pattern)
          \/ RemoveRulesByIds(pattern)
    \/ \E id \in 1 .. MaxRules, action \in Action, expr \in Expr :
          ReplaceRuleById(id, action, expr)
    \/ MigrateDelete
    \/ MigrateIndex
    \/ MigrateStops

Spec == Init /\ [][Next]_vars

-----------------------------------------------------------------------------
\* Properties.

\* In a migrated store the matcher built from list_all_rules and the live
\* evaluator give every request the same answer from the same location
\* (access/tests/unit/evaluator.rs), whatever the wall clock did.
MemoryAgrees ==
    indexed =>
       \A path \in Path, request \in Request :
          MemoryDecide(locations, rules, path, request)
            = Decide(locations, rules, path, request)

\* "Rule evaluation is newest-first, so preserve the effective rule when
\* collapsing duplicates": no step of the migration changes an answer.
MigrationPreserves ==
    [][migrating' # migrating =>
         \A path \in Path, request \in Request :
            Decide(locations', rules', path, request)
              = Decide(locations, rules, path, request)]_vars

\* A rule that was appended last, at a time later than all others, decides every
\* request that reaches its location and for which it holds or lacks a client
\* name, whether it was new or known and whatever duplicates the store has.
LatestAppendDecides ==
    latest # None =>
       \A path \in Path, request \in Request :
          LET decision == Decide(locations, rules, path, request)
              value == Value[latest.expr][request]
          IN  (decision.location = latest.location /\ value # "F") =>
                 decision.answer = IF value = "E" THEN "deny" ELSE latest.action

\* An evaluation that overlaps at most one commit never allows a request that
\* the store allows neither before nor after that commit, although locations
\* and rules are read by two queries.
AllowWasPossible ==
    (eval.step = "done" /\ eval.decision.answer = "allow") =>
       eval.decision \in eval.possible

=============================================================================
