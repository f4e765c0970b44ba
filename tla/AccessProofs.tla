---------------------------- MODULE AccessProofs ----------------------------
(***************************************************************************)
(* The access crate.  The rule store for any patterns, expressions,        *)
(* requests and bounds: the two ways to decide a request agree, the        *)
(* migration changes no answer, the latest append decides, and an          *)
(* evaluation between two queries never allows what the store did not.     *)
(* Conditions of any length: one that was accepted runs; one that was      *)
(* written properly is accepted, and decides what it reads if no right     *)
(* operand nests a binary operator.  Patterns of any size: one is refused  *)
(* exactly if it can match nothing.                                        *)
(***************************************************************************)
EXTENDS MCAccess, Integers, Sequences, TLAPS, WellFoundedInduction

-----------------------------------------------------------------------------
\* The orders of rules and locations.

\* A set of numbers has a least one.
LEMMA LeastNat ==
  ASSUME NEW S, S \subseteq Nat, S # {}
  PROVE  \E n \in S : \A m \in S : n <= m
<1> DEFINE Less == {pair \in Nat \X Nat : pair[1] < pair[2]}
<1>1. IsWellFoundedOn(Less, Nat)
  BY NatLessThanWellFounded, Zenon DEF OpToRel
<1>2. PICK n \in S : \A m \in S : <<m, n>> \notin Less
  <2> HIDE DEF Less
  <2> QED
    BY <1>1, WFMin
<1>3. ASSUME NEW m \in S PROVE n <= m
  <2>1. m < n => <<m, n>> \in Less
    OBVIOUS
  <2> QED
    BY <1>2, <2>1
<1> QED
  BY <1>3

\* Keys are unique, as the autoincrement of the tables makes them.
Keyed(R) == \A r, s \in R : r.id = s.id => r = s

\* Counting down from m turns the order round.
LEMMA Opposite ==
  ASSUME NEW m \in Nat, NEW x \in Nat, NEW y \in Nat
  PROVE  /\ m - x = m - y => x = y
         /\ m - x <= m - y /\ y # x => x > y
OBVIOUS

\* There is a newest rule of several.
LEMMA NewestIs ==
  ASSUME NEW R, R \subseteq Rule, R # {}, Keyed(R)
  PROVE  Newest(R) \in R /\ \A s \in R \ {Newest(R)} : Newer(Newest(R), s)
<1> USE AccessStoreAssumption DEF Rule
<1> DEFINE Age == {MaxTime - r.created : r \in R}
<1>1. Age \subseteq Nat /\ Age # {}
  OBVIOUS
<1>2. PICK a \in Age : \A b \in Age : a <= b
  BY <1>1, LeastNat
<1> DEFINE Last == {r \in R : MaxTime - r.created = a}
           Rank == {MaxRules - r.id : r \in Last}
<1>3. Rank \subseteq Nat /\ Rank # {}
  OBVIOUS
<1>4. PICK n \in Rank : \A m \in Rank : n <= m
  BY <1>3, LeastNat
<1>5. PICK r \in Last : MaxRules - r.id = n
  OBVIOUS
<1>6. ASSUME NEW s \in R \ {r} PROVE Newer(r, s)
  <2>1. a <= MaxTime - s.created
    BY <1>2
  <2>2. CASE s \in Last
    <3>1. n <= MaxRules - s.id
      BY <1>4, <2>2
    <3>2. s.id # r.id
      <4>1. r \in R /\ s \in R /\ s # r
        OBVIOUS
      <4> QED
        BY <4>1, Zenon DEF Keyed
    <3>3. /\ r.id \in Nat /\ s.id \in Nat /\ r.created \in Nat /\ s.created \in Nat
          /\ MaxRules \in Nat /\ MaxTime \in Nat
      OBVIOUS
    <3>4. MaxTime - s.created = MaxTime - r.created /\ MaxRules - r.id <= MaxRules - s.id
      BY <1>5, <2>2, <3>1
    <3>5. s.created = r.created /\ r.id > s.id
      BY <3>2, <3>3, <3>4, Opposite, Zenon
    <3> QED
      BY <3>5, Zenon DEF Newer
  <2>3. CASE s \notin Last
    <3>1. r.created \in Nat /\ s.created \in Nat /\ MaxTime \in Nat
      OBVIOUS
    <3>2. MaxTime - r.created <= MaxTime - s.created /\ s.created # r.created
      BY <1>5, <2>1, <2>3
    <3>3. r.created > s.created
      BY <3>1, <3>2, Opposite, Zenon
    <3> QED
      BY <3>3, Zenon DEF Newer
  <2> QED
    BY <2>2, <2>3
<1>7. \E x \in R : \A s \in R \ {x} : Newer(x, s)
  BY <1>5, <1>6
<1> QED
  BY <1>7 DEF Newest

\* ... and only one.
LEMMA NewestOnly ==
  ASSUME NEW R, R \subseteq Rule, NEW n \in R, \A s \in R \ {n} : Newer(n, s)
  PROVE  Newest(R) = n
<1>1. Newest(R) \in R /\ \A s \in R \ {Newest(R)} : Newer(Newest(R), s)
  BY DEF Newest
<1> QED
  BY <1>1 DEF Newer, Rule

\* There is an oldest rule of several, as append_rule_internal takes it.
LEMMA OldestIs ==
  ASSUME NEW R, R \subseteq Rule, R # {}, Keyed(R)
  PROVE  Oldest(R) \in R
<1>0. \A r \in R : r.id \in Nat /\ r.created \in Nat
  BY AccessStoreAssumption DEF Rule
<1> DEFINE Time == {r.created : r \in R}
<1>1. Time \subseteq Nat /\ Time # {}
  BY <1>0
<1>2. PICK a \in Time : \A b \in Time : a <= b
  BY <1>1, LeastNat
<1> DEFINE Early == {r \in R : r.created = a}
           Key == {r.id : r \in Early}
<1>3. Key \subseteq Nat /\ Key # {}
  BY <1>0
<1>4. PICK n \in Key : \A m \in Key : n <= m
  BY <1>3, LeastNat
<1>5. PICK r \in Early : r.id = n
  OBVIOUS
<1>6. ASSUME NEW s \in R \ {r} PROVE Newer(s, r)
  <2>1. a <= s.created
    BY <1>2
  <2>2. CASE s \in Early
    <3>1. n <= s.id
      BY <1>4, <2>2
    <3>2. s.id # r.id
      BY DEF Keyed
    <3>3. s.id \in Nat /\ r.id \in Nat /\ n = r.id /\ s.created = r.created
      BY <1>0, <1>5, <2>2
    <3>4. s.id > r.id
      BY <3>1, <3>2, <3>3
    <3> QED
      BY <3>3, <3>4 DEF Newer
  <2>3. CASE s \notin Early
    <3>1. s.created \in Nat /\ r.created \in Nat /\ r.created = a /\ s.created # a
      BY <1>0, <1>5, <2>3
    <3>2. s.created > r.created
      BY <2>1, <3>1
    <3> QED
      BY <3>2 DEF Newer
  <2> QED
    BY <2>2, <2>3
<1>7. \E x \in R : \A s \in R \ {x} : Newer(s, x)
  BY <1>5, <1>6
<1> QED
  BY <1>7 DEF Oldest

\* The locations of the map are in a total order, so one of them is first.
LEMMA FirstIs ==
  ASSUME NEW L, L \subseteq Location, Keyed(L), NEW path,
         Matching(L, path) # {}
  PROVE  First(Matching(L, path)) \in Matching(L, path)
<1>1. \A l \in L : /\ l.id \in Nat /\ l.created \in Nat /\ Kind[l.pattern] \in Nat
                   /\ MaxTime - l.created \in Nat
  BY AccessStoreAssumption DEF Location
<1> DEFINE M == Matching(L, path)
           Kinds == {Kind[l.pattern] : l \in M}
<1>2. M \subseteq L /\ M # {}
  BY DEF Matching
<1> HIDE DEF M
<1>3. Kinds \subseteq Nat /\ Kinds # {}
  BY <1>1, <1>2
<1>4. PICK a \in Kinds : \A b \in Kinds : a <= b
  BY <1>3, LeastNat
<1> DEFINE Low == {l \in M : Kind[l.pattern] = a}
           Age == {MaxTime - l.created : l \in Low}
<1>5. Age \subseteq Nat /\ Age # {}
  BY <1>1, <1>2
<1>6. PICK n \in Age : \A m \in Age : n <= m
  BY <1>5, LeastNat
<1> DEFINE Young == {l \in Low : MaxTime - l.created = n}
           Ids == {l.id : l \in Young}
<1>7. Ids \subseteq Nat /\ Ids # {}
  BY <1>1, <1>2
<1>8. PICK i \in Ids : \A j \in Ids : i <= j
  BY <1>7, LeastNat
<1>9. PICK l \in Young : l.id = i
  OBVIOUS
<1>10. ASSUME NEW k \in M \ {l} PROVE Before(l, k)
  <2>1. /\ Kind[l.pattern] = a /\ a \in Nat /\ Kind[k.pattern] \in Nat
        /\ a <= Kind[k.pattern]
    BY <1>1, <1>2, <1>3, <1>4
  <2>2. /\ MaxTime - l.created = n /\ l.created \in Nat /\ k.created \in Nat
        /\ Kind[k.pattern] = a => n <= MaxTime - k.created
    BY <1>1, <1>2, <1>6
  <2>3. /\ l.id = i /\ l.id \in Nat /\ k.id \in Nat /\ k.id # l.id
        /\ Kind[k.pattern] = a /\ MaxTime - k.created = n => i <= k.id
    BY <1>1, <1>2, <1>8, <1>9 DEF Keyed
  <2>4. CASE Kind[k.pattern] # a
    BY <2>1, <2>4 DEF Before
  <2>5. CASE Kind[k.pattern] = a /\ MaxTime - k.created # n
    <3>1. /\ n \in Int /\ n < MaxTime - k.created
          /\ MaxTime \in Int /\ l.created \in Int /\ k.created \in Int
      BY <2>2, <2>5, AccessStoreAssumption
    <3>2. l.created > k.created
      BY <2>2, <3>1
    <3> QED
      BY <2>1, <2>5, <3>2, Zenon DEF Before
  <2>6. CASE Kind[k.pattern] = a /\ MaxTime - k.created = n
    <3>1. l.created = k.created
      BY <2>2, <2>6, AccessStoreAssumption
    <3>2. l.id < k.id
      BY <2>3, <2>6
    <3> QED
      BY <2>1, <2>6, <3>1, <3>2, Zenon DEF Before
  <2> QED
    BY <2>4, <2>5, <2>6
<1>11. \E x \in M : \A k \in M \ {x} : Before(x, k)
  BY <1>9, <1>10
<1> QED
  BY <1>11 DEF First, M

\* An answer of rules with unique keys.
LEMMA AnswerType ==
  ASSUME NEW R, R \subseteq Rule, Keyed(R), NEW Q, Q \subseteq R, NEW request
  PROVE  Answer(Q, request) \in Action \cup {"no_rule"}
<1> DEFINE matched == {r \in Q : Value[r.expr][request] # "F"}
<1>1. Answer(Q, request)
        = IF matched = {} THEN "no_rule"
          ELSE IF Value[Newest(matched).expr][request] = "E" THEN "deny"
          ELSE Newest(matched).action
  BY Zenon DEF Answer
<1>2. matched \subseteq Rule /\ Keyed(matched)
  BY DEF Keyed
<1> HIDE DEF matched
<1>3. matched # {} => Newest(matched) \in Rule
  BY <1>2, NewestIs
<1> QED
  BY <1>1, <1>3 DEF Action, Rule

\* The parts of a decision.
LEMMA DecideType ==
  ASSUME NEW L, L \subseteq Location, Keyed(L),
         NEW R, R \subseteq Rule, Keyed(R), NEW path, NEW request
  PROVE  Decide(L, R, path, request) \in Decision
<1> USE AccessStoreAssumption
<1>2. Answer(Of(R, First(Matching(L, path)).id), request) \in Action \cup {"no_rule"}
  BY AnswerType DEF Of
<1>3. CASE Matching(L, path) = {}
  BY <1>3 DEF Decide, NoRuleSet, Decision
<1>4. CASE Matching(L, path) # {}
  <2>1. First(Matching(L, path)).id \in 0 .. MaxLocations
    <3>1. First(Matching(L, path)) \in L
      BY <1>4, FirstIs DEF Matching
    <3>2. \A l \in L : l.id \in 0 .. MaxLocations
      BY DEF Location
    <3> QED
      BY <3>1, <3>2
  <2> QED
    BY <1>2, <1>4, <2>1 DEF Decide, Decision
<1> QED
  BY <1>3, <1>4

\* Without the rules that a newer one repeats the answer is the same.
LEMMA CollapseKeepsAnswer ==
  ASSUME NEW R, R \subseteq Rule, Keyed(R), NEW id, NEW request
  PROVE  Answer(Of({r \in R : ~ \E s \in R : SameLogicalRule(r, s) /\ Newer(s, r)}, id),
                request)
           = Answer(Of(R, id), request)
<1> DEFINE Kept == {r \in R : ~ \E s \in R : SameLogicalRule(r, s) /\ Newer(s, r)}
           every == {r \in Of(R, id) : Value[r.expr][request] # "F"}
           some == {r \in Of(Kept, id) : Value[r.expr][request] # "F"}
<1>1. some \subseteq every
  BY DEF Of
<1>2. CASE every = {}
  BY <1>1, <1>2 DEF Answer
<1>3. CASE every # {}
  <2>1. every \subseteq Rule /\ Keyed(every)
    BY DEF Of, Keyed
  <2>2. Newest(every) \in every /\ \A s \in every \ {Newest(every)} : Newer(Newest(every), s)
    <3> HIDE DEF every
    <3> QED
      BY <1>3, <2>1, NewestIs
  <2> DEFINE new == Newest(every)
  <2> HIDE DEF new
  <2>3. new \in every /\ \A s \in every \ {new} : Newer(new, s)
    BY <2>2 DEF new
  <2>4. ASSUME NEW s \in R, SameLogicalRule(new, s), Newer(s, new) PROVE FALSE
    <3>1. s \in every
      BY <2>3, <2>4 DEF SameLogicalRule, Of
    <3>2. s = new \/ Newer(new, s)
      BY <2>3, <3>1
    <3> QED
      BY <2>1, <2>3, <2>4, <3>1, <3>2 DEF Newer, Rule
  <2>5. new \in some
    BY <2>3, <2>4 DEF Of
  <2>6. Newest(some) = new
    <3>1. some \subseteq Rule /\ \A s \in some \ {new} : Newer(new, s)
      BY <1>1, <2>1, <2>3
    <3> HIDE DEF some
    <3> QED
      BY <2>5, <3>1, NewestOnly
  <2> QED
    BY <1>3, <2>5, <2>6 DEF Answer, new
<1> QED
  BY <1>2, <1>3

-----------------------------------------------------------------------------
\* The inductive invariant.

\* The tables: keys below the counters, references that hold.
StoreInv ==
    /\ locations \subseteq Location
    /\ \A l, k \in locations : l.id = k.id \/ l.pattern = k.pattern => l = k
    /\ \A l \in locations : l.id < nextLocation
    /\ rules \subseteq Rule
    /\ Keyed(rules)
    /\ \A r \in rules : r.id < nextRule
    /\ \A r \in rules : \E l \in locations : l.id = r.location
    /\ nextLocation \in 1 .. MaxLocations + 1
    /\ nextRule \in 1 .. MaxRules + 1
    /\ indexed => Unique(rules)

\* The remembered rule is in the store, later than all others.
LatestInv ==
    latest # None =>
       /\ latest \in rules
       /\ \A r \in rules \ {latest} : r.created < latest.created

\* What the second query would answer now.
Pending == [location |-> eval.location,
            answer |-> Answer(Of(rules, eval.location), eval.request)]

\* The location of the first query is the store's until a commit; after it the
\* second query answers as the store did or does, or does not allow.
EvalInv ==
    eval.step = "located" =>
       /\ eval.commits = 0 =>
             /\ Matching(locations, eval.path) # {}
             /\ eval.location = First(Matching(locations, eval.path)).id
       /\ Pending \in eval.possible \/ (eval.commits = 1 /\ Pending.answer # "allow")

IndInv ==
    /\ StoreInv
    /\ indexed \in BOOLEAN /\ migrating \in BOOLEAN
    /\ eval \in Evaluation /\ EvalInv
    /\ latest \in Rule \cup {None} /\ LatestInv
    /\ AllowWasPossible

-----------------------------------------------------------------------------
\* The tables.

\* One row is replaced by another with the same key and location.
LEMMA ReplaceKeeps ==
  ASSUME StoreInv, NEW r \in rules, NEW new \in Rule,
         new.id = r.id, new.location = r.location,
         locations' = locations, rules' = (rules \ {r}) \cup {new},
         UNCHANGED <<nextLocation, nextRule, indexed>>,
         indexed => \A s \in rules \ {r} : ~SameLogicalRule(s, new)
  PROVE  StoreInv'
<1>1. rules' \subseteq Rule
  BY DEF StoreInv
<1>2. Keyed(rules')
  BY DEF StoreInv, Keyed
<1>3. \A x \in rules' : x.id < nextRule' /\ \E l \in locations' : l.id = x.location
  BY DEF StoreInv
<1>4. indexed' => Unique(rules')
  BY DEF StoreInv, Unique, SameLogicalRule
<1> QED
  BY <1>1, <1>2, <1>3, <1>4 DEF StoreInv

\* Rows are deleted, and with a location all of its rules.
LEMMA DeleteKeeps ==
  ASSUME StoreInv, locations' \subseteq locations, rules' \subseteq rules,
         \A r \in rules' : \E l \in locations' : l.id = r.location,
         UNCHANGED <<nextLocation, nextRule, indexed>>
  PROVE  StoreInv'
<1>1. Keyed(rules') /\ (indexed' => Unique(rules'))
  BY DEF StoreInv, Keyed, Unique
<1> QED
  BY <1>1 DEF StoreInv

\* Every step keeps the keys of the tables and the references between them.
LEMMA StoreStep ==
  ASSUME IndInv, [Next]_vars
  PROVE  StoreInv'
<1> USE AccessStoreAssumption DEF IndInv
<1>1. ASSUME UNCHANGED <<locations, rules, nextLocation, nextRule, indexed>>
      PROVE  StoreInv'
  BY <1>1 DEF StoreInv, Keyed, Unique
<1>2. ASSUME NEW query \in Query, EvaluateLocations(query[1], query[2]) PROVE StoreInv'
  BY <1>1, <1>2 DEF EvaluateLocations, store
<1>3. ASSUME EvaluateRules PROVE StoreInv'
  BY <1>1, <1>3 DEF EvaluateRules, store
<1>4. ASSUME EvaluateFails PROVE StoreInv'
  BY <1>1, <1>4 DEF EvaluateFails, store
<1>5. ASSUME NEW pattern \in Pattern, NEW action \in Action, NEW expr \in Expr,
             AppendExisting(pattern, action, expr)
      PROVE  StoreInv'
  <2>1. PICK t \in Clock, l \in At(pattern) :
           LET same == {r \in Of(rules, l.id) : r.action = action /\ r.expr = expr}
               refreshed == [Oldest(same) EXCEPT !.created = t]
           IN  /\ same # {}
               /\ Commit(locations, (rules \ {Oldest(same)}) \cup {refreshed})
               /\ UNCHANGED <<nextLocation, nextRule, indexed, migrating>>
    BY <1>5 DEF AppendExisting
  <2> DEFINE same == {r \in Of(rules, l.id) : r.action = action /\ r.expr = expr}
             old == Oldest(same)
             new == [old EXCEPT !.created = t]
  <2>2. old \in same
    <3>1. same \subseteq Rule /\ Keyed(same) /\ same # {}
      BY <2>1 DEF StoreInv, Keyed, Of
    <3> HIDE DEF same
    <3> QED
      BY <3>1, OldestIs
  <2>3. old \in rules
    BY <2>2 DEF Of
  <2>4. new \in Rule /\ new.id = old.id /\ new.location = old.location
          /\ new.action = old.action /\ new.expr = old.expr
    BY <2>3 DEF StoreInv, Rule, Clock
  <2>5. locations' = locations /\ rules' = (rules \ {old}) \cup {new}
          /\ UNCHANGED <<nextLocation, nextRule, indexed>>
    BY <2>1 DEF Commit
  <2> HIDE DEF old, new
  <2>6. indexed => \A s \in rules \ {old} : ~SameLogicalRule(s, new)
    BY <2>3, <2>4 DEF StoreInv, Unique, SameLogicalRule
  <2> QED
    BY <2>3, <2>4, <2>5, <2>6, ReplaceKeeps
<1>6. ASSUME NEW pattern \in Pattern, NEW action \in Action, NEW expr \in Expr,
             AppendNew(pattern, action, expr)
      PROVE  StoreInv'
  <2>1. PICK t \in Clock, l \in At(pattern) :
           LET new == [id |-> nextRule, location |-> l.id, action |-> action,
                       expr |-> expr, created |-> t]
           IN  /\ ~ \E r \in rules : SameLogicalRule(r, new)
               /\ nextRule <= MaxRules
               /\ Commit(locations, rules \cup {new})
               /\ nextRule' = nextRule + 1
               /\ UNCHANGED <<nextLocation, indexed, migrating>>
    BY <1>6 DEF AppendNew
  <2> DEFINE new == [id |-> nextRule, location |-> l.id, action |-> action,
                     expr |-> expr, created |-> t]
  <2>2. /\ new \in Rule /\ new.id = nextRule /\ new.location = l.id
        /\ ~ \E r \in rules : SameLogicalRule(r, new)
    BY <2>1 DEF StoreInv, Rule, Clock, At, Location
  <2>3. /\ locations' = locations /\ rules' = rules \cup {new}
        /\ nextRule' = nextRule + 1 /\ nextRule <= MaxRules
        /\ UNCHANGED <<nextLocation, indexed>>
    BY <2>1 DEF Commit
  <2> HIDE DEF new
  <2>4. Keyed(rules')
    BY <2>2, <2>3 DEF StoreInv, Keyed, Rule
  <2>5. \A x \in rules' : x.id < nextRule'
    BY <2>2, <2>3 DEF StoreInv, Rule
  <2>6. \A x \in rules' : \E k \in locations' : k.id = x.location
    BY <2>2, <2>3 DEF StoreInv, At
  <2>7. indexed' => Unique(rules')
    BY <2>2, <2>3 DEF StoreInv, Unique, SameLogicalRule
  <2>8. rules' \subseteq Rule /\ nextRule' \in 1 .. MaxRules + 1
    BY <2>2, <2>3 DEF StoreInv
  <2> QED
    BY <2>3, <2>4, <2>5, <2>6, <2>7, <2>8 DEF StoreInv
<1>7. ASSUME NEW pattern \in Pattern, NEW action \in Action, NEW expr \in Expr,
             AppendFirst(pattern, action, expr)
      PROVE  StoreInv'
  <2>1. PICK t \in Clock :
           LET location == [id |-> nextLocation, pattern |-> pattern, created |-> t]
               new == [id |-> nextRule, location |-> nextLocation,
                       action |-> action, expr |-> expr, created |-> t]
           IN  /\ At(pattern) = {}
               /\ nextLocation <= MaxLocations /\ nextRule <= MaxRules
               /\ Commit(locations \cup {location}, rules \cup {new})
               /\ nextLocation' = nextLocation + 1
               /\ nextRule' = nextRule + 1
               /\ UNCHANGED <<indexed, migrating>>
    BY <1>7 DEF AppendFirst
  <2> DEFINE location == [id |-> nextLocation, pattern |-> pattern, created |-> t]
             new == [id |-> nextRule, location |-> nextLocation,
                     action |-> action, expr |-> expr, created |-> t]
  <2>2. /\ location \in Location /\ location.id = nextLocation
        /\ location.pattern = pattern
        /\ new \in Rule /\ new.id = nextRule /\ new.location = nextLocation
    BY <2>1 DEF StoreInv, Rule, Clock, Location
  <2>3. /\ locations' = locations \cup {location} /\ rules' = rules \cup {new}
        /\ nextRule' = nextRule + 1 /\ nextRule <= MaxRules
        /\ nextLocation' = nextLocation + 1 /\ nextLocation <= MaxLocations
        /\ UNCHANGED indexed /\ At(pattern) = {}
    BY <2>1 DEF Commit
  <2> HIDE DEF new, location
  <2>4. Keyed(rules')
    BY <2>2, <2>3 DEF StoreInv, Keyed, Rule
  <2>5. \A x \in rules' : x.id < nextRule'
    BY <2>2, <2>3 DEF StoreInv, Rule
  <2>6. \A x \in rules' : \E k \in locations' : k.id = x.location
    BY <2>2, <2>3 DEF StoreInv
  <2>7. \A r \in rules : r.location # nextLocation
    BY DEF StoreInv, Location
  <2>8. indexed' => Unique(rules')
    BY <2>2, <2>3, <2>7 DEF StoreInv, Unique, SameLogicalRule
  <2>9. rules' \subseteq Rule /\ nextRule' \in 1 .. MaxRules + 1
          /\ locations' \subseteq Location /\ nextLocation' \in 1 .. MaxLocations + 1
    BY <2>2, <2>3 DEF StoreInv
  <2>10. \A x \in locations' : x.id < nextLocation'
    BY <2>2, <2>3 DEF StoreInv, Location
  <2>11. \A k \in locations : k.id # location.id /\ k.pattern # location.pattern
    BY <2>2, <2>3 DEF StoreInv, Location, At
  <2>12. \A x, k \in locations' : x.id = k.id \/ x.pattern = k.pattern => x = k
    BY <2>3, <2>11 DEF StoreInv
  <2> QED
    BY <2>4, <2>5, <2>6, <2>8, <2>9, <2>10, <2>12 DEF StoreInv
<1>8. ASSUME NEW pattern \in Pattern, RemoveRuleSet(pattern) PROVE StoreInv'
  <2>1. PICK l \in At(pattern) :
           /\ Commit(locations \ {l}, rules \ Of(rules, l.id))
           /\ UNCHANGED <<nextLocation, nextRule, indexed, migrating>>
    BY <1>8 DEF RemoveRuleSet
  <2>2. \A r \in rules' : \E k \in locations' : k.id = r.location
    BY <2>1 DEF StoreInv, Commit, Of, At
  <2> QED
    BY <2>1, <2>2, DeleteKeeps DEF Commit
<1>9. ASSUME NEW selected, RemoveLogical(selected) PROVE StoreInv'
  <2>1. \A r \in rules' : \E k \in locations' : k.id = r.location
    BY <1>9 DEF StoreInv, Commit, RemoveLogical
  <2> QED
    BY <1>9, <2>1, DeleteKeeps DEF Commit, RemoveLogical
<1>10. ASSUME NEW pattern \in Pattern, RemoveRules(pattern) PROVE StoreInv'
  BY <1>9, <1>10 DEF RemoveRules
<1>11. ASSUME NEW pattern \in Pattern, RemoveRulesByIds(pattern) PROVE StoreInv'
  BY <1>9, <1>11 DEF RemoveRulesByIds
<1>12. ASSUME NEW id \in 1 .. MaxRules, NEW action \in Action, NEW expr \in Expr,
              ReplaceRuleById(id, action, expr)
       PROVE  StoreInv'
  <2>1. PICK r \in rules :
           LET new == [r EXCEPT !.action = action, !.expr = expr]
           IN  /\ indexed => ~ \E s \in rules \ {r} : SameLogicalRule(s, new)
               /\ Commit(locations, (rules \ {r}) \cup {new})
    BY <1>12 DEF ReplaceRuleById
  <2> DEFINE new == [r EXCEPT !.action = action, !.expr = expr]
  <2>2. new \in Rule /\ new.id = r.id /\ new.location = r.location
    BY DEF StoreInv, Rule
  <2>3. /\ locations' = locations /\ rules' = (rules \ {r}) \cup {new}
        /\ UNCHANGED <<nextLocation, nextRule, indexed>>
        /\ indexed => \A s \in rules \ {r} : ~SameLogicalRule(s, new)
    BY <1>12, <2>1 DEF Commit, ReplaceRuleById
  <2> HIDE DEF new
  <2> QED
    BY <2>2, <2>3, ReplaceKeeps
<1>13. ASSUME MigrateDelete PROVE StoreInv'
  <2>1. \A r \in rules' : \E k \in locations' : k.id = r.location
    BY <1>13 DEF StoreInv, Commit, MigrateDelete
  <2> QED
    BY <1>13, <2>1, DeleteKeeps DEF Commit, MigrateDelete
<1>14. ASSUME MigrateIndex PROVE StoreInv'
  BY <1>14 DEF StoreInv, MigrateIndex, store, Keyed, Unique
<1>15. ASSUME MigrateStops PROVE StoreInv'
  BY <1>1, <1>15 DEF MigrateStops, store
<1>16. ASSUME UNCHANGED vars PROVE StoreInv'
  BY <1>1, <1>16 DEF vars
<1> QED
  BY <1>2, <1>3, <1>4, <1>5, <1>6, <1>7, <1>8, <1>10, <1>11, <1>12, <1>13, <1>14,
     <1>15, <1>16 DEF Next

-----------------------------------------------------------------------------
\* An evaluation and the commits between its queries.

LocatedType ==
    [step : {"located"}, location : 1 .. MaxLocations, path : Path,
     request : Request, possible : SUBSET Decision, commits : 0 .. 1]

\* Between its two reads an evaluation has the locations it found.
LEMMA Located ==
  ASSUME eval \in Evaluation, eval.step = "located"
  PROVE  eval \in LocatedType
BY DEF Evaluation, Idle, LocatedType

\* A decision over the stored tables is one of the decisions there are.
LEMMA StoreDecides ==
  ASSUME StoreInv, NEW path, NEW request
  PROVE  Decide(locations, rules, path, request) \in Decision
<1>1. Keyed(locations)
  BY DEF StoreInv, Keyed
<1> QED
  BY <1>1, DecideType DEF StoreInv

\* A commit that keeps the locations, or keeps or empties the rules that the
\* evaluation is about to read.
LEMMA CommitEval ==
  ASSUME IndInv, StoreInv', Commit(locations', rules'),
         \/ locations' = locations
         \/ (eval.step = "located" /\ eval.commits = 0) =>
               Of(rules', eval.location) \in {Of(rules, eval.location), {}}
  PROVE  eval' \in Evaluation /\ EvalInv' /\ AllowWasPossible'
<1>1. CASE eval.step = "located" /\ eval.commits = 0
  <2> DEFINE D == Decide(locations', rules', eval.path, eval.request)
  <2>1. eval \in LocatedType
    BY <1>1, Located DEF IndInv
  <2>2. D \in Decision
    <3>1. Keyed(locations') /\ Keyed(rules')
      BY DEF StoreInv, Keyed
    <3> QED
      BY <3>1, DecideType DEF StoreInv
  <2> HIDE DEF D
  <2>3. eval' = [eval EXCEPT !.commits = 1, !.possible = @ \cup {D}]
    BY <1>1 DEF Commit, D
  <2>4. /\ eval' \in LocatedType /\ eval'.step = "located" /\ eval'.commits = 1
        /\ eval'.location = eval.location /\ eval'.path = eval.path
        /\ eval'.request = eval.request /\ eval'.possible = eval.possible \cup {D}
    <3>1. eval.possible \cup {D} \in SUBSET Decision /\ 1 \in 0 .. 1
      BY <2>1, <2>2 DEF LocatedType
    <3> QED
      BY <2>1, <2>3, <3>1 DEF LocatedType
  <2>5. Pending' = [location |-> eval.location,
                    answer |-> Answer(Of(rules', eval.location), eval.request)]
    BY <2>4, Zenon DEF Pending
  <2>6. Pending' \in eval'.possible \/ Pending'.answer # "allow"
    <3>1. CASE locations' = locations
      BY <1>1, <2>4, <2>5, <3>1 DEF IndInv, EvalInv, D, Decide
    <3>2. CASE Of(rules', eval.location) = Of(rules, eval.location)
      <4>1. Pending' = Pending
        BY <2>5, <3>2 DEF Pending
      <4> QED
        BY <1>1, <2>4, <4>1 DEF IndInv, EvalInv
    <3>3. CASE Of(rules', eval.location) = {}
      BY <2>5, <3>3 DEF Answer
    <3> QED
      BY <1>1, <3>1, <3>2, <3>3
  <2>7. EvalInv'
    BY <2>4, <2>6 DEF EvalInv
  <2> QED
    BY <2>4, <2>7 DEF Evaluation, LocatedType, AllowWasPossible
<1>2. CASE ~(eval.step = "located" /\ eval.commits = 0)
  <2>1. eval' = Idle
    BY <1>2 DEF Commit
  <2> QED
    BY <2>1 DEF Evaluation, Idle, EvalInv, AllowWasPossible
<1> QED
  BY <1>1, <1>2

\* Nothing that an evaluation depends on is changed.
LEMMA QuietEval ==
  ASSUME IndInv, UNCHANGED <<locations, rules, eval>>
  PROVE  eval' \in Evaluation /\ EvalInv' /\ AllowWasPossible'
<1>1. Pending' = Pending
  BY DEF Pending
<1> QED
  BY <1>1 DEF IndInv, EvalInv, AllowWasPossible

\* Every step keeps the snapshot an evaluation relies on possible for the request.
LEMMA EvalStep ==
  ASSUME IndInv, StoreInv', [Next]_vars
  PROVE  eval' \in Evaluation /\ EvalInv' /\ AllowWasPossible'
<1> DEFINE Goal == eval' \in Evaluation /\ EvalInv' /\ AllowWasPossible'
<1>1. ASSUME NEW query \in Query, EvaluateLocations(query[1], query[2]) PROVE Goal
  <2> DEFINE path == query[1]
             request == query[2]
             before == Decide(locations, rules, path, request)
             matching == Matching(locations, path)
  <2>1. path \in Path /\ request \in Request
    BY AccessStoreAssumption
  <2>2. before \in Decision /\ NoRuleSet \in Decision
    BY StoreDecides, AccessStoreAssumption DEF IndInv, NoRuleSet, Decision
  <2>3. UNCHANGED <<locations, rules>>
    BY <1>1 DEF EvaluateLocations, store
  <2>4. CASE matching = {}
    <3>1. eval' = [step |-> "done", decision |-> NoRuleSet, possible |-> {before}]
      BY <1>1, <2>4 DEF EvaluateLocations
    <3> HIDE DEF before
    <3> QED
      BY <2>2, <3>1 DEF Evaluation, EvalInv, AllowWasPossible, NoRuleSet
  <2>5. CASE matching # {}
    <3> DEFINE id == First(matching).id
    <3>1. eval' = [step |-> "located", location |-> id, path |-> path,
                   request |-> request, possible |-> {before}, commits |-> 0]
      BY <1>1, <2>5 DEF EvaluateLocations
    <3>2. id \in 1 .. MaxLocations
      <4>1. First(matching) \in locations
        BY <2>5, FirstIs DEF IndInv, StoreInv, Keyed, Matching
      <4>2. \A l \in locations : l.id \in 1 .. MaxLocations
        BY DEF IndInv, StoreInv, Location
      <4> QED
        BY <4>1, <4>2
    <3>3. before = [location |-> id, answer |-> Answer(Of(rules, id), request)]
      BY <2>5 DEF Decide
    <3>4. Pending' = before
      BY <2>3, <3>1, <3>3 DEF Pending
    <3>5. Matching(locations', eval'.path) # {}
            /\ eval'.location = First(Matching(locations', eval'.path)).id
      BY <2>3, <2>5, <3>1
    <3> HIDE DEF before, id, path, request
    <3>6. eval' \in Evaluation
      BY <2>1, <2>2, <3>1, <3>2 DEF Evaluation
    <3>7. EvalInv'
      BY <3>1, <3>4, <3>5 DEF EvalInv
    <3> QED
      BY <3>1, <3>6, <3>7 DEF AllowWasPossible
  <2> QED
    BY <2>4, <2>5
<1>2. ASSUME EvaluateRules PROVE Goal
  <2>1. eval \in LocatedType
    BY <1>2, Located DEF IndInv, EvaluateRules
  <2>2. eval' = [step |-> "done", possible |-> eval.possible, decision |-> Pending]
    BY <1>2 DEF EvaluateRules, Pending
  <2>3. Pending \in Decision
    <3>1. Answer(Of(rules, eval.location), eval.request) \in Action \cup {"no_rule"}
      BY AnswerType DEF IndInv, StoreInv, Of
    <3> QED
      BY <2>1, <3>1 DEF Pending, Decision, LocatedType
  <2>4. eval' \in Evaluation
    BY <2>1, <2>2, <2>3 DEF Evaluation, LocatedType
  <2>5. eval'.step = "done" /\ eval'.possible = eval.possible /\ eval'.decision = Pending
    BY <2>2
  <2>6. Pending \in eval.possible \/ Pending.answer # "allow"
    BY <1>2 DEF IndInv, EvalInv, EvaluateRules
  <2> QED
    BY <2>4, <2>5, <2>6 DEF EvalInv, AllowWasPossible
<1>3. ASSUME EvaluateFails PROVE Goal
  BY <1>3 DEF EvaluateFails, Evaluation, Idle, EvalInv, AllowWasPossible
<1>4. ASSUME Commit(locations', rules'), locations' = locations PROVE Goal
  BY <1>4, CommitEval
<1>5. ASSUME NEW pattern \in Pattern, NEW action \in Action, NEW expr \in Expr,
             AppendExisting(pattern, action, expr)
      PROVE  Goal
  BY <1>4, <1>5 DEF AppendExisting, Commit
<1>6. ASSUME NEW pattern \in Pattern, NEW action \in Action, NEW expr \in Expr,
             AppendNew(pattern, action, expr)
      PROVE  Goal
  BY <1>4, <1>6 DEF AppendNew, Commit
<1>7. ASSUME NEW pattern \in Pattern, NEW action \in Action, NEW expr \in Expr,
             AppendFirst(pattern, action, expr)
      PROVE  Goal
  <2>1. PICK new : /\ rules' = rules \cup {new} /\ new.location = nextLocation
                   /\ Commit(locations', rules')
    BY <1>7 DEF AppendFirst, Commit
  <2>2. ASSUME eval.step = "located", eval.commits = 0
        PROVE  Of(rules', eval.location) = Of(rules, eval.location)
    <3>1. First(Matching(locations, eval.path)) \in locations
      BY <2>2, FirstIs DEF IndInv, EvalInv, StoreInv, Keyed, Matching
    <3>2. eval.location # nextLocation
      BY <2>2, <3>1 DEF IndInv, EvalInv, StoreInv, Location
    <3> QED
      BY <2>1, <3>2 DEF Of
  <2> QED
    BY <2>1, <2>2, CommitEval
<1>8. ASSUME NEW pattern \in Pattern, RemoveRuleSet(pattern) PROVE Goal
  <2>1. PICK l \in At(pattern) : Commit(locations \ {l}, rules \ Of(rules, l.id))
    BY <1>8 DEF RemoveRuleSet
  <2>2. rules' = rules \ Of(rules, l.id) /\ Commit(locations', rules')
    BY <2>1 DEF Commit
  <2>3. Of(rules', eval.location) \in {Of(rules, eval.location), {}}
    BY <2>2 DEF Of
  <2> QED
    BY <2>2, <2>3, CommitEval
<1>9. ASSUME NEW pattern \in Pattern, RemoveRules(pattern) PROVE Goal
  BY <1>4, <1>9 DEF RemoveRules, RemoveLogical, Commit
<1>10. ASSUME NEW pattern \in Pattern, RemoveRulesByIds(pattern) PROVE Goal
  BY <1>4, <1>10 DEF RemoveRulesByIds, RemoveLogical, Commit
<1>11. ASSUME NEW id \in 1 .. MaxRules, NEW action \in Action, NEW expr \in Expr,
              ReplaceRuleById(id, action, expr)
       PROVE  Goal
  BY <1>4, <1>11 DEF ReplaceRuleById, Commit
<1>12. ASSUME MigrateDelete PROVE Goal
  BY <1>4, <1>12 DEF MigrateDelete, Commit
<1>13. ASSUME MigrateIndex PROVE Goal
  BY <1>13, QuietEval DEF MigrateIndex, store
<1>14. ASSUME MigrateStops PROVE Goal
  BY <1>14, QuietEval DEF MigrateStops, store
<1>15. ASSUME UNCHANGED vars PROVE Goal
  BY <1>15, QuietEval DEF vars
<1> QED
  BY <1>1, <1>2, <1>3, <1>5, <1>6, <1>7, <1>8, <1>9, <1>10, <1>11, <1>12, <1>13,
     <1>14, <1>15 DEF Next

-----------------------------------------------------------------------------
\* The rule that was appended last.

\* Remember, for a rule that the write has put into the store.
LEMMA RememberKeeps ==
  ASSUME NEW new \in Rule, new \in rules', rules' \subseteq rules \cup {new},
         latest' = Remember(new)
  PROVE  latest' \in Rule \cup {None} /\ LatestInv'
<1>1. CASE \A r \in rules : r.created < new.created
  BY <1>1 DEF Remember, LatestInv
<1>2. CASE ~ \A r \in rules : r.created < new.created
  BY <1>2 DEF Remember, LatestInv
<1> QED
  BY <1>1, <1>2

\* Every step keeps the rule that was appended last in its place.
LEMMA LatestStep ==
  ASSUME IndInv, StoreInv', [Next]_vars
  PROVE  latest' \in Rule \cup {None} /\ LatestInv'
<1> DEFINE Goal == latest' \in Rule \cup {None} /\ LatestInv'
<1>1. ASSUME UNCHANGED <<rules, latest>> PROVE Goal
  BY <1>1 DEF IndInv, LatestInv
<1>2. ASSUME latest' = None PROVE Goal
  BY <1>2 DEF LatestInv
<1>3. ASSUME NEW query \in Query, EvaluateLocations(query[1], query[2]) PROVE Goal
  BY <1>1, <1>3 DEF EvaluateLocations, store
<1>4. ASSUME EvaluateRules PROVE Goal
  BY <1>1, <1>4 DEF EvaluateRules, store
<1>5. ASSUME EvaluateFails PROVE Goal
  BY <1>1, <1>5 DEF EvaluateFails, store
<1>6. ASSUME NEW new, new \in rules', rules' \subseteq rules \cup {new},
             latest' = Remember(new)
      PROVE  Goal
  BY <1>6, RememberKeeps DEF StoreInv
<1>7. ASSUME NEW pattern \in Pattern, NEW action \in Action, NEW expr \in Expr,
             AppendExisting(pattern, action, expr)
      PROVE  Goal
  <2>1. PICK new : /\ new \in rules' /\ rules' \subseteq rules \cup {new}
                   /\ latest' = Remember(new)
    BY <1>7 DEF AppendExisting, Commit
  <2> QED
    BY <1>6, <2>1
<1>8. ASSUME NEW pattern \in Pattern, NEW action \in Action, NEW expr \in Expr,
             AppendNew(pattern, action, expr)
      PROVE  Goal
  <2>1. PICK new : /\ new \in rules' /\ rules' \subseteq rules \cup {new}
                   /\ latest' = Remember(new)
    BY <1>8 DEF AppendNew, Commit
  <2> QED
    BY <1>6, <2>1
<1>9. ASSUME NEW pattern \in Pattern, NEW action \in Action, NEW expr \in Expr,
             AppendFirst(pattern, action, expr)
      PROVE  Goal
  <2>1. PICK new : /\ new \in rules' /\ rules' \subseteq rules \cup {new}
                   /\ latest' = Remember(new)
    BY <1>9 DEF AppendFirst, Commit
  <2> QED
    BY <1>6, <2>1
<1>10. ASSUME NEW pattern \in Pattern, RemoveRuleSet(pattern) PROVE Goal
  BY <1>2, <1>10 DEF RemoveRuleSet
<1>11. ASSUME NEW pattern \in Pattern, RemoveRules(pattern) PROVE Goal
  BY <1>2, <1>11 DEF RemoveRules, RemoveLogical
<1>12. ASSUME NEW pattern \in Pattern, RemoveRulesByIds(pattern) PROVE Goal
  BY <1>2, <1>12 DEF RemoveRulesByIds, RemoveLogical
<1>13. ASSUME NEW id \in 1 .. MaxRules, NEW action \in Action, NEW expr \in Expr,
              ReplaceRuleById(id, action, expr)
       PROVE  Goal
  BY <1>2, <1>13 DEF ReplaceRuleById
<1>14. ASSUME MigrateDelete PROVE Goal
  <2>1. rules' \subseteq rules /\ latest' = latest
    BY <1>14 DEF MigrateDelete, Commit
  <2>2. latest # None => latest \in rules'
    <3>1. ASSUME latest # None, NEW s \in rules, Newer(s, latest) PROVE FALSE
      BY <3>1 DEF IndInv, LatestInv, Newer, StoreInv, Rule
    <3> QED
      BY <1>14, <3>1 DEF MigrateDelete, Commit, IndInv, LatestInv
  <2> QED
    BY <2>1, <2>2 DEF IndInv, LatestInv
<1>15. ASSUME MigrateIndex PROVE Goal
  BY <1>1, <1>15 DEF MigrateIndex, store
<1>16. ASSUME MigrateStops PROVE Goal
  BY <1>1, <1>16 DEF MigrateStops, store
<1>17. ASSUME UNCHANGED vars PROVE Goal
  BY <1>1, <1>17 DEF vars
<1> QED
  BY <1>3, <1>4, <1>5, <1>7, <1>8, <1>9, <1>10, <1>11, <1>12, <1>13, <1>14, <1>15,
     <1>16, <1>17 DEF Next

-----------------------------------------------------------------------------
\* The invariant and what follows from it.

\* Only the migration touches its flags.
LEMMA StepMigrates ==
  ASSUME [Next]_vars
  PROVE  \/ UNCHANGED <<indexed, migrating>>
         \/ MigrateDelete \/ MigrateIndex \/ MigrateStops
<1> DEFINE Kept == indexed' = indexed /\ migrating' = migrating
<1>1. \A path, request : EvaluateLocations(path, request) => Kept
  BY DEF EvaluateLocations
<1>2. EvaluateRules \/ EvaluateFails => Kept
  BY DEF EvaluateRules, EvaluateFails
<1>3. \A pattern, action, expr : AppendExisting(pattern, action, expr) => Kept
  BY DEF AppendExisting
<1>4. \A pattern, action, expr : AppendNew(pattern, action, expr) => Kept
  BY DEF AppendNew
<1>5. \A pattern, action, expr : AppendFirst(pattern, action, expr) => Kept
  BY DEF AppendFirst
<1>6. \A pattern : RemoveRuleSet(pattern) => Kept
  BY DEF RemoveRuleSet
<1>7. \A pattern : RemoveRules(pattern) \/ RemoveRulesByIds(pattern) => Kept
  BY DEF RemoveRules, RemoveRulesByIds, RemoveLogical
<1>8. \A id, action, expr : ReplaceRuleById(id, action, expr) => Kept
  BY DEF ReplaceRuleById
<1> QED
  BY <1>1, <1>2, <1>3, <1>4, <1>5, <1>6, <1>7, <1>8 DEF Next, vars

\* IndInv holds throughout: the tables stay consistent, the remembered rule is
\* the latest, and an evaluation knows what the store could answer.
THEOREM Inductive == Spec => []IndInv
<1>1. Init => IndInv
  <2> SUFFICES ASSUME Init PROVE IndInv
    OBVIOUS
  <2>1. StoreInv
    BY AccessStoreAssumption DEF Init, StoreInv, Keyed, Unique
  <2>2. eval \in Evaluation /\ EvalInv /\ AllowWasPossible
    BY DEF Init, EvalInv, Idle, Evaluation, AllowWasPossible
  <2>3. latest \in Rule \cup {None} /\ LatestInv
    BY DEF Init, LatestInv
  <2> QED
    BY <2>1, <2>2, <2>3 DEF Init, IndInv
<1>2. IndInv /\ [Next]_vars => IndInv'
  <2> SUFFICES ASSUME IndInv, [Next]_vars PROVE IndInv'
    OBVIOUS
  <2>1. indexed' \in BOOLEAN /\ migrating' \in BOOLEAN
    <3>1. \/ UNCHANGED <<indexed, migrating>>
          \/ MigrateDelete \/ MigrateIndex \/ MigrateStops
      BY StepMigrates
    <3> QED
      BY <3>1, Zenon DEF IndInv, MigrateDelete, MigrateIndex, MigrateStops
  <2> QED
    BY <2>1, StoreStep, EvalStep, LatestStep DEF IndInv
<1> QED
  BY <1>1, <1>2, PTL DEF Spec

\* The type invariant: unique patterns and keys, no rule without its location, and
\* unique rules once the migration has made its index.
THEOREM TypeCorrect == Spec => []TypeOK
<1>1. IndInv => TypeOK
  BY DEF IndInv, StoreInv, TypeOK, Keyed
<1> QED
  BY <1>1, Inductive, PTL

\* The matcher of list_all_rules answers as the live evaluator does, for any
\* patterns, conditions and clock: there is nothing for deduplicate_rules to drop.
THEOREM MemoryCorrect == Spec => []MemoryAgrees
<1>1. IndInv => MemoryAgrees
  <2>1. ASSUME IndInv, indexed PROVE Deduplicated(rules) = rules
    <3>1. \A r \in rules : r.id <= r.id
      BY <2>1, AccessStoreAssumption DEF IndInv, StoreInv, Rule
    <3> QED
      BY <2>1, <3>1 DEF IndInv, StoreInv, Unique, Deduplicated
  <2> QED
    BY <2>1 DEF MemoryAgrees, MemoryDecide
<1> QED
  BY <1>1, Inductive, PTL

\* An append stamped later than all rules decides every request that reaches its
\* location and that it is about.
THEOREM LatestCorrect == Spec => []LatestAppendDecides
<1>1. IndInv => LatestAppendDecides
  <2>1. SUFFICES ASSUME IndInv, latest # None, NEW path \in Path, NEW request \in Request,
                        Decide(locations, rules, path, request).location = latest.location,
                        Value[latest.expr][request] # "F"
                 PROVE  Decide(locations, rules, path, request).answer
                          = IF Value[latest.expr][request] = "E" THEN "deny" ELSE latest.action
    BY DEF LatestAppendDecides
  <2> DEFINE id == First(Matching(locations, path)).id
             matched == {r \in Of(rules, id) : Value[r.expr][request] # "F"}
  <2>2. latest \in rules /\ latest \in Rule
          /\ \A r \in rules \ {latest} : r.created < latest.created
    BY <2>1 DEF IndInv, LatestInv, StoreInv
  <2>3. Matching(locations, path) # {}
    BY <2>1, <2>2, AccessStoreAssumption DEF Decide, NoRuleSet, Rule
  <2>4. Decide(locations, rules, path, request)
          = [location |-> id, answer |-> Answer(Of(rules, id), request)]
    BY <2>3 DEF Decide
  <2>5. latest \in matched
    BY <2>1, <2>2, <2>4 DEF Of
  <2>6. Newest(matched) = latest
    <3>1. matched \subseteq Rule
      BY <2>1 DEF IndInv, StoreInv, Of
    <3>2. \A s \in matched \ {latest} : Newer(latest, s)
      BY <2>1, <2>2 DEF Of, Newer, IndInv, StoreInv, Rule
    <3> HIDE DEF matched
    <3> QED
      BY <2>5, <3>1, <3>2, NewestOnly
  <2>7. Answer(Of(rules, id), request)
          = IF Value[latest.expr][request] = "E" THEN "deny" ELSE latest.action
    <3>1. Answer(Of(rules, id), request)
            = IF matched = {} THEN "no_rule"
              ELSE IF Value[Newest(matched).expr][request] = "E" THEN "deny"
              ELSE Newest(matched).action
      BY Zenon DEF Answer
    <3> HIDE DEF matched
    <3> QED
      BY <2>5, <2>6, <3>1
  <2> QED
    BY <2>4, <2>7
<1> QED
  BY <1>1, Inductive, PTL

\* An evaluation that overlaps at most one commit never allows what the store
\* allows neither before nor after it.
THEOREM AllowCorrect == Spec => []AllowWasPossible
<1>1. IndInv => AllowWasPossible
  BY DEF IndInv
<1> QED
  BY <1>1, Inductive, PTL

\* No statement of the migration changes the answer to any request, however many
\* duplicates a store of an earlier release has.
THEOREM MigrationCorrect == Spec => MigrationPreserves
<1> DEFINE Same == \A path \in Path, request \in Request :
                      Decide(locations', rules', path, request)
                        = Decide(locations, rules, path, request)
<1>1. IndInv /\ [Next]_vars => [migrating' # migrating => Same]_vars
  <2> SUFFICES ASSUME IndInv, Next, migrating' # migrating PROVE Same
    BY DEF vars
  <2>1. MigrateDelete \/ MigrateIndex \/ MigrateStops
    BY StepMigrates
  <2>2. CASE MigrateDelete
    <3>1. /\ locations' = locations
          /\ rules' = {r \in rules : ~ \E s \in rules : SameLogicalRule(r, s) /\ Newer(s, r)}
      BY <2>2 DEF MigrateDelete, Commit
    <3>2. \A id, request : Answer(Of(rules', id), request) = Answer(Of(rules, id), request)
      BY <3>1, CollapseKeepsAnswer DEF IndInv, StoreInv
    <3> QED
      BY <3>1, <3>2 DEF Decide
  <2>3. CASE MigrateIndex \/ MigrateStops
    BY <2>3 DEF MigrateIndex, MigrateStops, store
  <2> QED
    BY <2>1, <2>2, <2>3
<1> QED
  BY <1>1, Inductive, PTL DEF Spec, MigrationPreserves

-----------------------------------------------------------------------------
\* Conditions.

\* What a part adds to the number of values that are still missing.
Weight(p) == IF p \in Rules!Operator THEN Rules!Operand(p) - 1 ELSE -1

\* The number of values missing before each of the first n parts, one at first.
Counts(seq, n) ==
    {w \in [Nat -> Int] : w[1] = 1 /\ \A i \in 1 .. n : w[i + 1] = w[i] + Weight(seq[i])}

\* A condition in Polish notation: values are missing until it ends, none then.
Prefix(seq) ==
    \E w \in Counts(seq, Len(seq)) :
        w[Len(seq) + 1] = 0 /\ \A i \in 1 .. Len(seq) : w[i] > 0

\* The values that the first operators on the stack reduce.
Reduced(o) ==
    {c \in [Nat -> Nat] : c[0] = 0 /\ \A i \in 1 .. Len(o) : c[i] = c[i - 1] + Weight(o[i])}

\* The machine has used as many values as the parts it has read account for.
Balanced(w) ==
    \E c \in Reduced(ops) : w[pos] = c[Len(ops)] + 1 - Len(values) + shortCircuit

RulesType ==
    /\ parts \in Seq(Rules!Operator \cup Rules!Truth)
    /\ mode \in {"arity", "eval"}
    /\ pos \in 1 .. Len(parts) + 1
    /\ settling \in BOOLEAN
    /\ shortCircuit \in Nat
    /\ ops \in Seq(Rules!Operator)
    /\ values \in Seq(IF mode = "arity" THEN {"U"} ELSE Rules!Truth)

\* Operands are passed over only for a value that has decided, which is then the
\* only one; nothing is left to be reduced once a value has been read.
MachineInv ==
    /\ mode = "arity" => shortCircuit = 0
    /\ shortCircuit > 0 => Len(values) = 1
    /\ settling => pos > 1 /\ parts[pos - 1] \in Rules!Truth
    /\ ~settling /\ pos > 1 /\ parts[pos - 1] \in Rules!Truth => ~Rules!Enough
    /\ ~settling /\ shortCircuit > 0 => ~Rules!Enough
    /\ ~settling /\ shortCircuit = 0 /\ pos > 1 /\ parts[pos - 1] \in Rules!Operator => ops # <<>>

\* What validate_arity has found out holds for try_run as well.
CountInv ==
    /\ \A w \in Counts(parts, Len(parts)) : Balanced(w)
    /\ mode = "arity" => \E w \in Counts(parts, pos - 1) : Balanced(w)
    /\ mode = "eval" =>
          /\ Len(parts) > 0 /\ parts[Len(parts)] \in Rules!Truth
          /\ \E w \in Counts(parts, Len(parts)) : w[Len(parts) + 1] = 0 /\ Balanced(w)

RulesInv ==
    /\ RulesType /\ MachineInv /\ CountInv
    /\ Rules!AcceptedRulesRun
    /\ mode = "arity" /\ result # Rules!None => ~Prefix(parts)

\* An operator takes one value or two.
LEMMA OperandIs ==
  ASSUME NEW op \in Rules!Operator
  PROVE  /\ Rules!Operand(op) \in {1, 2} /\ Weight(op) \in {0, 1}
         /\ Weight(op) = Rules!Operand(op) - 1
  BY DEF Rules!Operator, Rules!Operand, Weight

\* Counting goes on when an operator is pushed ...
LEMMA ReducedPush ==
  ASSUME NEW o \in Seq(Rules!Operator), NEW op \in Rules!Operator, NEW c \in Reduced(o)
  PROVE  \E d \in Reduced(Append(o, op)) :
            d[Len(Append(o, op))] = c[Len(o)] + Weight(op)
<1> DEFINE n == Len(o)
           v == c[n] + Weight(op)
           d == [c EXCEPT ![n + 1] = v]
           p == Append(o, op)
<1>1. n \in Nat /\ Len(p) = n + 1 /\ p[n + 1] = op /\ \A i \in 1 .. n : p[i] = o[i]
  OBVIOUS
<1>2. c \in [Nat -> Nat] /\ c[0] = 0
        /\ \A i \in 1 .. n : c[i] = c[i - 1] + Weight(o[i])
  BY DEF Reduced
<1>3. Weight(op) \in {0, 1}
  BY OperandIs
<1> HIDE DEF n, p
<1>8. v \in Nat
  <2>1. c[n] \in Nat
    BY <1>1, <1>2
  <2> HIDE DEF n
  <2> QED
    BY <2>1, <1>3
<1> HIDE DEF v
<1>9. n + 1 \in Nat
  BY <1>1
<1>4. d \in [Nat -> Nat] /\ d[n + 1] = v /\ \A i \in Nat : i # n + 1 => d[i] = c[i]
  BY <1>2, <1>8, <1>9
<1> HIDE DEF d
<1>5. d[0] = 0
  BY <1>1, <1>2, <1>4
<1>6. ASSUME NEW i \in 1 .. n + 1 PROVE d[i] = d[i - 1] + Weight(p[i])
  <2>1. CASE i = n + 1
    <3>1. i - 1 = n /\ n # n + 1
      BY <1>1, <2>1
    <3> QED
      BY <1>1, <1>4, <2>1, <3>1 DEF v
  <2>2. CASE i # n + 1
    <3>1. i \in 1 .. n /\ i \in Nat /\ i - 1 \in Nat /\ i - 1 # n + 1
      BY <1>1, <2>2
    <3> QED
      BY <1>1, <1>2, <1>4, <2>2, <3>1
  <2> QED
    BY <2>1, <2>2
<1>7. d \in Reduced(p)
  BY <1>1, <1>4, <1>5, <1>6 DEF Reduced
<1> QED
  BY <1>1, <1>4, <1>7 DEF n, p, v

\* All but the last element of a sequence.
LEMMA FrontIs ==
  ASSUME NEW T, NEW o \in Seq(T), o # <<>>
  PROVE  \E m \in Nat : /\ Len(o) = m + 1 /\ Len(o) - 1 = m
                        /\ SubSeq(o, 1, Len(o) - 1) \in Seq(T)
                        /\ Len(SubSeq(o, 1, Len(o) - 1)) = m
                        /\ \A i \in 1 .. m : SubSeq(o, 1, Len(o) - 1)[i] = o[i]
                        /\ o[m + 1] \in T
<1>1. Len(o) \in Nat /\ Len(o) # 0
  OBVIOUS
<1>2. \A n \in Nat : n # 0 => n - 1 \in Nat /\ n = (n - 1) + 1 /\ n - 1 <= n
  OBVIOUS
<1>3. PICK m \in Nat : Len(o) = m + 1 /\ Len(o) - 1 = m
  BY <1>1, <1>2
<1>4. SubSeq(o, 1, m) \in Seq(T) /\ Len(SubSeq(o, 1, m)) = m
        /\ \A i \in 1 .. m : SubSeq(o, 1, m)[i] = o[i]
  BY <1>3
<1>5. o[m + 1] \in T
  BY <1>3
<1> QED
  BY <1>3, <1>4, <1>5, Zenon

\* ... and goes back when it is popped.
LEMMA ReducedPop ==
  ASSUME NEW o \in Seq(Rules!Operator), o # <<>>, NEW c \in Reduced(o)
  PROVE  /\ Rules!Front(o) \in Seq(Rules!Operator) /\ Rules!Last(o) \in Rules!Operator
         /\ c \in Reduced(Rules!Front(o))
         /\ c[Len(o)] = c[Len(Rules!Front(o))] + Weight(Rules!Last(o))
         /\ c[Len(Rules!Front(o))] \in Nat
<1>1. PICK m \in Nat : /\ Len(o) = m + 1 /\ Rules!Front(o) \in Seq(Rules!Operator)
                       /\ Len(Rules!Front(o)) = m
                       /\ \A i \in 1 .. m : Rules!Front(o)[i] = o[i]
                       /\ o[m + 1] \in Rules!Operator
  BY FrontIs, Zenon DEF Rules!Front
<1>2. Rules!Last(o) = o[m + 1]
  BY <1>1, Zenon DEF Rules!Last
<1>3. c \in [Nat -> Nat] /\ c[0] = 0
        /\ \A i \in 1 .. m + 1 : c[i] = c[i - 1] + Weight(o[i])
  BY <1>1 DEF Reduced
<1>4. ASSUME NEW i \in 1 .. m
      PROVE  c[i] = c[i - 1] + Weight(Rules!Front(o)[i])
  <2>1. i \in 1 .. m + 1
    OBVIOUS
  <2> QED
    BY <1>1, <1>3, <2>1
<1>5. c \in Reduced(Rules!Front(o))
  BY <1>1, <1>3, <1>4 DEF Reduced
<1>6. c[m + 1] = c[m] + Weight(o[m + 1])
  <2>1. m + 1 \in 1 .. m + 1 /\ (m + 1) - 1 = m
    OBVIOUS
  <2> QED
    BY <1>3, <2>1
<1> QED
  BY <1>1, <1>2, <1>3, <1>5, <1>6

\* Every step of the machine keeps the count.
LEMMA BalanceStep ==
  ASSUME RulesType, MachineInv, NEW w \in [Nat -> Int], Balanced(w),
         pos' = pos + 1 => w[pos + 1] = w[pos] + Weight(parts[pos]),
         Rules!Next, ~Rules!Accept
  PROVE  Balanced(w)'
<1>1. PICK c \in Reduced(ops) : w[pos] = c[Len(ops)] + 1 - Len(values) + shortCircuit
  BY DEF Balanced
<1> DEFINE V == IF mode = "arity" THEN {"U"} ELSE Rules!Truth
<1>2. ops \in Seq(Rules!Operator) /\ values \in Seq(V) /\ shortCircuit \in Nat
        /\ pos \in 1 .. Len(parts) + 1 /\ parts \in Seq(Rules!Operator \cup Rules!Truth)
  BY DEF RulesType
<1> HIDE DEF V
<1>3. Len(ops) \in Nat /\ Len(values) \in Nat /\ Len(parts) \in Nat
  BY <1>2
<1>4. pos \in Nat /\ pos + 1 \in Nat
  BY <1>2, <1>3
<1>5. /\ w[pos] \in Int /\ w[pos + 1] \in Int /\ c[Len(ops)] \in Int
      /\ Len(values) \in Int /\ shortCircuit \in Int
  BY <1>2, <1>3, <1>4 DEF Reduced
<1>6. CASE Rules!PushOperator
  <2>1. ops' = Append(ops, parts[pos]) /\ parts[pos] \in Rules!Operator /\ pos' = pos + 1
          /\ UNCHANGED <<values, shortCircuit>>
    BY <1>6 DEF Rules!PushOperator
  <2>2. PICK d \in Reduced(ops') : d[Len(ops')] = c[Len(ops)] + Weight(parts[pos])
    BY <1>2, <2>1, ReducedPush
  <2>3. Weight(parts[pos]) \in Int
    BY <2>1, OperandIs
  <2>4. w[pos'] = d[Len(ops')] + 1 - Len(values') + shortCircuit'
    BY <1>1, <1>5, <2>1, <2>2, <2>3
  <2> QED
    BY <2>4 DEF Balanced
<1>7. CASE Rules!PushValue
  <2>1. \E v : values' = Append(values, v)
    BY <1>7 DEF Rules!PushValue
  <2>2. parts[pos] \in Rules!Truth /\ pos' = pos + 1 /\ UNCHANGED <<ops, shortCircuit>>
    BY <1>7 DEF Rules!PushValue
  <2>3. Len(values') = Len(values) + 1
    BY <1>2, <2>1
  <2>4. Weight(parts[pos]) = -1 /\ Weight(parts[pos]) \in Int
    BY <2>2 DEF Weight, Rules!Truth, Rules!Operator
  <2>5. w[pos'] = w[pos] + -1
    BY <2>2, <2>4, Zenon
  <2>6. w[pos'] = c[Len(ops)] + 1 - (Len(values) + 1) + shortCircuit
    <3>1. (c[Len(ops)] + 1 - Len(values) + shortCircuit) + -1
            = c[Len(ops)] + 1 - (Len(values) + 1) + shortCircuit
      BY <1>5
    <3> QED
      BY <1>1, <2>5, <3>1, Zenon
  <2>7. w[pos'] = c[Len(ops')] + 1 - Len(values') + shortCircuit'
    BY <2>2, <2>3, <2>6, Zenon
  <2> QED
    BY <2>2, <2>7 DEF Balanced
<1>8. CASE Rules!SkipPart
  <2>1. /\ pos' = pos + 1 /\ UNCHANGED <<ops, values>>
        /\ shortCircuit' = IF parts[pos] \in Rules!Operator
                           THEN shortCircuit + Rules!Operand(parts[pos]) - 1
                           ELSE shortCircuit - 1
    BY <1>8 DEF Rules!SkipPart
  <2>2. shortCircuit' = shortCircuit + Weight(parts[pos]) /\ Weight(parts[pos]) \in Int
    <3>1. CASE parts[pos] \in Rules!Operator
      <4>1. Rules!Operand(parts[pos]) \in {1, 2}
              /\ Weight(parts[pos]) = Rules!Operand(parts[pos]) - 1
        BY <3>1, OperandIs
      <4> QED
        BY <1>2, <2>1, <3>1, <4>1
    <3>2. CASE parts[pos] \notin Rules!Operator
      <4>1. Weight(parts[pos]) = -1
        BY <3>2 DEF Weight
      <4> QED
        BY <1>2, <2>1, <3>2, <4>1
    <3> QED
      BY <3>1, <3>2
  <2>3. w[pos'] = c[Len(ops')] + 1 - Len(values') + shortCircuit'
    <3>1. (c[Len(ops)] + 1 - Len(values) + shortCircuit) + Weight(parts[pos])
            = c[Len(ops)] + 1 - Len(values) + (shortCircuit + Weight(parts[pos]))
      BY <1>5, <2>2
    <3>2. w[pos'] = w[pos] + Weight(parts[pos]) /\ UNCHANGED <<ops, values>>
      BY <2>1
    <3> QED
      BY <1>1, <2>2, <3>1, <3>2, Zenon
  <2> QED
    BY <2>1, <2>3 DEF Balanced
<1>9. CASE Rules!OperateTop
  <2> DEFINE op == Rules!Last(ops)
             rest == SubSeq(values, 1, Len(values) - Rules!Operand(op))
  <2>1. /\ ops # <<>> /\ Len(values) >= Rules!Operand(op)
        /\ (\E v : values' = Append(rest, v)) /\ ops' = Rules!Front(ops)
        /\ UNCHANGED <<pos, shortCircuit>>
    BY <1>9 DEF Rules!OperateTop, Rules!Enough
  <2>2. /\ op \in Rules!Operator /\ c \in Reduced(ops')
        /\ c[Len(ops)] = c[Len(ops')] + Weight(op) /\ c[Len(ops')] \in Int
    <3> HIDE DEF rest
    <3> QED
      BY <1>2, <2>1, ReducedPop
  <2>3. /\ Rules!Operand(op) \in {1, 2} /\ Weight(op) \in Int
        /\ Weight(op) = Rules!Operand(op) - 1
    BY <2>2, OperandIs
  <2> HIDE DEF op
  <2>4. Len(values') = Len(values) - Weight(op)
    <3>1. PICK k \in Nat : k = Len(values) - Rules!Operand(op)
      BY <1>3, <2>1, <2>3
    <3>2. k <= Len(values) /\ k + 1 = Len(values) - Weight(op)
      BY <1>3, <2>3, <3>1
    <3>3. SubSeq(values, 1, k) \in Seq(V) /\ Len(SubSeq(values, 1, k)) = k
      <4>1. ASSUME NEW T, NEW t \in Seq(T), NEW n \in Nat, n <= Len(t)
            PROVE  SubSeq(t, 1, n) \in Seq(T) /\ Len(SubSeq(t, 1, n)) = n
        BY <4>1
      <4> QED
        BY <1>2, <3>2, <4>1
    <3>4. rest \in Seq(V) /\ Len(rest) = k
      BY <3>1, <3>3, Zenon
    <3> HIDE DEF rest
    <3>5. Len(values') = k + 1
      BY <2>1, <3>4
    <3> QED
      BY <3>2, <3>5
  <2>5. w[pos'] = c[Len(ops')] + 1 - Len(values') + shortCircuit'
    <3>1. (c[Len(ops')] + Weight(op)) + 1 - Len(values) + shortCircuit
            = c[Len(ops')] + 1 - (Len(values) - Weight(op)) + shortCircuit
      <4>1. /\ c[Len(ops')] \in Int /\ Weight(op) \in Int
            /\ Len(values) \in Int /\ shortCircuit \in Int
        BY <1>5, <2>2, <2>3
      <4>2. ASSUME NEW x \in Int, NEW a \in Int, NEW l \in Int, NEW y \in Int
            PROVE  (x + a) + 1 - l + y = x + 1 - (l - a) + y
        OBVIOUS
      <4>3. PICK x \in Int, a \in Int, l \in Int, y \in Int :
               /\ x = c[Len(ops')] /\ a = Weight(op) /\ l = Len(values) /\ y = shortCircuit
        BY <4>1, Zenon
      <4>4. (x + a) + 1 - l + y = x + 1 - (l - a) + y
        BY <4>2
      <4> QED
        BY <4>3, <4>4, Zenon
    <3> QED
      BY <1>1, <2>1, <2>2, <2>4, <3>1, Zenon
  <2> QED
    BY <2>2, <2>5 DEF Balanced
<1>10. CASE Rules!ShortCircuitTop
  <2>1. /\ ops # <<>> /\ ops' = Rules!Front(ops)
        /\ shortCircuit' = shortCircuit + Rules!Operand(Rules!Last(ops)) - 1
        /\ UNCHANGED <<pos, values>>
    BY <1>10 DEF Rules!ShortCircuitTop, Rules!Cut
  <2>2. /\ Rules!Last(ops) \in Rules!Operator /\ c \in Reduced(ops')
        /\ c[Len(ops)] = c[Len(ops')] + Weight(Rules!Last(ops))
        /\ c[Len(ops')] \in Int
    BY <1>2, <2>1, ReducedPop
  <2>3. Rules!Operand(Rules!Last(ops)) \in {1, 2} /\ Weight(Rules!Last(ops)) \in Int
          /\ Weight(Rules!Last(ops)) = Rules!Operand(Rules!Last(ops)) - 1
    BY <2>2, OperandIs
  <2>4. shortCircuit' = shortCircuit + Weight(Rules!Last(ops))
    BY <1>5, <2>1, <2>3
  <2>5. w[pos'] = c[Len(ops')] + 1 - Len(values') + shortCircuit'
    <3>1. (c[Len(ops')] + Weight(Rules!Last(ops))) + 1 - Len(values) + shortCircuit
            = c[Len(ops')] + 1 - Len(values) + (shortCircuit + Weight(Rules!Last(ops)))
      <4>1. /\ c[Len(ops')] \in Int /\ Weight(Rules!Last(ops)) \in Int
            /\ Len(values) \in Int /\ shortCircuit \in Int
        BY <1>5, <2>2, <2>3
      <4> QED
        BY <4>1
    <3> QED
      BY <1>1, <2>1, <2>2, <2>4, <3>1, Zenon
  <2> QED
    BY <2>2, <2>5 DEF Balanced
<1>11. CASE Rules!Settled \/ Rules!Return
  BY <1>11 DEF Rules!Settled, Rules!Return, Balanced
<1> QED
  BY <1>6, <1>7, <1>8, <1>9, <1>10, <1>11 DEF Rules!Next

\* The values on the stack are of the kind that the machine runs over.
LEMMA RulesTypeStep ==
  ASSUME RulesType, MachineInv, Rules!Next
  PROVE  RulesType'
<1> DEFINE V == IF mode = "arity" THEN {"U"} ELSE Rules!Truth
<1>1. /\ ops \in Seq(Rules!Operator) /\ values \in Seq(V) /\ shortCircuit \in Nat
      /\ pos \in 1 .. Len(parts) + 1 /\ parts \in Seq(Rules!Operator \cup Rules!Truth)
      /\ mode \in {"arity", "eval"} /\ settling \in BOOLEAN /\ Len(parts) \in Nat
  BY DEF RulesType
<1>2. ASSUME UNCHANGED <<parts, mode>>, ops' \in Seq(Rules!Operator), values' \in Seq(V),
             shortCircuit' \in Nat, pos' \in 1 .. Len(parts) + 1, settling' \in BOOLEAN
      PROVE  RulesType'
  BY <1>1, <1>2 DEF RulesType
<1>3. CASE Rules!PushOperator
  <2>1. /\ ops' = Append(ops, parts[pos]) /\ parts[pos] \in Rules!Operator
        /\ pos' = pos + 1 /\ pos <= Len(parts)
        /\ UNCHANGED <<parts, mode, settling, shortCircuit, values>>
    BY <1>3 DEF Rules!PushOperator, Rules!Reading
  <2>2. ops' \in Seq(Rules!Operator)
    BY <1>1, <2>1
  <2>3. pos' \in 1 .. Len(parts) + 1
    BY <1>1, <2>1
  <2> QED
    BY <1>1, <1>2, <2>1, <2>2, <2>3
<1>4. CASE Rules!PushValue
  <2>1. /\ values' = Append(values, IF mode = "arity" THEN "U" ELSE parts[pos])
        /\ parts[pos] \in Rules!Truth /\ pos' = pos + 1 /\ pos <= Len(parts) /\ settling' = TRUE
        /\ UNCHANGED <<parts, mode, shortCircuit, ops>>
    BY <1>4 DEF Rules!PushValue, Rules!Reading, Rules!Unit
  <2>2. (IF mode = "arity" THEN "U" ELSE parts[pos]) \in V
    BY <2>1
  <2> HIDE DEF V
  <2>3. values' \in Seq(V)
    BY <1>1, <2>1, <2>2
  <2>4. pos' \in 1 .. Len(parts) + 1
    BY <1>1, <2>1
  <2> QED
    BY <1>1, <1>2, <2>1, <2>3, <2>4
<1>5. CASE Rules!SkipPart
  <2>1. /\ pos' = pos + 1 /\ pos <= Len(parts) /\ shortCircuit > 0
        /\ UNCHANGED <<parts, mode, settling, ops, values>>
        /\ shortCircuit' = IF parts[pos] \in Rules!Operator
                           THEN shortCircuit + Rules!Operand(parts[pos]) - 1
                           ELSE shortCircuit - 1
    BY <1>5 DEF Rules!SkipPart, Rules!Reading
  <2>2. shortCircuit' \in Nat
    BY <1>1, <2>1, OperandIs
  <2>3. pos' \in 1 .. Len(parts) + 1
    BY <1>1, <2>1
  <2> QED
    BY <1>1, <1>2, <2>1, <2>2, <2>3
<1>6. ASSUME ops # <<>>
      PROVE  /\ Rules!Front(ops) \in Seq(Rules!Operator) /\ Rules!Last(ops) \in Rules!Operator
             /\ Rules!Operand(Rules!Last(ops)) \in {1, 2}
  <2>1. PICK m \in Nat : Len(ops) = m + 1 /\ SubSeq(ops, 1, Len(ops) - 1) \in Seq(Rules!Operator)
                           /\ ops[m + 1] \in Rules!Operator
    BY <1>1, <1>6, FrontIs
  <2>2. Rules!Last(ops) \in Rules!Operator
    BY <2>1, Zenon DEF Rules!Last
  <2> QED
    BY <2>1, <2>2, OperandIs DEF Rules!Front
<1>7. CASE Rules!OperateTop
  <2> DEFINE op == Rules!Last(ops)
             rest == SubSeq(values, 1, Len(values) - Rules!Operand(op))
             new == IF op = "not" THEN Rules!Not(Rules!Last(values))
                    ELSE Rules!Operate(op, Rules!Last(Rules!Front(values)), Rules!Last(values))
  <2>1. /\ ops # <<>> /\ Len(values) >= Rules!Operand(op)
        /\ values' = Append(rest, new) /\ ops' = Rules!Front(ops)
        /\ UNCHANGED <<parts, mode, pos, settling, shortCircuit>>
    BY <1>7 DEF Rules!OperateTop, Rules!Enough
  <2>2. op \in Rules!Operator /\ Rules!Operand(op) \in {1, 2} /\ ops' \in Seq(Rules!Operator)
    BY <1>6, <2>1
  <2>3. Len(values) \in Nat
    BY <1>1
  <2>4. Rules!Last(values) \in V
    <3>1. Len(values) \in 1 .. Len(values)
      BY <2>1, <2>2, <2>3
    <3> HIDE DEF V
    <3> QED
      BY <1>1, <3>1 DEF Rules!Last
  <2>5. op # "not" => Rules!Last(Rules!Front(values)) \in V
    <3> SUFFICES ASSUME op # "not" PROVE Rules!Last(Rules!Front(values)) \in V
      OBVIOUS
    <3> HIDE DEF V
    <3>1. Len(values) >= 2
      BY <2>1, <2>3 DEF Rules!Operand
    <3>2. values # <<>>
      BY <1>1, <3>1
    <3>3. PICK m \in Nat : /\ Len(values) = m + 1
                           /\ Len(SubSeq(values, 1, Len(values) - 1)) = m
                           /\ SubSeq(values, 1, Len(values) - 1) \in Seq(V)
      BY <1>1, <3>2, FrontIs
    <3>4. m \in 1 .. m
      BY <3>1, <3>3
    <3>5. SubSeq(values, 1, Len(values) - 1)[m] \in V
      BY <3>3, <3>4
    <3> QED
      BY <3>3, <3>5, Zenon DEF Rules!Last, Rules!Front
  <2>6. new \in V
    <3>1. CASE op = "not"
      BY <2>4, <3>1 DEF Rules!Not, Rules!Truth
    <3>2. CASE op # "not"
      <4>1. op \in {"and", "or"}
        BY <2>2, <3>2 DEF Rules!Operator
      <4> HIDE DEF op
      <4> QED
        BY <2>4, <2>5, <3>2, <4>1 DEF Rules!Operate, Rules!Truth, Rules!Unit
    <3> QED
      BY <3>1, <3>2
  <2>7. rest \in Seq(V)
    <3>1. PICK k \in Nat : k = Len(values) - Rules!Operand(op) /\ k <= Len(values)
      BY <2>1, <2>2, <2>3
    <3>2. ASSUME NEW T, NEW t \in Seq(T), NEW n \in Nat, n <= Len(t)
          PROVE  SubSeq(t, 1, n) \in Seq(T)
      BY <3>2
    <3>3. SubSeq(values, 1, k) \in Seq(V)
      BY <1>1, <3>1, <3>2
    <3> QED
      BY <3>1, <3>3, Zenon
  <2> HIDE DEF rest, new, V
  <2>8. values' \in Seq(V)
    BY <2>1, <2>6, <2>7
  <2> QED
    BY <1>1, <1>2, <2>1, <2>2, <2>8
<1>8. CASE Rules!ShortCircuitTop
  <2>1. /\ ops # <<>> /\ ops' = Rules!Front(ops)
        /\ shortCircuit' = shortCircuit + Rules!Operand(Rules!Last(ops)) - 1
        /\ UNCHANGED <<parts, mode, pos, settling, values>>
    BY <1>8 DEF Rules!ShortCircuitTop, Rules!Cut
  <2>2. shortCircuit' \in Nat
    BY <1>1, <1>6, <2>1
  <2> QED
    BY <1>1, <1>2, <1>6, <2>1, <2>2
<1>9. CASE Rules!Settled \/ Rules!Return
  BY <1>1, <1>2, <1>9 DEF Rules!Settled, Rules!Return
<1>10. CASE Rules!Accept
  <2>1. /\ mode' = "eval" /\ pos' = 1 /\ values' = <<>>
        /\ UNCHANGED <<parts, settling, shortCircuit, ops>>
    BY <1>10 DEF Rules!Accept
  <2>2. 1 \in 1 .. Len(parts) + 1
    BY <1>1
  <2> QED
    BY <1>1, <2>1, <2>2 DEF RulesType
<1> QED
  BY <1>3, <1>4, <1>5, <1>7, <1>8, <1>9, <1>10 DEF Rules!Next

\* Each step keeps what is known of the machine.
LEMMA MachineStep ==
  ASSUME RulesType, MachineInv, Rules!Next
  PROVE  MachineInv'
<1> DEFINE V == IF mode = "arity" THEN {"U"} ELSE Rules!Truth
<1>1. /\ ops \in Seq(Rules!Operator) /\ values \in Seq(V) /\ shortCircuit \in Nat
      /\ pos \in 1 .. Len(parts) + 1 /\ parts \in Seq(Rules!Operator \cup Rules!Truth)
      /\ mode \in {"arity", "eval"} /\ settling \in BOOLEAN /\ Len(parts) \in Nat
  BY DEF RulesType
<1>2. pos \in Nat /\ Len(values) \in Nat
  BY <1>1
<1>3. pos + 1 > 1 /\ (pos + 1) - 1 = pos
  BY <1>1, <1>2
<1>4. \A x \in Rules!Operator : x \notin Rules!Truth
  BY DEF Rules!Operator, Rules!Truth
<1>5. ASSUME ops # <<>>
      PROVE  Rules!Last(ops) \in Rules!Operator /\ Rules!Operand(Rules!Last(ops)) \in {1, 2}
  <2>1. PICK m \in Nat : Len(ops) = m + 1 /\ ops[m + 1] \in Rules!Operator
    BY <1>1, <1>5, FrontIs
  <2>2. Rules!Last(ops) \in Rules!Operator
    BY <2>1, Zenon DEF Rules!Last
  <2> QED
    BY <2>2, OperandIs
<1> HIDE DEF V
<1>6. CASE Rules!PushOperator
  <2>1. /\ pos' = pos + 1 /\ parts[pos] \in Rules!Operator /\ shortCircuit = 0 /\ ~settling
        /\ ops' = Append(ops, parts[pos])
        /\ UNCHANGED <<parts, mode, settling, shortCircuit, values>>
    BY <1>6 DEF Rules!PushOperator, Rules!Reading
  <2>2. ops' # <<>>
    BY <1>1, <2>1
  <2>3. parts'[pos' - 1] \notin Rules!Truth
    BY <1>3, <1>4, <2>1
  <2>4. ~(shortCircuit > 0)
    BY <2>1
  <2> QED
    BY <2>1, <2>2, <2>3, <2>4 DEF MachineInv
<1>7. CASE Rules!PushValue
  <2>1. /\ pos' = pos + 1 /\ parts[pos] \in Rules!Truth /\ shortCircuit = 0 /\ settling' = TRUE
        /\ UNCHANGED <<parts, mode, shortCircuit, ops>>
    BY <1>7 DEF Rules!PushValue
  <2>2. pos' > 1 /\ parts'[pos' - 1] \in Rules!Truth
    BY <1>3, <2>1
  <2>3. ~(shortCircuit > 0)
    BY <2>1
  <2> QED
    BY <2>1, <2>2, <2>3 DEF MachineInv
<1>8. CASE Rules!SkipPart
  <2>1. /\ pos' = pos + 1 /\ ~settling /\ shortCircuit > 0
        /\ UNCHANGED <<parts, mode, settling, ops, values>>
        /\ shortCircuit' = IF parts[pos] \in Rules!Operator
                           THEN shortCircuit + Rules!Operand(parts[pos]) - 1
                           ELSE shortCircuit - 1
    BY <1>8 DEF Rules!SkipPart, Rules!Reading
  <2>2. ~Rules!Enough' /\ mode # "arity" /\ Len(values) = 1
    BY <1>1, <2>1 DEF MachineInv, Rules!Enough
  <2>3. parts[pos] \in Rules!Operator => shortCircuit' # 0
    BY <1>1, <2>1, OperandIs
  <2>4. parts'[pos' - 1] = parts[pos]
    BY <1>3, <2>1
  <2> QED
    BY <2>1, <2>2, <2>3, <2>4 DEF MachineInv
<1>9. CASE Rules!OperateTop
  <2> DEFINE op == Rules!Last(ops)
             rest == SubSeq(values, 1, Len(values) - Rules!Operand(op))
  <2>1. /\ settling /\ ops # <<>> /\ Len(values) >= Rules!Operand(op)
        /\ (\E v : values' = Append(rest, v))
        /\ UNCHANGED <<parts, mode, pos, settling, shortCircuit>>
    BY <1>9 DEF Rules!OperateTop, Rules!Enough
  <2>2. Rules!Operand(op) \in {1, 2}
    BY <1>5, <2>1
  <2>3. ASSUME Len(values) = 1 PROVE Len(values') = 1
    <3>1. Len(values) - Rules!Operand(op) = 0
      BY <2>1, <2>2, <2>3
    <3>2. rest = SubSeq(values, 1, 0)
      BY <3>1
    <3>3. SubSeq(values, 1, 0) \in Seq(V) /\ Len(SubSeq(values, 1, 0)) = 0
      BY <1>1
    <3>4. rest \in Seq(V) /\ Len(rest) = 0
      BY <3>2, <3>3, Zenon
    <3> HIDE DEF rest
    <3> QED
      BY <2>1, <3>4
  <2> HIDE DEF rest
  <2> QED
    BY <2>1, <2>3 DEF MachineInv
<1>10. CASE Rules!ShortCircuitTop
  <2>1. /\ settling /\ ops # <<>> /\ Len(values) < Rules!Operand(Rules!Last(ops))
        /\ values # <<>> /\ Rules!Decides(Rules!Last(ops), Rules!Last(values))
        /\ UNCHANGED <<parts, mode, pos, settling, values>>
    <3>1. Rules!Cut /\ settling /\ UNCHANGED <<parts, mode, pos, settling, values>>
      BY <1>10 DEF Rules!ShortCircuitTop
    <3>2. Len(values) < Rules!Operand(Rules!Last(ops))
      BY <1>2, <1>5, <3>1 DEF Rules!Cut, Rules!Enough
    <3> QED
      BY <3>1, <3>2 DEF Rules!Cut
  <2>2. Len(values) = 1
    <3>1. Len(values) # 0
      BY <1>1, <2>1
    <3>2. PICK k \in {1, 2} : k = Rules!Operand(Rules!Last(ops))
      BY <1>5, <2>1
    <3>3. Len(values) < k
      BY <2>1, <3>2
    <3>4. \A x \in Nat, y \in {1, 2} : x # 0 /\ x < y => x = 1
      OBVIOUS
    <3> QED
      BY <1>2, <3>1, <3>2, <3>3, <3>4, Zenon
  <2>3. mode # "arity"
    <3> SUFFICES ASSUME mode = "arity" PROVE FALSE
      OBVIOUS
    <3>1. values \in Seq({"U"})
      BY <1>1 DEF V
    <3>2. Rules!Last(values) = "U"
      BY <2>2, <3>1 DEF Rules!Last
    <3> QED
      BY <2>1, <3>2 DEF Rules!Decides
  <2> QED
    BY <2>1, <2>2, <2>3 DEF MachineInv
<1>11. CASE Rules!Settled
  <2>1. settling /\ ~Rules!Enough /\ settling' = FALSE
          /\ UNCHANGED <<parts, mode, pos, shortCircuit, ops, values>>
    BY <1>11 DEF Rules!Settled
  <2>2. ~Rules!Enough'
    BY <2>1 DEF Rules!Enough
  <2> QED
    BY <1>4, <2>1, <2>2 DEF MachineInv
<1>12. CASE Rules!Return
  BY <1>12 DEF Rules!Return, MachineInv, Rules!Enough
<1>13. CASE Rules!Accept
  <2>1. /\ mode = "arity" /\ ~settling /\ mode' = "eval" /\ pos' = 1
        /\ UNCHANGED <<parts, settling, shortCircuit, ops>>
    BY <1>13 DEF Rules!Accept, Rules!Ended
  <2>2. shortCircuit' = 0 /\ ~(pos' > 1) /\ ~(shortCircuit' > 0)
    BY <2>1 DEF MachineInv
  <2> QED
    BY <2>1, <2>2 DEF MachineInv
<1> QED
  BY <1>6, <1>7, <1>8, <1>9, <1>10, <1>11, <1>12, <1>13 DEF Rules!Next

\* A count that was made for some parts goes on for the next one.
LEMMA CountsGoOn ==
  ASSUME NEW seq, NEW n \in Nat \ {0}, NEW w \in Counts(seq, n - 1), Weight(seq[n]) \in Int
  PROVE  \E v \in Counts(seq, n) : v[n] = w[n] /\ v[n + 1] = v[n] + Weight(seq[n])
<1> DEFINE x == w[n] + Weight(seq[n])
           v == [w EXCEPT ![n + 1] = x]
<1>1. w \in [Nat -> Int] /\ w[1] = 1 /\ \A i \in 1 .. n - 1 : w[i + 1] = w[i] + Weight(seq[i])
  BY DEF Counts
<1>2. w[n] \in Int /\ x \in Int
  BY <1>1
<1> HIDE DEF x
<1>3. v \in [Nat -> Int] /\ v[n + 1] = x /\ \A i \in Nat : i # n + 1 => v[i] = w[i]
  BY <1>1, <1>2
<1> HIDE DEF v
<1>4. v[1] = 1 /\ v[n] = w[n]
  BY <1>1, <1>3
<1>5. v[n + 1] = v[n] + Weight(seq[n])
  BY <1>3, <1>4 DEF x
<1>6. ASSUME NEW i \in 1 .. n PROVE v[i + 1] = v[i] + Weight(seq[i])
  <2>1. CASE i = n
    BY <1>5, <2>1
  <2>2. CASE i # n
    <3>1. i \in 1 .. n - 1 /\ i \in Nat /\ i + 1 \in Nat /\ i # n + 1 /\ i + 1 # n + 1
      BY <2>2
    <3> QED
      BY <1>1, <1>3, <3>1
  <2> QED
    BY <2>1, <2>2
<1> QED
  BY <1>3, <1>4, <1>5, <1>6 DEF Counts

\* When a condition has been read that ends with a value and with no value missing,
\* then there is one on the stack and nothing else left.
LEMMA Finished ==
  ASSUME RulesType, MachineInv, NEW w \in [Nat -> Int], Balanced(w), Rules!Ended,
         w[Len(parts) + 1] = 0, Len(parts) > 0, parts[Len(parts)] \in Rules!Truth
  PROVE  ops = <<>> /\ shortCircuit = 0 /\ Len(values) = 1
<1> DEFINE V == IF mode = "arity" THEN {"U"} ELSE Rules!Truth
<1>1. /\ ops \in Seq(Rules!Operator) /\ values \in Seq(V) /\ shortCircuit \in Nat
      /\ pos \in 1 .. Len(parts) + 1 /\ Len(parts) \in Nat /\ settling \in BOOLEAN
  BY DEF RulesType
<1> HIDE DEF V
<1>2. pos = Len(parts) + 1 /\ pos > 1 /\ pos - 1 = Len(parts) /\ ~settling
  BY <1>1 DEF Rules!Ended
<1>3. ~Rules!Enough
  BY <1>2 DEF MachineInv
<1>4. PICK c \in Reduced(ops) : 0 = c[Len(ops)] + 1 - Len(values) + shortCircuit
  BY <1>2 DEF Balanced
<1>5. Len(values) \in Nat /\ Len(ops) \in Nat /\ c[0] = 0 /\ c[Len(ops)] \in Nat
  <2>1. Len(values) \in Nat /\ Len(ops) \in Nat
    BY <1>1
  <2>2. c \in [Nat -> Nat] /\ c[0] = 0
    BY Zenon DEF Reduced
  <2> QED
    BY <2>1, <2>2, Zenon
<1>6. ASSUME ops # <<>> PROVE FALSE
  <2>1. /\ Rules!Last(ops) \in Rules!Operator
        /\ c[Len(ops)] = c[Len(Rules!Front(ops))] + Weight(Rules!Last(ops))
        /\ c[Len(Rules!Front(ops))] \in Nat
    BY <1>1, <1>6, ReducedPop
  <2>2. PICK k \in {1, 2} : k = Rules!Operand(Rules!Last(ops)) /\ Weight(Rules!Last(ops)) = k - 1
    BY <2>1, OperandIs
  <2>3. Len(values) < k
    BY <1>3, <1>5, <1>6, <2>2 DEF Rules!Enough
  <2>4. PICK m \in Nat : c[Len(ops)] = m + (k - 1)
    BY <2>1, <2>2
  <2> QED
    BY <1>1, <1>4, <1>5, <2>3, <2>4
<1>7. ops = <<>> /\ Len(ops) = 0
  BY <1>6
<1>8. 0 = 0 + 1 - Len(values) + shortCircuit
  BY <1>4, <1>5, <1>7
<1>9. Len(values) = 1 + shortCircuit
  BY <1>1, <1>5, <1>8
<1>10. shortCircuit > 0 => Len(values) = 1
  BY DEF MachineInv
<1> QED
  BY <1>1, <1>5, <1>7, <1>9, <1>10

\* Each step keeps the counts, and validate_arity hands them to try_run.
LEMMA CountStep ==
  ASSUME RulesType, MachineInv, CountInv, Rules!Next
  PROVE  CountInv'
<1> DEFINE n == Len(parts)
<1>1. /\ pos \in 1 .. n + 1 /\ n \in Nat /\ pos \in Nat \ {0} /\ mode \in {"arity", "eval"}
      /\ parts \in Seq(Rules!Operator \cup Rules!Truth)
  BY DEF RulesType
<1>2. ASSUME NEW i \in 1 .. n PROVE Weight(parts[i]) \in Int
  <2>1. parts[i] \in Rules!Operator \/ parts[i] \notin Rules!Operator
    OBVIOUS
  <2>2. parts[i] \notin Rules!Operator => Weight(parts[i]) = -1
    BY DEF Weight
  <2> QED
    BY <2>1, <2>2, OperandIs
<1>3. CASE ~Rules!Accept
  <2>1. parts' = parts /\ mode' = mode
    BY <1>3 DEF Rules!Next, Rules!PushOperator, Rules!PushValue, Rules!SkipPart,
       Rules!OperateTop, Rules!ShortCircuitTop, Rules!Settled, Rules!Return
  <2>2. pos' = pos \/ (pos' = pos + 1 /\ pos \in 1 .. n)
    <3>1. pos' = pos \/ (pos' = pos + 1 /\ pos <= n)
      BY <1>3 DEF Rules!Next, Rules!PushOperator, Rules!PushValue, Rules!SkipPart,
         Rules!OperateTop, Rules!ShortCircuitTop, Rules!Settled, Rules!Return, Rules!Reading
    <3> QED
      BY <1>1, <3>1
  <2>3. pos' = pos => pos' # pos + 1
    BY <1>1
  <2>4. ASSUME NEW w \in Counts(parts, n), Balanced(w) PROVE Balanced(w)'
    <3>1. w \in [Nat -> Int] /\ \A i \in 1 .. n : w[i + 1] = w[i] + Weight(parts[i])
      BY DEF Counts
    <3>2. pos' = pos + 1 => w[pos + 1] = w[pos] + Weight(parts[pos])
      BY <2>2, <2>3, <3>1
    <3> QED
      BY <1>3, <2>4, <3>1, <3>2, BalanceStep
  <2>5. ASSUME mode = "arity" PROVE \E w \in Counts(parts, pos' - 1) : Balanced(w)'
    <3>1. PICK w \in Counts(parts, pos - 1) : Balanced(w)
      BY <2>5 DEF CountInv
    <3>2. CASE pos' = pos
      <4>1. w \in [Nat -> Int]
        BY DEF Counts
      <4>2. Balanced(w)'
        BY <1>3, <2>3, <3>1, <3>2, <4>1, BalanceStep
      <4> QED
        BY <3>2, <4>2
    <3>3. CASE pos' = pos + 1 /\ pos \in 1 .. n
      <4>1. PICK v \in Counts(parts, pos) :
               v[pos] = w[pos] /\ v[pos + 1] = v[pos] + Weight(parts[pos])
        BY <1>1, <1>2, <3>3, CountsGoOn
      <4>2. v \in [Nat -> Int] /\ Balanced(v)
        BY <3>1, <4>1 DEF Counts, Balanced
      <4>3. Balanced(v)'
        BY <1>3, <4>1, <4>2, BalanceStep
      <4>4. pos' - 1 = pos
        BY <1>1, <3>3
      <4> QED
        BY <4>3, <4>4
    <3> QED
      BY <2>2, <3>2, <3>3
  <2>6. \A w \in Counts(parts, n) : Balanced(w)'
    BY <2>4 DEF CountInv
  <2>7. mode = "eval" =>
          /\ Len(parts) > 0 /\ parts[Len(parts)] \in Rules!Truth
          /\ \E w \in Counts(parts, Len(parts)) : w[Len(parts) + 1] = 0 /\ Balanced(w)'
    BY <2>6 DEF CountInv
  <2> QED
    BY <2>1, <2>5, <2>6, <2>7 DEF CountInv
<1>4. CASE Rules!Accept
  <2>1. /\ mode = "arity" /\ pos > n /\ ~settling /\ Rules!Outcome = "U"
        /\ mode' = "eval" /\ pos' = 1 /\ values' = <<>>
        /\ UNCHANGED <<parts, shortCircuit, ops>>
    BY <1>4 DEF Rules!Accept, Rules!Ended, Rules!Unit
  <2>2. ops = <<>> /\ shortCircuit = 0 /\ Len(values) = 1
    BY <2>1 DEF Rules!Outcome
  <2>3. pos = n + 1
    BY <1>1, <2>1
  <2>4. ASSUME NEW w, w \in [Nat -> Int], w[1] = 1 PROVE Balanced(w)'
    <3> DEFINE c == [i \in Nat |-> 0]
    <3>1. c \in Reduced(<<>>) /\ c[0] = 0
      BY DEF Reduced
    <3>2. Len(<<>>) = 0 /\ 1 = 0 + 1 - 0 + 0
      OBVIOUS
    <3> HIDE DEF c
    <3>3. w[pos'] = c[Len(ops')] + 1 - Len(values') + shortCircuit'
      BY <2>1, <2>2, <2>4, <3>1, <3>2
    <3> QED
      BY <2>1, <2>2, <3>1, <3>3 DEF Balanced
  <2>5. \A w \in Counts(parts, n) : Balanced(w)'
    BY <2>4 DEF Counts
  <2>6. PICK w \in Counts(parts, n) : Balanced(w)
    <3>1. pos - 1 = n
      BY <1>1, <2>3
    <3> QED
      BY <2>1, <3>1 DEF CountInv
  <2>7. w[n + 1] = 0
    <3>1. PICK c \in Reduced(ops) : w[pos] = c[Len(ops)] + 1 - Len(values) + shortCircuit
      BY <2>6 DEF Balanced
    <3>2. Len(ops) = 0 /\ c[0] = 0
      BY <2>2 DEF Reduced
    <3> QED
      BY <2>2, <2>3, <3>1, <3>2
  <2>8. n > 0
    <3>1. w[1] = 1
      BY DEF Counts
    <3> QED
      BY <1>1, <2>7, <3>1
  <2>9. parts[n] \in Rules!Truth
    <3>1. parts[n] \in Rules!Operator \cup Rules!Truth
      BY <1>1, <2>8
    <3>2. pos > 1 /\ pos - 1 = n
      BY <1>1, <2>3, <2>8
    <3>3. parts[n] \notin Rules!Operator
      BY <2>1, <2>2, <3>2 DEF MachineInv
    <3> QED
      BY <3>1, <3>3
  <2>10. \E v \in Counts(parts, n) : v[n + 1] = 0 /\ Balanced(v)'
    BY <2>5, <2>6, <2>7
  <2>11. mode' # "arity"
    BY <2>1
  <2> QED
    BY <2>1, <2>5, <2>8, <2>9, <2>10, <2>11 DEF CountInv
<1> QED
  BY <1>3, <1>4

\* A condition in Polish notation ends with a value.
LEMMA PrefixEnds ==
  ASSUME RulesType, NEW w \in Counts(parts, Len(parts)), w[Len(parts) + 1] = 0,
         \A i \in 1 .. Len(parts) : w[i] > 0
  PROVE  Len(parts) > 0 /\ parts[Len(parts)] \in Rules!Truth
<1> DEFINE n == Len(parts)
<1>1. n \in Nat /\ parts \in Seq(Rules!Operator \cup Rules!Truth)
  BY DEF RulesType
<1>2. w \in [Nat -> Int] /\ w[1] = 1 /\ \A i \in 1 .. n : w[i + 1] = w[i] + Weight(parts[i])
  BY DEF Counts
<1>3. n \in 1 .. n
  <2>1. n # 0
    BY <1>2
  <2> QED
    BY <1>1, <2>1
<1>4. parts[n] \in Rules!Operator \cup Rules!Truth
  BY <1>1, <1>3
<1>5. ASSUME parts[n] \in Rules!Operator PROVE FALSE
  <2>1. PICK k \in {1, 2} : Weight(parts[n]) = k - 1
    BY <1>5, OperandIs
  <2>2. w[n] > 0 /\ w[n] \in Int /\ 0 = w[n] + Weight(parts[n])
    BY <1>2, <1>3
  <2> QED
    BY <2>1, <2>2
<1> QED
  BY <1>1, <1>3, <1>4, <1>5

LEMMA RulesStart == Rules!Init => RulesInv
<1> SUFFICES ASSUME Rules!Init PROVE RulesInv
  OBVIOUS
<1>1. /\ mode = "arity" /\ result = Rules!None /\ pos = 1 /\ settling = FALSE
      /\ shortCircuit = 0 /\ ops = <<>> /\ values = <<>>
  BY DEF Rules!Init, Rules!NewVM
<1>2. parts \in Seq(Rules!Operator \cup Rules!Truth) /\ Len(parts) \in Nat
  <2>1. PICK n \in 0 .. MaxParts : parts \in [1 .. n -> Rules!Operator \cup Rules!Truth]
    BY DEF Rules!Init
  <2>2. n \in Nat
    BY <2>1
  <2>3. ASSUME NEW S, NEW f \in [1 .. n -> S] PROVE f \in Seq(S)
    BY <2>2
  <2>4. ASSUME NEW S, NEW f \in Seq(S) PROVE Len(f) \in Nat
    OBVIOUS
  <2>5. parts \in Seq(Rules!Operator \cup Rules!Truth)
    BY <2>1, <2>3, Zenon
  <2> QED
    BY <2>4, <2>5, Zenon
<1>3. RulesType
  <2>1. \A n \in Nat : 1 \in 1 .. n + 1
    OBVIOUS
  <2>2. \A S : <<>> \in Seq(S)
    OBVIOUS
  <2>3. pos \in 1 .. Len(parts) + 1 /\ shortCircuit \in Nat
    BY <1>1, <1>2, <2>1
  <2>4. ops \in Seq(Rules!Operator) /\ values \in Seq(IF mode = "arity" THEN {"U"} ELSE Rules!Truth)
    BY <1>1, <2>2, Zenon
  <2> QED
    BY <1>1, <1>2, <2>3, <2>4, Zenon DEF RulesType
<1>4. MachineInv
  BY <1>1 DEF MachineInv
<1>5. ASSUME NEW w, w[1] = 1 PROVE Balanced(w)
  <2> DEFINE c == [i \in Nat |-> 0]
  <2>1. c \in Reduced(<<>>) /\ c[0] = 0
    BY DEF Reduced
  <2> HIDE DEF c
  <2>2. w[pos] = c[Len(ops)] + 1 - Len(values) + shortCircuit
    BY <1>1, <1>5, <2>1
  <2> QED
    BY <1>1, <2>1, <2>2 DEF Balanced
<1>6. \A w \in Counts(parts, Len(parts)) : Balanced(w)
  BY <1>5 DEF Counts
<1>7. \E w \in Counts(parts, pos - 1) : Balanced(w)
  <2> DEFINE w == [i \in Nat |-> 1]
  <2>1. w \in [Nat -> Int] /\ w[1] = 1 /\ pos - 1 = 0 /\ 1 .. 0 = {}
    BY <1>1
  <2> HIDE DEF w
  <2>2. w \in Counts(parts, pos - 1) /\ Balanced(w)
    BY <1>5, <2>1 DEF Counts
  <2> QED
    BY <2>2
<1>8. CountInv
  BY <1>1, <1>6, <1>7 DEF CountInv
<1> QED
  BY <1>1, <1>3, <1>4, <1>8 DEF RulesInv, Rules!AcceptedRulesRun

\* Where try_run returns, it returns a value for a condition in Polish notation.
LEMMA RunAnswers ==
  ASSUME RulesInv, Rules!Ended, mode = "eval" \/ Prefix(parts)
  PROVE  Rules!Outcome \in (IF mode = "arity" THEN {"U"} ELSE Rules!Truth)
<1> DEFINE V == IF mode = "arity" THEN {"U"} ELSE Rules!Truth
<1>1. RulesType /\ MachineInv /\ CountInv
  BY DEF RulesInv
<1>2. PICK w \in Counts(parts, Len(parts)) : w[Len(parts) + 1] = 0 /\ Balanced(w)
        /\ Len(parts) > 0 /\ parts[Len(parts)] \in Rules!Truth
  <2>1. CASE mode = "eval"
    BY <1>1, <2>1 DEF CountInv
  <2>2. CASE Prefix(parts)
    <3>1. PICK w \in Counts(parts, Len(parts)) :
             w[Len(parts) + 1] = 0 /\ \A i \in 1 .. Len(parts) : w[i] > 0
      BY <2>2 DEF Prefix
    <3>2. Balanced(w)
      BY <1>1 DEF CountInv
    <3> QED
      BY <1>1, <3>1, <3>2, PrefixEnds
  <2> QED
    BY <2>1, <2>2
<1>3. w \in [Nat -> Int]
  BY DEF Counts
<1>4. ops = <<>> /\ shortCircuit = 0 /\ Len(values) = 1
  BY <1>1, <1>2, <1>3, Finished
<1>5. values \in Seq(V)
  BY <1>1 DEF RulesType
<1> HIDE DEF V
<1>6. values # <<>> /\ Rules!Last(values) \in V
  BY <1>4, <1>5 DEF Rules!Last
<1> QED
  BY <1>4, <1>6 DEF Rules!Outcome, V

LEMMA RulesStep == RulesInv /\ [Rules!Next]_(Rules!vars) => RulesInv'
<1> SUFFICES ASSUME RulesInv, [Rules!Next]_(Rules!vars) PROVE RulesInv'
  OBVIOUS
<1>1. RulesType /\ MachineInv /\ CountInv /\ Rules!AcceptedRulesRun
        /\ (mode = "arity" /\ result # Rules!None => ~Prefix(parts))
  BY DEF RulesInv
<1>2. CASE UNCHANGED Rules!vars
  <2>1. UNCHANGED <<parts, mode, pos, settling, shortCircuit, ops, values, result>>
    BY <1>2 DEF Rules!vars
  <2> QED
    BY <1>1, <2>1 DEF RulesInv, RulesType, MachineInv, CountInv, Balanced, Prefix,
       Rules!AcceptedRulesRun, Rules!Enough
<1>3. CASE Rules!Next
  <2>1. RulesType' /\ MachineInv' /\ CountInv'
    BY <1>1, <1>3, RulesTypeStep, MachineStep, CountStep
  <2>2. CASE Rules!Return
    <3>1. /\ Rules!Ended /\ Rules!Outcome # "U" /\ result' = Rules!Outcome
          /\ UNCHANGED <<parts, mode>>
      BY <2>2 DEF Rules!Return, Rules!Unit
    <3>2. mode = "eval" => result' \in Rules!Truth
      BY <3>1, RunAnswers
    <3>3. mode = "arity" => ~Prefix(parts)
      BY <3>1, RunAnswers
    <3>4. Rules!AcceptedRulesRun'
      BY <3>1, <3>2 DEF Rules!AcceptedRulesRun, Rules!Truth, Rules!EvalPolishError
    <3> QED
      BY <2>1, <3>1, <3>3, <3>4 DEF RulesInv, Prefix
  <2>3. CASE Rules!Accept
    <3>1. result' = Rules!None /\ mode' = "eval"
      BY <2>3 DEF Rules!Accept, Rules!Ended
    <3>2. Rules!AcceptedRulesRun'
      BY <3>1 DEF Rules!AcceptedRulesRun, Rules!None, Rules!EvalPolishError
    <3> QED
      BY <2>1, <3>1, <3>2 DEF RulesInv
  <2>4. CASE ~Rules!Return /\ ~Rules!Accept
    <3>1. UNCHANGED <<parts, mode, result>>
      BY <1>3, <2>4 DEF Rules!Next, Rules!PushOperator, Rules!PushValue, Rules!SkipPart,
         Rules!OperateTop, Rules!ShortCircuitTop, Rules!Settled
    <3> QED
      BY <1>1, <2>1, <3>1 DEF RulesInv, Rules!AcceptedRulesRun, Prefix
  <2> QED
    BY <2>2, <2>3, <2>4
<1> QED
  BY <1>2, <1>3

\* A condition of any length that validate_arity accepted never makes try_run fail,
\* whatever its atoms evaluate to and whatever is short-circuited.
THEOREM RulesCorrect == Rules!Spec => []StoredRulesRun
<1>1. RulesInv => StoredRulesRun
  BY DEF RulesInv, StoredRulesRun
<1> QED
  BY <1>1, RulesStart, RulesStep, PTL DEF Rules!Spec

\* validate_arity refuses no condition of any length that is one operand written in
\* Polish notation, whatever operators it nests: a rule that the parser wrote into the
\* store can be loaded again.
THEOREM RulesLoad ==
  Rules!Spec => [](mode = "arity" /\ result # Rules!None => ~Prefix(parts))
<1>1. RulesInv => (mode = "arity" /\ result # Rules!None => ~Prefix(parts))
  BY DEF RulesInv
<1> QED
  BY <1>1, RulesStart, RulesStep, PTL DEF Rules!Spec

-----------------------------------------------------------------------------
\* The meaning of a condition: the stacks of the reference, which reads it from the
\* right, before each of its parts.

\* The entries of the reference's stack, a stack with an entry more, and one with some less.
Reference == [value : Rules!Truth, binary : BOOLEAN]
Part == Rules!Operator \cup Rules!Truth
Onto(e, s) == <<e>> \o s
Drop(s, n) == [i \in 1 .. Len(s) - n |-> s[i + n]]

\* What an entry more does to a stack ...
LEMMA OntoIs ==
  ASSUME NEW T, NEW e \in T, NEW s \in Seq(T)
  PROVE  /\ Onto(e, s) \in Seq(T) /\ Len(Onto(e, s)) = Len(s) + 1
         /\ Onto(e, s) # <<>> /\ Onto(e, s)[1] = e
         /\ \A i \in 1 .. Len(s) : Onto(e, s)[i + 1] = s[i]
<1>1. Onto(e, s) \in Seq(T) /\ Len(Onto(e, s)) = Len(s) + 1
  BY DEF Onto
<1>2. Onto(e, s)[1] = e /\ \A i \in 1 .. Len(s) : Onto(e, s)[i + 1] = s[i]
  BY DEF Onto
<1>3. Onto(e, s) # <<>>
  BY <1>1
<1> QED
  BY <1>1, <1>2, <1>3

\* ... and some entries less.
LEMMA DropIs ==
  ASSUME NEW T, NEW s \in Seq(T), NEW n \in 0 .. Len(s)
  PROVE  /\ Drop(s, n) \in Seq(T) /\ Len(Drop(s, n)) = Len(s) - n
         /\ \A i \in 1 .. Len(s) - n : Drop(s, n)[i] = s[i + n]
         /\ n < Len(s) => Drop(s, n) # <<>>
<1>1. Len(s) - n \in Nat /\ \A i \in 1 .. Len(s) - n : i + n \in 1 .. Len(s) /\ s[i + n] \in T
  OBVIOUS
<1>2. Drop(s, n) \in [1 .. Len(s) - n -> T]
  BY <1>1 DEF Drop
<1>3. Drop(s, n) \in Seq(T) /\ Len(Drop(s, n)) = Len(s) - n
  BY <1>1, <1>2
<1>4. \A i \in 1 .. Len(s) - n : Drop(s, n)[i] = s[i + n]
  BY DEF Drop
<1>5. n < Len(s) => Drop(s, n) # <<>>
  BY <1>3
<1> QED
  BY <1>3, <1>4, <1>5

\* Sequences are equal when their lengths and elements are.
LEMMA SameSeq ==
  ASSUME NEW T, NEW s \in Seq(T), NEW t \in Seq(T), Len(s) = Len(t),
         \A i \in 1 .. Len(s) : s[i] = t[i]
  PROVE  s = t
  OBVIOUS

\* The entry that was put on goes first.
LEMMA DropOnto ==
  ASSUME NEW T, NEW e \in T, NEW s \in Seq(T), NEW n \in 0 .. Len(s)
  PROVE  Drop(Onto(e, s), n + 1) = Drop(s, n)
<1>1. /\ Onto(e, s) \in Seq(T) /\ Len(Onto(e, s)) = Len(s) + 1
      /\ \A i \in 1 .. Len(s) : Onto(e, s)[i + 1] = s[i]
  BY OntoIs
<1>2. n + 1 \in 0 .. Len(Onto(e, s)) /\ Len(s) + 1 - (n + 1) = Len(s) - n /\ Len(s) \in Nat
  BY <1>1
<1>3. /\ Drop(Onto(e, s), n + 1) \in Seq(T) /\ Len(Drop(Onto(e, s), n + 1)) = Len(s) - n
      /\ \A i \in 1 .. Len(s) - n : Drop(Onto(e, s), n + 1)[i] = Onto(e, s)[i + (n + 1)]
  <2>1. ASSUME NEW t \in Seq(T), Len(t) = Len(s) + 1
        PROVE  /\ Drop(t, n + 1) \in Seq(T) /\ Len(Drop(t, n + 1)) = Len(s) - n
               /\ \A i \in 1 .. Len(s) - n : Drop(t, n + 1)[i] = t[i + (n + 1)]
    <3>1. n + 1 \in 0 .. Len(t) /\ Len(t) - (n + 1) = Len(s) - n
      BY <2>1, <1>2
    <3>2. /\ Drop(t, n + 1) \in Seq(T) /\ Len(Drop(t, n + 1)) = Len(t) - (n + 1)
          /\ \A i \in 1 .. Len(t) - (n + 1) : Drop(t, n + 1)[i] = t[i + (n + 1)]
      BY <3>1, DropIs, Zenon
    <3> QED
      BY <3>1, <3>2, Zenon
  <2> QED
    BY <1>1, <2>1, Zenon
<1>4. /\ Drop(s, n) \in Seq(T) /\ Len(Drop(s, n)) = Len(s) - n
      /\ \A i \in 1 .. Len(s) - n : Drop(s, n)[i] = s[i + n]
  BY DropIs
<1>5. ASSUME NEW i \in 1 .. Len(s) - n
      PROVE  Drop(Onto(e, s), n + 1)[i] = Drop(s, n)[i]
  <2>1. i + n \in 1 .. Len(s) /\ i + (n + 1) = (i + n) + 1
    BY <1>2
  <2> QED
    BY <1>1, <1>3, <1>4, <2>1
<1> QED
  BY <1>3, <1>4, <1>5, SameSeq

\* Dropping twice drops as many together.
LEMMA DropDrop ==
  ASSUME NEW T, NEW s \in Seq(T), NEW n \in 0 .. Len(s), NEW m \in 0 .. Len(s) - n
  PROVE  Drop(Drop(s, n), m) = Drop(s, n + m)
<1>1. /\ Drop(s, n) \in Seq(T) /\ Len(Drop(s, n)) = Len(s) - n
      /\ \A i \in 1 .. Len(s) - n : Drop(s, n)[i] = s[i + n]
  BY DropIs
<1>2. n + m \in 0 .. Len(s) /\ Len(s) \in Nat /\ Len(s) - n - m = Len(s) - (n + m)
  OBVIOUS
<1>3. /\ Drop(Drop(s, n), m) \in Seq(T) /\ Len(Drop(Drop(s, n), m)) = Len(s) - n - m
      /\ \A i \in 1 .. Len(s) - n - m : Drop(Drop(s, n), m)[i] = Drop(s, n)[i + m]
  BY <1>1, DropIs
<1>4. /\ Drop(s, n + m) \in Seq(T) /\ Len(Drop(s, n + m)) = Len(s) - (n + m)
      /\ \A i \in 1 .. Len(s) - (n + m) : Drop(s, n + m)[i] = s[i + (n + m)]
  BY <1>2, DropIs
<1>5. ASSUME NEW i \in 1 .. Len(s) - n - m
      PROVE  Drop(Drop(s, n), m)[i] = Drop(s, n + m)[i]
  <2>1. i + m \in 1 .. Len(s) - n /\ (i + m) + n = i + (n + m) /\ i \in 1 .. Len(s) - (n + m)
    BY <1>2
  <2> QED
    BY <1>1, <1>3, <1>4, <2>1
<1> QED
  BY <1>2, <1>3, <1>4, <1>5, SameSeq

\* Dropping nothing.
LEMMA DropNone ==
  ASSUME NEW T, NEW s \in Seq(T)
  PROVE  Drop(s, 0) = s
<1>1. 0 \in 0 .. Len(s) /\ Len(s) - 0 = Len(s)
  OBVIOUS
<1>2. /\ Drop(s, 0) \in Seq(T) /\ Len(Drop(s, 0)) = Len(s)
      /\ \A i \in 1 .. Len(s) : Drop(s, 0)[i] = s[i + 0]
  BY <1>1, DropIs
<1>3. \A i \in 1 .. Len(s) : i + 0 = i
  OBVIOUS
<1> QED
  BY <1>2, <1>3, SameSeq

\* Dropping one.
LEMMA TailIs ==
  ASSUME NEW T, NEW s \in Seq(T), Len(s) >= 1
  PROVE  Tail(s) = Drop(s, 1)
<1>1. s # <<>>
  OBVIOUS
<1>2. Tail(s) \in Seq(T) /\ Len(Tail(s)) = Len(s) - 1
  BY <1>1
<1>3. \A i \in 1 .. Len(s) - 1 : Tail(s)[i] = s[i + 1]
  BY <1>1
<1>4. 1 \in 0 .. Len(s)
  OBVIOUS
<1>5. /\ Drop(s, 1) \in Seq(T) /\ Len(Drop(s, 1)) = Len(s) - 1
      /\ \A i \in 1 .. Len(s) - 1 : Drop(s, 1)[i] = s[i + 1]
  BY <1>4, DropIs
<1>6. Len(Tail(s)) = Len(Drop(s, 1)) /\ \A i \in 1 .. Len(Tail(s)) : Tail(s)[i] = Drop(s, 1)[i]
  BY <1>2, <1>3, <1>5, Zenon
<1> QED
  BY <1>2, <1>5, <1>6, SameSeq, Zenon

\* What the operators of the reference do to a stack with enough on it.
LEMMA ReduceIs ==
  ASSUME NEW p \in Part, NEW s \in Seq(Reference)
  PROVE  /\ p \in Rules!Truth => Rules!Reduce(p, s) = Onto(Rules!Entry(p, FALSE), s)
         /\ p = "not" /\ Len(s) >= 1 =>
               Rules!Reduce(p, s) = Onto(Rules!Entry(Rules!Not(s[1].value), s[1].binary), Drop(s, 1))
         /\ p \in {"and", "or"} /\ Len(s) >= 2 =>
               Rules!Reduce(p, s)
                 = Onto(Rules!Entry(Rules!Apply(p, s[1].value, s[2].value), TRUE), Drop(s, 2))
         /\ p \in Rules!Operator /\ Len(s) < Rules!Operand(p) => Rules!Reduce(p, s) = Rules!Bad
         /\ Rules!Reduce(p, Rules!Bad) = Rules!Bad
         /\ s # Rules!Bad
<1>1. s # Rules!Bad
  <2>1. Rules!Bad[1].value = "bad" /\ Len(Rules!Bad) = 1
    BY DEF Rules!Bad, Rules!Entry
  <2>2. Len(s) = 1 => s[1].value \in {"T", "F", "E"}
    <3>1. Len(s) = 1 => s[1] \in Reference
      OBVIOUS
    <3> QED
      BY <3>1 DEF Reference, Rules!Truth
  <2> QED
    BY <2>1, <2>2
<1>2. p \in Rules!Truth => p \notin Rules!Operator
  BY DEF Rules!Truth, Rules!Operator
<1>3. p \in Rules!Truth => Rules!Reduce(p, s) = Onto(Rules!Entry(p, FALSE), s)
  BY <1>1, <1>2 DEF Rules!Reduce, Onto
<1>4. ASSUME p = "not", Len(s) >= 1
      PROVE  Rules!Reduce(p, s) = Onto(Rules!Entry(Rules!Not(s[1].value), s[1].binary), Drop(s, 1))
  <2>1. Rules!Reduce(p, s) = <<[s[1] EXCEPT !.value = Rules!Not(@)]>> \o Tail(s)
    BY <1>1, <1>4 DEF Rules!Reduce, Rules!Operand, Rules!Truth, Rules!Operator
  <2>2. s[1] \in Reference
    BY <1>4
  <2>3. [s[1] EXCEPT !.value = Rules!Not(@)] = Rules!Entry(Rules!Not(s[1].value), s[1].binary)
    BY <2>2 DEF Reference, Rules!Entry
  <2>4. Tail(s) = Drop(s, 1)
    BY <1>4, TailIs
  <2> QED
    BY <2>1, <2>3, <2>4 DEF Onto
<1>5. ASSUME p \in {"and", "or"}, Len(s) >= 2
      PROVE  Rules!Reduce(p, s)
               = Onto(Rules!Entry(Rules!Apply(p, s[1].value, s[2].value), TRUE), Drop(s, 2))
  <2>1. Rules!Reduce(p, s)
          = <<Rules!Entry(Rules!Apply(p, s[1].value, s[2].value), TRUE)>> \o Tail(Tail(s))
    <3>1. ~(Len(s) < 2)
      BY <1>5
    <3> QED
      BY <1>1, <1>5, <3>1, Zenon DEF Rules!Reduce, Rules!Operand, Rules!Truth, Rules!Operator
  <2>2. Tail(Tail(s)) = Drop(s, 2)
    <3>1. Tail(s) = Drop(s, 1) /\ 1 \in 0 .. Len(s) /\ 1 \in 0 .. Len(s) - 1
      BY <1>5, TailIs
    <3>2. Drop(s, 1) \in Seq(Reference) /\ Len(Drop(s, 1)) >= 1
      BY <1>5, <3>1, DropIs
    <3>3. Drop(Drop(s, 1), 1) = Drop(s, 1 + 1)
      BY <3>1, DropDrop
    <3> QED
      BY <3>1, <3>2, <3>3, TailIs
  <2> QED
    BY <2>1, <2>2 DEF Onto
<1>6. p \in Rules!Operator /\ Len(s) < Rules!Operand(p) => Rules!Reduce(p, s) = Rules!Bad
  BY DEF Rules!Reduce
<1>7. Rules!Reduce(p, Rules!Bad) = Rules!Bad
  BY DEF Rules!Reduce
<1> QED
  BY <1>1, <1>3, <1>4, <1>5, <1>6, <1>7

\* What the reference may have on its stack.
Stacks == Seq(Reference) \cup {Rules!Bad}

\* They stay among these.
LEMMA ReduceType ==
  ASSUME NEW p \in Part, NEW s \in Stacks
  PROVE  /\ Rules!Reduce(p, s) \in Stacks /\ Rules!FlatReduce(p, s) \in {Rules!Reduce(p, s), Rules!Bad}
         /\ Rules!FlatReduce(p, Rules!Bad) = Rules!Bad
<1>1. Rules!Reduce(p, s) \in Stacks
  <2>1. CASE s = Rules!Bad
    BY <2>1 DEF Stacks, Rules!Reduce
  <2>2. CASE s \in Seq(Reference)
    <3>1. \A v \in Rules!Truth, b \in BOOLEAN : Rules!Entry(v, b) \in Reference
      BY DEF Rules!Entry, Reference
    <3>2. \A v \in Rules!Truth : Rules!Not(v) \in Rules!Truth
      BY DEF Rules!Not, Rules!Truth
    <3>3. CASE p \in Rules!Truth
      <4>1. Rules!Entry(p, FALSE) \in Reference
        BY <3>1, <3>3
      <4> QED
        <5>1. Onto(Rules!Entry(p, FALSE), s) \in Seq(Reference)
          BY <2>2, <4>1, OntoIs
        <5>2. Rules!Reduce(p, s) = Onto(Rules!Entry(p, FALSE), s)
          BY <2>2, <3>3, ReduceIs
        <5> QED
          BY <5>1, <5>2, Zenon DEF Stacks
    <3>4. CASE p = "not" /\ Len(s) >= 1
      <4>1. s[1].value \in Rules!Truth /\ s[1].binary \in BOOLEAN
        <5>1. s[1] \in Reference
          BY <2>2, <3>4
        <5> QED
          BY <5>1 DEF Reference
      <4>2. Rules!Entry(Rules!Not(s[1].value), s[1].binary) \in Reference
        BY <3>1, <3>2, <4>1
      <4>3. Drop(s, 1) \in Seq(Reference)
        <5>1. 1 \in 0 .. Len(s)
          BY <2>2, <3>4
        <5> QED
          BY <2>2, <5>1, DropIs
      <4> QED
        <5>1. Onto(Rules!Entry(Rules!Not(s[1].value), s[1].binary), Drop(s, 1)) \in Seq(Reference)
          BY <4>2, <4>3, OntoIs
        <5>2. Rules!Reduce(p, s) = Onto(Rules!Entry(Rules!Not(s[1].value), s[1].binary), Drop(s, 1))
          BY <2>2, <3>4, ReduceIs
        <5> QED
          BY <5>1, <5>2, Zenon DEF Stacks
    <3>5. CASE p \in {"and", "or"} /\ Len(s) >= 2
      <4>1. s[1].value \in Rules!Truth /\ s[2].value \in Rules!Truth
        <5>1. s[1] \in Reference /\ s[2] \in Reference
          BY <2>2, <3>5
        <5> QED
          BY <5>1 DEF Reference
      <4>2. Rules!Entry(Rules!Apply(p, s[1].value, s[2].value), TRUE) \in Reference
        BY <3>1, <4>1 DEF Rules!Apply
      <4>3. Drop(s, 2) \in Seq(Reference)
        <5>1. 2 \in 0 .. Len(s)
          BY <2>2, <3>5
        <5> QED
          BY <2>2, <5>1, DropIs
      <4> QED
        <5>1. Onto(Rules!Entry(Rules!Apply(p, s[1].value, s[2].value), TRUE), Drop(s, 2)) \in Seq(Reference)
          BY <4>2, <4>3, OntoIs
        <5>2. Rules!Reduce(p, s) = Onto(Rules!Entry(Rules!Apply(p, s[1].value, s[2].value), TRUE), Drop(s, 2))
          BY <2>2, <3>5, ReduceIs
        <5> QED
          BY <5>1, <5>2, Zenon DEF Stacks
    <3>6. CASE p \in Rules!Operator /\ Len(s) < Rules!Operand(p)
      BY <2>2, <3>6, ReduceIs DEF Stacks
    <3>7. Len(s) \in Nat /\ (p = "not" => Rules!Operand(p) = 1)
          /\ (p \in {"and", "or"} => Rules!Operand(p) = 2)
      BY <2>2 DEF Rules!Operand
    <3>8. p \in Rules!Truth \/ p = "not" \/ p \in {"and", "or"}
      BY DEF Part, Rules!Operator
    <3>9. p \in {"not", "and", "or"} => p \in Rules!Operator
      BY DEF Rules!Operator
    <3>10. Len(s) >= 1 \/ Len(s) < 1
      BY <3>7
    <3>11. Len(s) >= 2 \/ Len(s) < 2
      BY <3>7
    <3> QED
      BY <3>3, <3>4, <3>5, <3>6, <3>7, <3>8, <3>9, <3>10, <3>11, Zenon
  <2> QED
    BY <2>1, <2>2 DEF Stacks
<1>2. Rules!FlatReduce(p, s) \in {Rules!Reduce(p, s), Rules!Bad}
  BY DEF Rules!FlatReduce
<1>3. Rules!FlatReduce(p, Rules!Bad) = Rules!Bad
  BY DEF Rules!FlatReduce, Rules!Reduce
<1> QED
  BY <1>1, <1>2, <1>3

\* A function that is defined along the numbers exists.
Along(g, n, base, G) == g = [i \in 0 .. n |-> IF i = 0 THEN base ELSE G[<<i, g[i - 1]>>]]

\* It exists up to every number, as there is no least one up to which it does not.
LEMMA Recursion ==
  ASSUME NEW T, NEW base \in T, NEW N \in Nat, NEW G \in [(1 .. N) \X T -> T]
  PROVE  \E g \in [0 .. N -> T] : Along(g, N, base, G)
<1> DEFINE Good(n) == \E g \in [0 .. n -> T] : Along(g, n, base, G)
           Without == {n \in 0 .. N : ~Good(n)}
<1>1. SUFFICES ASSUME Without # {} PROVE FALSE
  <2>1. N \in 0 .. N
    OBVIOUS
  <2> QED
    BY <2>1
<1>2. PICK n \in Without : \A m \in Without : n <= m
  <2>1. Without \subseteq Nat
    OBVIOUS
  <2> QED
    BY <1>1, <2>1, LeastNat
<1>3. n # 0
  <2> DEFINE g == [i \in 0 .. 0 |-> base]
  <2>1. g \in [0 .. 0 -> T] /\ Along(g, 0, base, G)
    BY DEF Along
  <2> QED
    BY <1>2, <2>1
<1>4. n \in 1 .. N /\ n - 1 \in 0 .. N /\ Good(n - 1)
  BY <1>2, <1>3
<1>5. PICK g \in [0 .. n - 1 -> T] : Along(g, n - 1, base, G)
  BY <1>4
<1> DEFINE next == G[<<n, g[n - 1]>>]
           h == [i \in 0 .. n |-> IF i = n THEN next ELSE g[i]]
<1>6. next \in T
  <2>1. g[n - 1] \in T /\ <<n, g[n - 1]>> \in (1 .. N) \X T
    BY <1>4, <1>5
  <2> QED
    BY <2>1
<1>7. \A i \in 0 .. n - 1 : g[i] \in T /\ g[i] = IF i = 0 THEN base ELSE G[<<i, g[i - 1]>>]
  BY <1>5 DEF Along
<1> HIDE DEF next
<1>8. h \in [0 .. n -> T]
  <2>1. ASSUME NEW i \in 0 .. n PROVE (IF i = n THEN next ELSE g[i]) \in T
    <3>1. i # n => i \in 0 .. n - 1
      BY <1>4
    <3> QED
      BY <1>6, <1>7, <3>1
  <2> QED
    BY <2>1
<1>9. \A i \in 0 .. n : h[i] = IF i = n THEN next ELSE g[i]
  OBVIOUS
<1>10. h = [i \in 0 .. n |-> h[i]]
  OBVIOUS
<1> HIDE DEF h
<1>11. ASSUME NEW i \in 0 .. n PROVE h[i] = IF i = 0 THEN base ELSE G[<<i, h[i - 1]>>]
  <2>1. CASE i = n
    <3>1. i # 0 /\ i - 1 \in 0 .. n /\ i - 1 # n
      BY <1>4, <2>1
    <3> QED
      BY <1>9, <2>1, <3>1 DEF next
  <2>2. CASE i # n
    <3>1. i \in 0 .. n - 1 /\ (i # 0 => i - 1 \in 0 .. n /\ i - 1 # n)
      BY <1>4, <2>2
    <3> QED
      BY <1>7, <1>9, <2>2, <3>1
  <2> QED
    BY <2>1, <2>2
<1>12. Along(h, n, base, G)
  BY <1>10, <1>11 DEF Along
<1> QED
  BY <1>2, <1>8, <1>12

\* The stacks of the reference, from the right.
LEMMA ReadIs ==
  ASSUME NEW seq \in Seq(Part)
  PROVE  \E f \in [0 .. Len(seq) -> Stacks] :
            /\ f[0] = <<>> /\ f[Len(seq)] = Rules!Read(seq)
            /\ \A n \in 1 .. Len(seq) : f[n] = Rules!Reduce(seq[Len(seq) + 1 - n], f[n - 1])
<1> DEFINE N == Len(seq)
           f == CHOOSE f : f = [n \in 0 .. Len(seq) |->
                   IF n = 0 THEN <<>> ELSE Rules!Reduce(seq[Len(seq) + 1 - n], f[n - 1])]
<1>1. Rules!Read(seq) = f[Len(seq)]
  BY DEF Rules!Read
<1>2. N \in Nat /\ \A n \in 1 .. N : seq[N + 1 - n] \in Part
  <2>1. ASSUME NEW n \in 1 .. N PROVE N + 1 - n \in 1 .. N
    OBVIOUS
  <2> QED
    BY <2>1
<1>3. ASSUME NEW n \in 1 .. N, NEW s \in Stacks
      PROVE  Rules!Reduce(seq[N + 1 - n], s) \in Stacks
  BY <1>2, ReduceType DEF Stacks
<1>4. <<>> \in Stacks
  BY DEF Stacks
<1>5. \E g : g = [n \in 0 .. N |-> IF n = 0 THEN <<>> ELSE Rules!Reduce(seq[N + 1 - n], g[n - 1])]
  <2> DEFINE G == [x \in (1 .. N) \X Stacks |-> Rules!Reduce(seq[N + 1 - x[1]], x[2])]
  <2>1. G \in [(1 .. N) \X Stacks -> Stacks]
    <3>1. ASSUME NEW x \in (1 .. N) \X Stacks PROVE Rules!Reduce(seq[N + 1 - x[1]], x[2]) \in Stacks
      <4>1. x[1] \in 1 .. N /\ x[2] \in Stacks
        OBVIOUS
      <4> QED
        BY <1>3, <4>1
    <3> QED
      BY <3>1
  <2>2. \A n \in 1 .. N, s \in Stacks : G[<<n, s>>] = Rules!Reduce(seq[N + 1 - n], s)
    OBVIOUS
  <2> HIDE DEF G, N
  <2>3. PICK g \in [0 .. N -> Stacks] : Along(g, N, <<>>, G)
    BY <1>2, <1>4, <2>1, Recursion
  <2>4. \A n \in 0 .. N : n # 0 => G[<<n, g[n - 1]>>] = Rules!Reduce(seq[N + 1 - n], g[n - 1])
    <3>1. ASSUME NEW n \in 0 .. N, n # 0 PROVE n \in 1 .. N /\ g[n - 1] \in Stacks
      <4>1. n \in 1 .. N /\ n - 1 \in 0 .. N
        BY <1>2, <3>1
      <4> QED
        BY <2>3, <4>1
    <3> QED
      BY <2>2, <3>1
  <2>5. g = [n \in 0 .. N |-> IF n = 0 THEN <<>> ELSE Rules!Reduce(seq[N + 1 - n], g[n - 1])]
    BY <2>3, <2>4 DEF Along
  <2> QED
    BY <2>5
<1>6. f = [n \in 0 .. N |-> IF n = 0 THEN <<>> ELSE Rules!Reduce(seq[N + 1 - n], f[n - 1])]
  BY <1>5, Zenon
<1> HIDE DEF f
<1>7. f[0] = <<>> /\ \A n \in 1 .. N : f[n] = Rules!Reduce(seq[N + 1 - n], f[n - 1])
  <2>1. 0 \in 0 .. N /\ \A n \in 1 .. N : n \in 0 .. N /\ n # 0
    BY <1>2
  <2> HIDE DEF N
  <2> QED
    BY <1>6, <2>1, Zenon
<1>8. \A n \in 0 .. N : f[n] \in Stacks
  <2> DEFINE Bads == {n \in 0 .. N : f[n] \notin Stacks}
  <2>1. SUFFICES ASSUME Bads # {} PROVE FALSE
    OBVIOUS
  <2>2. PICK n \in Bads : \A m \in Bads : n <= m
    <3>1. Bads \subseteq Nat
      OBVIOUS
    <3> QED
      BY <2>1, <3>1, LeastNat
  <2>3. n # 0
    BY <1>4, <1>7, <2>2
  <2>4. n \in 1 .. N /\ n - 1 \in 0 .. N /\ ~(n <= n - 1)
    BY <1>2, <2>2, <2>3
  <2>5. f[n - 1] \in Stacks
    BY <2>2, <2>4
  <2> QED
    BY <1>3, <1>7, <2>2, <2>4, <2>5
<1>9. f \in [0 .. N -> Stacks]
  <2>1. f = [n \in 0 .. N |-> f[n]]
    BY <1>6
  <2> QED
    BY <1>8, <2>1
<1> QED
  BY <1>1, <1>7, <1>9

\* The same with no binary operator in a right operand.
LEMMA FlatReadIs ==
  ASSUME NEW seq \in Seq(Part)
  PROVE  \E f \in [0 .. Len(seq) -> Stacks] :
            /\ f[0] = <<>> /\ f[Len(seq)] = Rules!FlatRead(seq)
            /\ \A n \in 1 .. Len(seq) : f[n] = Rules!FlatReduce(seq[Len(seq) + 1 - n], f[n - 1])
<1> DEFINE N == Len(seq)
           f == CHOOSE f : f = [n \in 0 .. Len(seq) |->
                   IF n = 0 THEN <<>> ELSE Rules!FlatReduce(seq[Len(seq) + 1 - n], f[n - 1])]
<1>1. Rules!FlatRead(seq) = f[Len(seq)]
  BY DEF Rules!FlatRead
<1>2. N \in Nat /\ \A n \in 1 .. N : seq[N + 1 - n] \in Part
  <2>1. ASSUME NEW n \in 1 .. N PROVE N + 1 - n \in 1 .. N
    OBVIOUS
  <2> QED
    BY <2>1
<1>3. ASSUME NEW n \in 1 .. N, NEW s \in Stacks
      PROVE  Rules!FlatReduce(seq[N + 1 - n], s) \in Stacks
  BY <1>2, ReduceType DEF Stacks
<1>4. <<>> \in Stacks
  BY DEF Stacks
<1>5. \E g : g = [n \in 0 .. N |-> IF n = 0 THEN <<>> ELSE Rules!FlatReduce(seq[N + 1 - n], g[n - 1])]
  <2> DEFINE G == [x \in (1 .. N) \X Stacks |-> Rules!FlatReduce(seq[N + 1 - x[1]], x[2])]
  <2>1. G \in [(1 .. N) \X Stacks -> Stacks]
    <3>1. ASSUME NEW x \in (1 .. N) \X Stacks PROVE Rules!FlatReduce(seq[N + 1 - x[1]], x[2]) \in Stacks
      <4>1. x[1] \in 1 .. N /\ x[2] \in Stacks
        OBVIOUS
      <4> QED
        BY <1>3, <4>1
    <3> QED
      BY <3>1
  <2>2. \A n \in 1 .. N, s \in Stacks : G[<<n, s>>] = Rules!FlatReduce(seq[N + 1 - n], s)
    OBVIOUS
  <2> HIDE DEF G, N
  <2>3. PICK g \in [0 .. N -> Stacks] : Along(g, N, <<>>, G)
    BY <1>2, <1>4, <2>1, Recursion
  <2>4. \A n \in 0 .. N : n # 0 => G[<<n, g[n - 1]>>] = Rules!FlatReduce(seq[N + 1 - n], g[n - 1])
    <3>1. ASSUME NEW n \in 0 .. N, n # 0 PROVE n \in 1 .. N /\ g[n - 1] \in Stacks
      <4>1. n \in 1 .. N /\ n - 1 \in 0 .. N
        BY <1>2, <3>1
      <4> QED
        BY <2>3, <4>1
    <3> QED
      BY <2>2, <3>1
  <2>5. g = [n \in 0 .. N |-> IF n = 0 THEN <<>> ELSE Rules!FlatReduce(seq[N + 1 - n], g[n - 1])]
    BY <2>3, <2>4 DEF Along
  <2> QED
    BY <2>5
<1>6. f = [n \in 0 .. N |-> IF n = 0 THEN <<>> ELSE Rules!FlatReduce(seq[N + 1 - n], f[n - 1])]
  BY <1>5, Zenon
<1> HIDE DEF f
<1>7. f[0] = <<>> /\ \A n \in 1 .. N : f[n] = Rules!FlatReduce(seq[N + 1 - n], f[n - 1])
  <2>1. 0 \in 0 .. N /\ \A n \in 1 .. N : n \in 0 .. N /\ n # 0
    BY <1>2
  <2> HIDE DEF N
  <2> QED
    BY <1>6, <2>1, Zenon
<1>8. \A n \in 0 .. N : f[n] \in Stacks
  <2> DEFINE Bads == {n \in 0 .. N : f[n] \notin Stacks}
  <2>1. SUFFICES ASSUME Bads # {} PROVE FALSE
    OBVIOUS
  <2>2. PICK n \in Bads : \A m \in Bads : n <= m
    <3>1. Bads \subseteq Nat
      OBVIOUS
    <3> QED
      BY <2>1, <3>1, LeastNat
  <2>3. n # 0
    BY <1>4, <1>7, <2>2
  <2>4. n \in 1 .. N /\ n - 1 \in 0 .. N /\ ~(n <= n - 1)
    BY <1>2, <2>2, <2>3
  <2>5. f[n - 1] \in Stacks
    BY <2>2, <2>4
  <2> QED
    BY <1>3, <1>7, <2>2, <2>4, <2>5
<1>9. f \in [0 .. N -> Stacks]
  <2>1. f = [n \in 0 .. N |-> f[n]]
    BY <1>6
  <2> QED
    BY <1>8, <2>1
<1> QED
  BY <1>1, <1>7, <1>9

\* The stacks before each part.
ReadsTo(seq, h) ==
    /\ h \in [1 .. Len(seq) + 1 -> Seq(Reference)]
    /\ h[Len(seq) + 1] = <<>> /\ Len(h[1]) = 1
    /\ \A i \in 1 .. Len(seq) : h[i] = Rules!Reduce(seq[i], h[i + 1])

\* No right operand has a binary operator.
FlatReadsTo(seq, h) ==
    /\ ReadsTo(seq, h)
    /\ \A i \in 1 .. Len(seq) : h[i] = Rules!FlatReduce(seq[i], h[i + 1])

\* Turned round: what is left of the part it stands before.
LEMMA TurnRound ==
  ASSUME NEW seq \in Seq(Part), NEW f \in [0 .. Len(seq) -> Seq(Reference)],
         f[0] = <<>>, Len(f[Len(seq)]) = 1,
         \A n \in 1 .. Len(seq) : f[n] = Rules!Reduce(seq[Len(seq) + 1 - n], f[n - 1])
  PROVE  LET h == [i \in 1 .. Len(seq) + 1 |-> f[Len(seq) + 1 - i]]
         IN  ReadsTo(seq, h) /\ h[1] = f[Len(seq)]
<1> DEFINE N == Len(seq)
           h == [i \in 1 .. N + 1 |-> f[N + 1 - i]]
<1>1. N \in Nat /\ 1 \in 1 .. N + 1 /\ N + 1 \in 1 .. N + 1
  OBVIOUS
<1>2. ASSUME NEW i \in 1 .. N + 1 PROVE N + 1 - i \in 0 .. N
  OBVIOUS
<1>3. h \in [1 .. N + 1 -> Seq(Reference)]
  BY <1>2
<1>4. h[1] = f[N] /\ h[N + 1] = f[0]
  BY <1>1
<1>5. ASSUME NEW i \in 1 .. N PROVE h[i] = Rules!Reduce(seq[i], h[i + 1])
  <2>1. /\ N + 1 - i \in 1 .. N /\ N + 1 - (N + 1 - i) = i /\ N + 1 - (i + 1) = N + 1 - i - 1
        /\ i \in 1 .. N + 1 /\ i + 1 \in 1 .. N + 1
    BY <1>1
  <2>2. h[i] = f[N + 1 - i] /\ h[i + 1] = f[N + 1 - i - 1]
    BY <2>1
  <2>3. f[N + 1 - i] = Rules!Reduce(seq[i], f[N + 1 - i - 1])
    BY <2>1
  <2> QED
    BY <2>2, <2>3, Zenon
<1> HIDE DEF h
<1>6. ReadsTo(seq, h)
  BY <1>3, <1>4, <1>5 DEF ReadsTo
<1> QED
  BY <1>4, <1>6 DEF h

\* A stack that is bad stays so.
LEMMA NeverBad ==
  ASSUME NEW N \in Nat, NEW f \in [0 .. N -> Stacks], f[N] # Rules!Bad,
         \A n \in 1 .. N : f[n - 1] = Rules!Bad => f[n] = Rules!Bad
  PROVE  f \in [0 .. N -> Seq(Reference)]
<1>1. ASSUME NEW k \in 0 .. N, f[k] = Rules!Bad PROVE FALSE
  <2> DEFINE Good == {m \in k .. N : f[m] # Rules!Bad}
  <2>1. Good \subseteq Nat /\ N \in Good
    OBVIOUS
  <2>2. PICK n \in Good : \A m \in Good : n <= m
    BY <2>1, LeastNat
  <2>3. n # k /\ n \in k .. N
    BY <1>1, <2>2
  <2>4. n - 1 \in k .. N /\ n \in 1 .. N /\ ~(n <= n - 1)
    BY <2>3
  <2>5. f[n - 1] = Rules!Bad
    BY <2>2, <2>4
  <2> QED
    BY <2>2, <2>4, <2>5
<1>2. \A n \in 0 .. N : f[n] \in Seq(Reference)
  BY <1>1 DEF Stacks
<1> QED
  BY <1>2

\* An expression that is written properly has such stacks.
LEMMA WellReads ==
  ASSUME NEW seq \in Seq(Part), Rules!WellFormed(seq)
  PROVE  \E h : ReadsTo(seq, h) /\ h[1] = Rules!Read(seq)
<1>1. PICK f \in [0 .. Len(seq) -> Stacks] :
         /\ f[0] = <<>> /\ f[Len(seq)] = Rules!Read(seq)
         /\ \A n \in 1 .. Len(seq) : f[n] = Rules!Reduce(seq[Len(seq) + 1 - n], f[n - 1])
  BY ReadIs
<1>2. f[Len(seq)] # Rules!Bad /\ Len(f[Len(seq)]) = 1
  BY <1>1 DEF Rules!WellFormed
<1>3. \A p : Rules!Reduce(p, Rules!Bad) = Rules!Bad
  BY DEF Rules!Reduce
<1>4. Len(seq) \in Nat /\ \A n \in 1 .. Len(seq) : f[n - 1] = Rules!Bad => f[n] = Rules!Bad
  BY <1>1, <1>3
<1>5. f \in [0 .. Len(seq) -> Seq(Reference)]
  BY <1>2, <1>4, NeverBad
<1> DEFINE h == [i \in 1 .. Len(seq) + 1 |-> f[Len(seq) + 1 - i]]
<1>6. ReadsTo(seq, h) /\ h[1] = f[Len(seq)]
  BY <1>1, <1>2, <1>5, TurnRound
<1> QED
  BY <1>1, <1>6

\* So has one without operators in right operands.
LEMMA FlatReads ==
  ASSUME NEW seq \in Seq(Part), Rules!WellFormed(seq), Rules!Flat(seq)
  PROVE  \E h : FlatReadsTo(seq, h) /\ h[1] = Rules!Read(seq)
<1>1. PICK f \in [0 .. Len(seq) -> Stacks] :
         /\ f[0] = <<>> /\ f[Len(seq)] = Rules!FlatRead(seq)
         /\ \A n \in 1 .. Len(seq) : f[n] = Rules!FlatReduce(seq[Len(seq) + 1 - n], f[n - 1])
  BY FlatReadIs
<1>2. PICK g \in [0 .. Len(seq) -> Stacks] :
         /\ g[0] = <<>> /\ g[Len(seq)] = Rules!Read(seq)
         /\ \A n \in 1 .. Len(seq) : g[n] = Rules!Reduce(seq[Len(seq) + 1 - n], g[n - 1])
  BY ReadIs
<1> DEFINE N == Len(seq)
<1>3. N \in Nat /\ \A n \in 1 .. N : seq[N + 1 - n] \in Part
  <2>1. ASSUME NEW n \in 1 .. N PROVE N + 1 - n \in 1 .. N
    OBVIOUS
  <2> QED
    BY <2>1
<1>4. f[N] # Rules!Bad
  BY <1>1 DEF Rules!Flat
<1> HIDE DEF N
<1>5. ASSUME NEW n \in 1 .. N
      PROVE  /\ f[n - 1] = Rules!Bad => f[n] = Rules!Bad
             /\ f[n] # Rules!Bad => f[n] = Rules!Reduce(seq[N + 1 - n], f[n - 1])
  <2>1. f[n] = Rules!FlatReduce(seq[N + 1 - n], f[n - 1]) /\ f[n - 1] \in Stacks
    <3>1. n - 1 \in 0 .. N
      BY <1>3
    <3> QED
      BY <1>1, <3>1 DEF N
  <2>2. seq[N + 1 - n] \in Part
    BY <1>3
  <2>3. Rules!FlatReduce(seq[N + 1 - n], Rules!Bad) = Rules!Bad
    BY <2>2, ReduceType DEF Stacks
  <2>4. Rules!FlatReduce(seq[N + 1 - n], f[n - 1])
          \in {Rules!Reduce(seq[N + 1 - n], f[n - 1]), Rules!Bad}
    BY <2>1, <2>2, ReduceType
  <2> QED
    BY <2>1, <2>3, <2>4
<1>6. f \in [0 .. N -> Seq(Reference)]
  BY <1>1, <1>3, <1>4, <1>5, NeverBad DEF N
<1>7. \A n \in 0 .. N : f[n] # Rules!Bad
  <2>1. \A s \in Seq(Reference) : s # Rules!Bad
    BY ReduceIs, Zenon DEF Part, Rules!Truth
  <2> QED
    BY <1>6, <2>1
<1>8. \A n \in 1 .. N : f[n] = Rules!Reduce(seq[N + 1 - n], f[n - 1])
  BY <1>3, <1>5, <1>7
<1>9. f[N] = g[N]
  <2> DEFINE Other == {n \in 0 .. N : f[n] # g[n]}
  <2>1. SUFFICES ASSUME Other # {} PROVE FALSE
    BY <1>3
  <2>2. PICK n \in Other : \A m \in Other : n <= m
    <3>1. Other \subseteq Nat
      OBVIOUS
    <3> QED
      BY <2>1, <3>1, LeastNat
  <2>3. n # 0
    BY <1>1, <1>2, <2>2
  <2>4. n \in 1 .. N /\ n - 1 \in 0 .. N /\ ~(n <= n - 1)
    BY <1>3, <2>2, <2>3
  <2>5. f[n - 1] = g[n - 1]
    BY <2>2, <2>4
  <2>6. f[n] = Rules!Reduce(seq[N + 1 - n], f[n - 1]) /\ g[n] = Rules!Reduce(seq[N + 1 - n], g[n - 1])
    BY <1>2, <1>8, <2>4 DEF N
  <2> QED
    BY <2>2, <2>5, <2>6
<1> DEFINE h == [i \in 1 .. Len(seq) + 1 |-> f[Len(seq) + 1 - i]]
<1>10. ReadsTo(seq, h) /\ h[1] = f[Len(seq)]
  <2>1. Len(f[Len(seq)]) = 1
    BY <1>2, <1>9 DEF N, Rules!WellFormed
  <2> QED
    BY <1>1, <1>6, <1>8, <2>1, TurnRound DEF N
<1>11. ASSUME NEW i \in 1 .. N PROVE h[i] = Rules!FlatReduce(seq[i], h[i + 1])
  <2>1. /\ N + 1 - i \in 1 .. N /\ N + 1 - (N + 1 - i) = i /\ N + 1 - (i + 1) = N + 1 - i - 1
        /\ i \in 1 .. N + 1 /\ i + 1 \in 1 .. N + 1
    BY <1>3
  <2>2. h[i] = f[N + 1 - i] /\ h[i + 1] = f[N + 1 - i - 1]
    BY <2>1 DEF N
  <2>3. f[N + 1 - i] = Rules!FlatReduce(seq[i], f[N + 1 - i - 1])
    BY <1>1, <2>1 DEF N
  <2> QED
    BY <2>2, <2>3, Zenon
<1> HIDE DEF h
<1>12. FlatReadsTo(seq, h)
  BY <1>10, <1>11 DEF FlatReadsTo, N
<1> QED
  BY <1>2, <1>9, <1>10, <1>12 DEF N

\* What the parts do to such stacks.
LEMMA ReadsToStep ==
  ASSUME NEW seq \in Seq(Part), NEW h, ReadsTo(seq, h), NEW i \in 1 .. Len(seq)
  PROVE  /\ h[i] \in Seq(Reference) /\ h[i + 1] \in Seq(Reference) /\ h[i] # <<>>
         /\ seq[i] \in Rules!Truth => h[i] = Onto(Rules!Entry(seq[i], FALSE), h[i + 1])
         /\ seq[i] = "not" =>
               /\ Len(h[i + 1]) >= 1
               /\ h[i] = Onto(Rules!Entry(Rules!Not(h[i + 1][1].value), h[i + 1][1].binary),
                              Drop(h[i + 1], 1))
         /\ seq[i] \in {"and", "or"} =>
               /\ Len(h[i + 1]) >= 2
               /\ h[i] = Onto(Rules!Entry(Rules!Apply(seq[i], h[i + 1][1].value, h[i + 1][2].value), TRUE),
                              Drop(h[i + 1], 2))
<1>1. /\ seq[i] \in Part /\ i \in 1 .. Len(seq) + 1 /\ i + 1 \in 1 .. Len(seq) + 1
  OBVIOUS
<1>2. h[i] \in Seq(Reference) /\ h[i + 1] \in Seq(Reference) /\ h[i] = Rules!Reduce(seq[i], h[i + 1])
  BY <1>1 DEF ReadsTo
<1>3. h[i] # Rules!Bad
  BY <1>1, <1>2, ReduceIs
<1>4. /\ Rules!Operand("not") = 1 /\ Rules!Operand("and") = 2 /\ Rules!Operand("or") = 2
      /\ {"not", "and", "or"} = Rules!Operator
  BY DEF Rules!Operand, Rules!Operator
<1>5. seq[i] \in Rules!Operator => ~(Len(h[i + 1]) < Rules!Operand(seq[i]))
  BY <1>1, <1>2, <1>3, ReduceIs
<1>6. Len(h[i + 1]) \in Nat
  BY <1>2
<1>7. (seq[i] = "not" => Len(h[i + 1]) >= 1) /\ (seq[i] \in {"and", "or"} => Len(h[i + 1]) >= 2)
  BY <1>4, <1>5, <1>6
<1>8. ASSUME NEW e, NEW s \in Seq(Reference) PROVE Onto(e, s) # <<>>
  <2>1. s \in Seq(Reference \cup {e})
    OBVIOUS
  <2> QED
    BY <2>1, OntoIs
<1>9. CASE seq[i] \in Rules!Truth
  <2>1. h[i] = Onto(Rules!Entry(seq[i], FALSE), h[i + 1])
    BY <1>1, <1>2, <1>9, ReduceIs
  <2>2. h[i] # <<>>
    BY <1>2, <1>8, <2>1
  <2> QED
    BY <1>2, <1>9, <2>1, <2>2 DEF Rules!Truth
<1>10. CASE seq[i] = "not"
  <2>1. h[i] = Onto(Rules!Entry(Rules!Not(h[i + 1][1].value), h[i + 1][1].binary), Drop(h[i + 1], 1))
    BY <1>1, <1>2, <1>7, <1>10, ReduceIs
  <2>2. 1 \in 0 .. Len(h[i + 1])
    BY <1>6, <1>7, <1>10
  <2>3. Drop(h[i + 1], 1) \in Seq(Reference)
    BY <1>2, <2>2, DropIs
  <2>4. h[i] # <<>>
    BY <1>8, <2>1, <2>3
  <2> QED
    BY <1>2, <1>7, <1>10, <2>1, <2>4 DEF Rules!Truth
<1>11. CASE seq[i] \in {"and", "or"}
  <2>1. h[i] = Onto(Rules!Entry(Rules!Apply(seq[i], h[i + 1][1].value, h[i + 1][2].value), TRUE),
                    Drop(h[i + 1], 2))
    BY <1>1, <1>2, <1>7, <1>11, ReduceIs
  <2>2. 2 \in 0 .. Len(h[i + 1])
    BY <1>6, <1>7, <1>11
  <2>3. Drop(h[i + 1], 2) \in Seq(Reference)
    BY <1>2, <2>2, DropIs
  <2>4. h[i] # <<>>
    BY <1>8, <2>1, <2>3
  <2> QED
    BY <1>2, <1>7, <1>11, <2>1, <2>4 DEF Rules!Truth
<1> QED
  BY <1>1, <1>4, <1>9, <1>10, <1>11 DEF Part

\* Read properly from the right is Polish notation, read from the left.
LEMMA WellFormedIsPrefix ==
  ASSUME NEW seq \in Seq(Part), Rules!WellFormed(seq)
  PROVE  Prefix(seq)
<1>1. PICK h : ReadsTo(seq, h)
  BY WellReads
<1> DEFINE N == Len(seq)
           w == [i \in Nat |-> IF i \in 1 .. N + 1 THEN Len(h[i]) ELSE 0]
<1>2. N \in Nat /\ \A i \in 1 .. N + 1 : h[i] \in Seq(Reference)
  BY <1>1 DEF ReadsTo
<1>3. w \in [Nat -> Int] /\ \A i \in 1 .. N + 1 : w[i] = Len(h[i])
  <2>1. \A i \in 1 .. N + 1 : Len(h[i]) \in Int /\ i \in Nat
    BY <1>2
  <2> QED
    BY <2>1
<1> HIDE DEF w
<1>4. w[1] = 1 /\ w[N + 1] = 0
  <2>1. 1 \in 1 .. N + 1 /\ N + 1 \in 1 .. N + 1 /\ Len(<<>>) = 0
    BY <1>2
  <2> QED
    BY <1>1, <1>3, <2>1 DEF ReadsTo
<1>5. ASSUME NEW i \in 1 .. N PROVE w[i + 1] = w[i] + Weight(seq[i]) /\ w[i] > 0
  <2> DEFINE s == h[i + 1]
  <2>1. i \in 1 .. N + 1 /\ i + 1 \in 1 .. N + 1 /\ seq[i] \in Part
    BY <1>2
  <2>2. w[i] = Len(h[i]) /\ w[i + 1] = Len(s)
    BY <1>3, <2>1
  <2>3. s \in Seq(Reference) /\ Len(s) \in Nat
    BY <1>2, <2>1
  <2>4. ASSUME NEW e, NEW t \in Seq(Reference) PROVE Len(Onto(e, t)) = Len(t) + 1
    <3>1. t \in Seq(Reference \cup {e})
      OBVIOUS
    <3> QED
      BY <3>1, OntoIs
  <2>5. ASSUME NEW n \in 0 .. Len(s) PROVE Drop(s, n) \in Seq(Reference) /\ Len(Drop(s, n)) = Len(s) - n
    BY <2>3, DropIs
  <2>6. CASE seq[i] \in Rules!Truth
    <3>1. h[i] = Onto(Rules!Entry(seq[i], FALSE), s)
      BY <1>1, <2>6, ReadsToStep
    <3>2. Len(h[i]) = Len(s) + 1 /\ Weight(seq[i]) = -1
      BY <2>3, <2>4, <2>6, <3>1 DEF Weight, Rules!Truth, Rules!Operator
    <3> QED
      BY <2>2, <2>3, <3>2
  <2>7. CASE seq[i] = "not"
    <3>1. /\ Len(s) >= 1
          /\ h[i] = Onto(Rules!Entry(Rules!Not(s[1].value), s[1].binary), Drop(s, 1))
      BY <1>1, <2>7, ReadsToStep
    <3>2. 1 \in 0 .. Len(s)
      BY <2>3, <3>1
    <3>3. Len(h[i]) = Len(s) - 1 + 1
      BY <2>4, <2>5, <3>1, <3>2
    <3>4. Weight(seq[i]) = 0
      BY <2>7 DEF Weight, Rules!Operator, Rules!Operand
    <3>5. w[i] = w[i + 1] /\ w[i + 1] \in Nat /\ w[i + 1] >= 1
      BY <2>2, <2>3, <3>1, <3>3
    <3> QED
      BY <3>4, <3>5
  <2>8. CASE seq[i] \in {"and", "or"}
    <3>1. /\ Len(s) >= 2
          /\ h[i] = Onto(Rules!Entry(Rules!Apply(seq[i], s[1].value, s[2].value), TRUE), Drop(s, 2))
      BY <1>1, <2>8, ReadsToStep
    <3>2. 2 \in 0 .. Len(s)
      BY <2>3, <3>1
    <3>3. Len(h[i]) = Len(s) - 2 + 1
      BY <2>4, <2>5, <3>1, <3>2
    <3>4. Weight(seq[i]) = 1
      BY <2>8 DEF Weight, Rules!Operator, Rules!Operand
    <3>5. \A n \in Nat : n >= 2 => n = n - 2 + 1 + 1 /\ n - 2 + 1 \in Nat /\ n - 2 + 1 > 0
      OBVIOUS
    <3>6. w[i + 1] = w[i] + 1 /\ w[i] \in Nat /\ w[i] > 0
      BY <2>2, <2>3, <3>1, <3>3, <3>5, Zenon
    <3> QED
      BY <3>4, <3>6
  <2> QED
    BY <2>1, <2>6, <2>7, <2>8 DEF Part, Rules!Operator
<1>6. w \in Counts(seq, N)
  BY <1>3, <1>4, <1>5 DEF Counts
<1> QED
  BY <1>4, <1>5, <1>6 DEF Prefix

-----------------------------------------------------------------------------
\* Conjunctions.

\* The first value that is not true among the parts up to n decides, if there is one.
Sofar(v, n) ==
    \/ v = "T" /\ \A i \in 1 .. n : parts[i] \in Rules!Truth => parts[i] = "T"
    \/ /\ v \in {"F", "E"}
       /\ \E j \in 1 .. n : /\ parts[j] = v
                            /\ \A i \in 1 .. j - 1 : parts[i] \in Rules!Truth => parts[i] = "T"

\* While nothing has decided every value was true; once something has, the operators
\* go before another part is read.
ConjunctionInv ==
    /\ ops \in Seq({"and"})
    /\ Len(values) <= 2
    /\ values = <<>> => /\ ~settling /\ shortCircuit = 0
                        /\ \A i \in 1 .. pos - 1 : parts[i] \notin Rules!Truth
    /\ Len(values) = 1 => /\ Sofar(values[1], pos - 1)
                          /\ shortCircuit > 0 => values[1] # "T"
                          /\ ~settling /\ values[1] # "T" => ops = <<>>
    /\ Len(values) = 2 => /\ settling /\ shortCircuit = 0 /\ ops # <<>>
                          /\ values[1] = "T" /\ Sofar(values[2], pos - 1)

ConjunctionDecides ==
    mode = "eval" /\ Rules!Conjunction(parts) /\ Prefix(parts) =>
        /\ ConjunctionInv
        /\ result # Rules!None => Sofar(result, Len(parts)) /\ ~settling

\* Something is still missing where the parts go on.
LEMMA Missing ==
  ASSUME RulesInv, mode = "eval", Prefix(parts), pos \in 1 .. Len(parts), shortCircuit = 0,
         Len(values) = 1
  PROVE  ops # <<>>
<1>1. SUFFICES ASSUME ops = <<>> PROVE FALSE
  OBVIOUS
<1>2. PICK w \in Counts(parts, Len(parts)) : \A i \in 1 .. Len(parts) : w[i] > 0
  BY DEF Prefix
<1>3. Balanced(w)
  BY <1>2 DEF RulesInv, CountInv
<1>4. PICK c \in Reduced(ops) : w[pos] = c[Len(ops)] + 1 - Len(values) + shortCircuit
  BY <1>3 DEF Balanced
<1>5. Len(ops) = 0 /\ c[0] = 0
  BY <1>1, <1>4 DEF Reduced
<1>6. w[pos] > 0
  BY <1>2
<1>7. w[pos] = 0
  BY <1>4, <1>5
<1> QED
  BY <1>6, <1>7

\* What is decided does not change.
LEMMA SofarGoesOn ==
  ASSUME parts \in Seq(Part), NEW n \in Nat, NEW v \in Rules!Truth, Sofar(v, n),
         \/ v # "T"
         \/ parts[n + 1] \notin Rules!Truth
         \/ parts[n + 1] = "T"
  PROVE  Sofar(v, n + 1)
<1>1. CASE v # "T"
  <2>1. v \in {"F", "E"}
    BY <1>1 DEF Rules!Truth
  <2>2. PICK j \in 1 .. n : parts[j] = v /\ \A i \in 1 .. j - 1 : parts[i] \in Rules!Truth => parts[i] = "T"
    BY <1>1 DEF Sofar
  <2>3. j \in 1 .. n + 1
    OBVIOUS
  <2> QED
    BY <2>1, <2>2, <2>3 DEF Sofar
<1>2. CASE v = "T"
  <2>1. \A i \in 1 .. n : parts[i] \in Rules!Truth => parts[i] = "T"
    BY <1>2 DEF Sofar
  <2>2. \A i \in 1 .. n + 1 : i \in 1 .. n \/ i = n + 1
    OBVIOUS
  <2>3. \A i \in 1 .. n + 1 : parts[i] \in Rules!Truth => parts[i] = "T"
    BY <1>2, <2>1, <2>2
  <2> QED
    BY <1>2, <2>3 DEF Sofar
<1> QED
  BY <1>1, <1>2

\* A value after true ones decides, or is true itself.
LEMMA SofarNext ==
  ASSUME parts \in Seq(Part), NEW n \in Nat, parts[n + 1] \in Rules!Truth,
         \A i \in 1 .. n : parts[i] \in Rules!Truth => parts[i] = "T"
  PROVE  Sofar(parts[n + 1], n + 1)
<1>1. \A i \in 1 .. n + 1 : i \in 1 .. n \/ i = n + 1
  OBVIOUS
<1>2. n + 1 \in 1 .. n + 1 /\ n + 1 - 1 = n
  OBVIOUS
<1>3. parts[n + 1] # "T" => parts[n + 1] \in {"F", "E"}
  BY DEF Rules!Truth
<1> QED
  BY <1>1, <1>2, <1>3 DEF Sofar

\* A step of try_run keeps what is known of a conjunction.
LEMMA ConjunctionKeeps ==
  ASSUME RulesInv, mode = "eval", Rules!Conjunction(parts), Prefix(parts), ConjunctionInv,
         Rules!Next, UNCHANGED <<parts, mode, result>>
  PROVE  ConjunctionInv'
<1>1. /\ parts \in Seq(Part) /\ pos \in 1 .. Len(parts) + 1 /\ settling \in BOOLEAN
      /\ values \in Seq(Rules!Truth) /\ shortCircuit \in Nat /\ Len(parts) \in Nat
  BY DEF RulesInv, RulesType, Part
<1>2. /\ ops \in Seq({"and"}) /\ Len(values) \in {0, 1, 2}
      /\ Len(values) = 0 <=> values = <<>>
  <2>1. Len(values) \in Nat /\ Len(values) <= 2 /\ (Len(values) = 0 <=> values = <<>>)
    BY <1>1 DEF ConjunctionInv
  <2>2. \A n \in Nat : n <= 2 => n \in {0, 1, 2}
    OBVIOUS
  <2> QED
    BY <2>1, <2>2 DEF ConjunctionInv
<1>3. ASSUME NEW i \in 1 .. Len(parts) PROVE parts[i] \in Rules!Truth \/ parts[i] = "and"
  BY DEF Rules!Conjunction
<1>4. "and" \notin Rules!Truth /\ Rules!Operand("and") = 2
  BY DEF Rules!Truth, Rules!Operand
<1>5. \A v \in Rules!Truth : v # "T" => Rules!Decides("and", v)
  BY DEF Rules!Truth, Rules!Decides
<1>6. \A v : Rules!Decides("and", v) => v # "T"
  BY DEF Rules!Decides
<1>7. ops # <<>> => Rules!Last(ops) = "and" /\ Rules!Front(ops) \in Seq({"and"})
  BY <1>2 DEF Rules!Last, Rules!Front
<1>8. Rules!Enough <=> ops # <<>> /\ Len(values) = 2
  <2>1. Rules!Enough <=> ops # <<>> /\ Len(values) >= 2
    BY <1>4, <1>7 DEF Rules!Enough
  <2>2. \A n \in {0, 1, 2} : n >= 2 <=> n = 2
    OBVIOUS
  <2> QED
    BY <1>2, <2>1, <2>2, Zenon
<1>9. Rules!Last(values) = values[Len(values)]
  BY DEF Rules!Last
<1>10. Rules!Cut <=> ops # <<>> /\ Len(values) = 1 /\ Rules!Decides("and", values[1])
  BY <1>2, <1>7, <1>8, <1>9 DEF Rules!Cut, ConjunctionInv
<1>11. ASSUME ~settling, Len(values) = 1, shortCircuit = 0, pos <= Len(parts)
       PROVE  ops # <<>> /\ values[1] = "T" /\ \A i \in 1 .. pos - 1 : parts[i] \in Rules!Truth => parts[i] = "T"
  <2>1. ops # <<>>
    BY <1>1, <1>11, Missing
  <2>2. values[1] = "T"
    BY <1>11, <2>1 DEF ConjunctionInv
  <2> QED
    BY <1>11, <2>1, <2>2 DEF ConjunctionInv, Sofar
<1>12. ASSUME NEW v PROVE /\ pos' = pos + 1 /\ UNCHANGED parts => (Sofar(v, pos - 1)' <=> Sofar(v, pos))
                          /\ UNCHANGED <<pos, parts>> => (Sofar(v, pos - 1)' <=> Sofar(v, pos - 1))
  <2>1. pos' = pos + 1 => pos' - 1 = pos
    BY <1>1
  <2> QED
    BY <2>1, Zenon DEF Sofar
<1>13. /\ pos - 1 \in Nat /\ pos - 1 + 1 = pos
  BY <1>1
<1>14. CASE Rules!PushOperator
  <2>1. /\ ops' = Append(ops, parts[pos]) /\ parts[pos] \in Rules!Operator
        /\ ~settling /\ shortCircuit = 0 /\ pos' = pos + 1 /\ pos <= Len(parts)
        /\ UNCHANGED <<parts, settling, shortCircuit, values>>
    BY <1>14 DEF Rules!PushOperator, Rules!Reading
  <2>2. parts[pos] = "and" /\ parts[pos] \notin Rules!Truth
    <3>1. pos \in 1 .. Len(parts)
      BY <1>1, <2>1
    <3> QED
      BY <1>3, <2>1, <3>1 DEF Rules!Truth, Rules!Operator
  <2>3. ops' \in Seq({"and"})
    BY <1>2, <2>1, <2>2
  <2>4. CASE values = <<>>
    <3>1. \A i \in 1 .. pos - 1 : parts[i] \notin Rules!Truth
      BY <2>4 DEF ConjunctionInv
    <3>2. \A i \in 1 .. pos' - 1 : i \in 1 .. pos - 1 \/ i = pos
      BY <1>1, <2>1
    <3>3. \A i \in 1 .. pos' - 1 : parts'[i] \notin Rules!Truth
      BY <2>1, <2>2, <3>1, <3>2
    <3> QED
      BY <2>1, <2>3, <2>4, <3>3 DEF ConjunctionInv
  <2>5. CASE Len(values) = 1
    <3>1. values[1] = "T" /\ Sofar(values[1], pos - 1) /\ "T" \in Rules!Truth
      BY <1>11, <2>1, <2>5 DEF ConjunctionInv, Rules!Truth
    <3>2. Sofar(values[1], pos)
      BY <1>1, <1>13, <2>2, <3>1, SofarGoesOn
    <3>3. Sofar(values[1], pos - 1)'
      BY <1>12, <2>1, <3>2
    <3> QED
      BY <2>1, <2>3, <2>5, <3>1, <3>3 DEF ConjunctionInv
  <2> QED
    BY <1>2, <2>1, <2>4, <2>5 DEF ConjunctionInv
<1>15. CASE Rules!PushValue
  <2>1. /\ values' = Append(values, parts[pos]) /\ parts[pos] \in Rules!Truth
        /\ ~settling /\ settling' = TRUE /\ shortCircuit = 0 /\ pos' = pos + 1 /\ pos <= Len(parts)
        /\ UNCHANGED <<parts, shortCircuit, ops>>
    BY <1>15 DEF Rules!PushValue, Rules!Reading
  <2>2. CASE values = <<>>
    <3>1. \A i \in 1 .. pos - 1 : parts[i] \notin Rules!Truth
      BY <2>2 DEF ConjunctionInv
    <3>2. Sofar(parts[pos], pos)
      BY <1>1, <1>13, <2>1, <3>1, SofarNext
    <3>3. Len(values') = 1 /\ values'[1] = parts[pos]
      BY <2>1, <2>2
    <3>4. Sofar(values[1], pos - 1)'
      BY <1>12, <2>1, <3>2, <3>3, Zenon
    <3> QED
      BY <1>2, <2>1, <3>3, <3>4 DEF ConjunctionInv
  <2>3. CASE Len(values) = 1
    <3>1. ops # <<>> /\ values[1] = "T" /\ \A i \in 1 .. pos - 1 : parts[i] \in Rules!Truth => parts[i] = "T"
      BY <1>11, <2>1, <2>3
    <3>2. Sofar(parts[pos], pos)
      BY <1>1, <1>13, <2>1, <3>1, SofarNext
    <3>3. Len(values') = 2 /\ values'[1] = values[1] /\ values'[2] = parts[pos]
      <4>1. ASSUME NEW T, NEW s \in Seq(T), NEW e \in T
            PROVE  /\ Len(Append(s, e)) = Len(s) + 1 /\ Append(s, e)[Len(s) + 1] = e
                   /\ \A i \in 1 .. Len(s) : Append(s, e)[i] = s[i]
        OBVIOUS
      <4>2. values' = Append(values, parts[pos])
        BY <2>1
      <4>3. 1 \in 1 .. 1 /\ 1 + 1 = 2
        OBVIOUS
      <4>4. values \in Seq(Rules!Truth) /\ parts[pos] \in Rules!Truth
        BY <1>1, <2>1
      <4>5. /\ Len(values') = Len(values) + 1 /\ values'[Len(values) + 1] = parts[pos]
            /\ \A i \in 1 .. Len(values) : values'[i] = values[i]
        BY <4>1, <4>2, <4>4
      <4> QED
        BY <2>3, <4>3, <4>5
    <3>4. Sofar(values[2], pos - 1)'
      BY <1>12, <2>1, <3>2, <3>3, Zenon
    <3> QED
      BY <1>2, <2>1, <3>1, <3>3, <3>4 DEF ConjunctionInv
  <2> QED
    BY <1>2, <2>1, <2>2, <2>3 DEF ConjunctionInv
<1>16. CASE Rules!SkipPart
  <2>1. /\ shortCircuit > 0 /\ ~settling /\ pos' = pos + 1 /\ pos <= Len(parts)
        /\ UNCHANGED <<parts, settling, ops, values>>
    BY <1>16 DEF Rules!SkipPart, Rules!Reading
  <2>2. Len(values) = 1 /\ values[1] # "T" /\ values[1] \in Rules!Truth /\ Sofar(values[1], pos - 1) /\ ops = <<>>
    <3>1. Len(values) = 1
      BY <1>1, <1>2, <2>1 DEF ConjunctionInv
    <3> QED
      BY <1>1, <2>1, <3>1 DEF ConjunctionInv
  <2>3. Sofar(values[1], pos)
    BY <1>1, <1>13, <2>2, SofarGoesOn
  <2>4. Sofar(values[1], pos - 1)'
    BY <1>12, <2>1, <2>3
  <2> QED
    BY <1>2, <2>1, <2>2, <2>4 DEF ConjunctionInv
<1>17. CASE Rules!OperateTop
  <2>1. /\ settling /\ ops # <<>> /\ Len(values) = 2 /\ ops' = Rules!Front(ops)
        /\ UNCHANGED <<parts, pos, settling, shortCircuit>>
        /\ values' = Append(SubSeq(values, 1, Len(values) - 2),
                            Rules!Operate("and", Rules!Last(Rules!Front(values)), Rules!Last(values)))
    BY <1>4, <1>7, <1>8, <1>17 DEF Rules!OperateTop
  <2>2. values[1] = "T" /\ Sofar(values[2], pos - 1) /\ values[2] \in Rules!Truth /\ shortCircuit = 0
    <3>1. ASSUME NEW T, NEW s \in Seq(T), Len(s) = 2 PROVE s[2] \in T
      <4>1. 2 \in 1 .. Len(s)
        BY <3>1
      <4> QED
        BY <4>1
    <3>2. values[2] \in Rules!Truth
      BY <1>1, <2>1, <3>1, Zenon
    <3> QED
      BY <2>1, <3>2 DEF ConjunctionInv
  <2>3. Rules!Last(Rules!Front(values)) = values[1] /\ Rules!Last(values) = values[2]
    BY <1>1, <2>1 DEF Rules!Last, Rules!Front
  <2>4. Rules!Operate("and", "T", values[2]) = values[2]
    BY <2>2 DEF Rules!Operate, Rules!Truth, Rules!Unit
  <2>5. values' = <<values[2]>>
    <3>1. SubSeq(values, 1, Len(values) - 2) = <<>>
      BY <1>1, <2>1
    <3>2. values' = Append(<<>>, values[2])
      BY <2>1, <2>2, <2>3, <2>4, <3>1
    <3> QED
      BY <3>2
  <2>6. Len(values') = 1 /\ values'[1] = values[2] /\ values' # <<>>
    BY <2>5
  <2>7. Sofar(values[1], pos - 1)'
    BY <1>12, <2>1, <2>2, <2>6 DEF Sofar
  <2>8. ops' \in Seq({"and"})
    BY <1>7, <2>1
  <2> QED
    BY <2>1, <2>2, <2>6, <2>7, <2>8 DEF ConjunctionInv
<1>18. CASE Rules!ShortCircuitTop
  <2>1. /\ settling /\ ops # <<>> /\ Len(values) = 1 /\ values[1] # "T" /\ ops' = Rules!Front(ops)
        /\ UNCHANGED <<parts, pos, settling, values>>
    BY <1>6, <1>10, <1>18 DEF Rules!ShortCircuitTop
  <2>2. Sofar(values[1], pos - 1)'
    BY <1>12, <2>1 DEF ConjunctionInv
  <2>3. ops' \in Seq({"and"})
    BY <1>7, <2>1
  <2> QED
    BY <1>2, <2>1, <2>2, <2>3 DEF ConjunctionInv
<1>19. CASE Rules!Settled
  <2>1. /\ settling /\ settling' = FALSE /\ ~Rules!Enough /\ ~Rules!Cut
        /\ UNCHANGED <<parts, pos, shortCircuit, ops, values>>
    BY <1>19 DEF Rules!Settled
  <2>2. Len(values) = 1
    BY <1>2, <1>8, <2>1 DEF ConjunctionInv
  <2>3. values[1] # "T" => ops = <<>>
    <3>1. ASSUME NEW T, NEW s \in Seq(T), Len(s) = 1 PROVE s[1] \in T
      BY <3>1
    <3>2. values[1] \in Rules!Truth
      BY <1>1, <2>2, <3>1, Zenon
    <3> QED
      BY <1>5, <1>10, <2>1, <2>2, <3>2, Zenon
  <2>4. Sofar(values[1], pos - 1)'
    BY <1>12, <2>1, <2>2 DEF ConjunctionInv
  <2> QED
    BY <1>2, <2>1, <2>2, <2>3, <2>4 DEF ConjunctionInv
<1>20. CASE Rules!Accept \/ Rules!Return
  <2>1. UNCHANGED <<parts, pos, settling, shortCircuit, ops, values>>
    BY <1>20 DEF Rules!Accept, Rules!Return
  <2> QED
    BY <2>1 DEF ConjunctionInv, Sofar
<1> QED
  BY <1>14, <1>15, <1>16, <1>17, <1>18, <1>19, <1>20 DEF Rules!Next

\* On the reference's stacks.
LEMMA OntoStack ==
  \A e \in Reference, s \in Seq(Reference) :
     /\ Onto(e, s) \in Seq(Reference) /\ Len(Onto(e, s)) = Len(s) + 1 /\ Onto(e, s)[1] = e
     /\ \A j \in 1 .. Len(s) : Onto(e, s)[j + 1] = s[j]
<1> SUFFICES ASSUME NEW e \in Reference, NEW s \in Seq(Reference)
    PROVE /\ Onto(e, s) \in Seq(Reference) /\ Len(Onto(e, s)) = Len(s) + 1 /\ Onto(e, s)[1] = e
          /\ \A j \in 1 .. Len(s) : Onto(e, s)[j + 1] = s[j]
  OBVIOUS
<1> QED
  BY OntoIs

\* The first value that is not true decides, among the parts from i on ...
From(seq, v, i) ==
    \/ v = "T" /\ \A j \in i .. Len(seq) : seq[j] \in Rules!Truth => seq[j] = "T"
    \/ /\ v \in {"F", "E"}
       /\ \E j \in i .. Len(seq) : /\ seq[j] = v
                                   /\ \A k \in i .. j - 1 : seq[k] \in Rules!Truth => seq[k] = "T"

\* ... and on the reference's stack.
OnStack(v, s) ==
    \/ v = "T" /\ \A j \in 1 .. Len(s) : s[j].value = "T"
    \/ /\ v \in {"F", "E"}
       /\ \E j \in 1 .. Len(s) : s[j].value = v /\ \A k \in 1 .. j - 1 : s[k].value = "T"

\* Both agree, in a conjunction.
LEMMA FromIsOnStack ==
  ASSUME NEW seq \in Seq(Part), Rules!Conjunction(seq), NEW h, ReadsTo(seq, h),
         NEW v, NEW i \in 1 .. Len(seq), \/ ~From(seq, v, i + 1)
                                         \/ OnStack(v, h[i + 1]),
         From(seq, v, i)
  PROVE  OnStack(v, h[i])
<1> DEFINE s == h[i + 1]
           N == Len(seq)
<1>1. N \in Nat /\ (seq[i] \in Rules!Truth \/ seq[i] = "and")
  BY DEF Rules!Conjunction
<1>2. "and" \notin Rules!Truth
  BY DEF Rules!Truth
<1>3. s \in Seq(Reference) /\ Len(s) \in Nat
  <2>1. s \in Seq(Reference)
    BY ReadsToStep
  <2> QED
    BY <2>1
<1>4. CASE seq[i] = "and"
  <2>1. From(seq, v, i + 1)
    <3>1. CASE v = "T" /\ \A j \in i .. Len(seq) : seq[j] \in Rules!Truth => seq[j] = "T"
      <4>1. \A j \in i + 1 .. Len(seq) : j \in i .. Len(seq)
        OBVIOUS
      <4> QED
        BY <3>1, <4>1 DEF From
    <3>2. CASE v \in {"F", "E"}
      <4>1. PICK j \in i .. Len(seq) :
               seq[j] = v /\ \A k \in i .. j - 1 : seq[k] \in Rules!Truth => seq[k] = "T"
        BY <3>2 DEF From
      <4>2. j # i
        BY <1>4, <3>2, <4>1
      <4>3. j \in i + 1 .. Len(seq) /\ \A k \in i + 1 .. j - 1 : k \in i .. j - 1
        BY <4>2
      <4> QED
        BY <3>2, <4>1, <4>3 DEF From
    <3> QED
      BY <3>1, <3>2 DEF From
  <2>2. OnStack(v, s)
    BY <2>1
  <2>3. /\ Len(s) >= 2
        /\ h[i] = Onto(Rules!Entry(Rules!Apply("and", s[1].value, s[2].value), TRUE), Drop(s, 2))
    BY <1>4, ReadsToStep
  <2> DEFINE e == Rules!Entry(Rules!Apply("and", s[1].value, s[2].value), TRUE)
             t == Drop(s, 2)
  <2>4. 2 \in 0 .. Len(s) /\ 1 \in 1 .. Len(s) /\ 2 \in 1 .. Len(s)
    BY <1>3, <2>3
  <2>5. /\ t \in Seq(Reference) /\ Len(t) = Len(s) - 2
        /\ \A j \in 1 .. Len(s) - 2 : t[j] = s[j + 2]
    BY <1>3, <2>4, DropIs
  <2>6. s[1].value \in Rules!Truth /\ s[2].value \in Rules!Truth
    <3>1. s[1] \in Reference /\ s[2] \in Reference
      BY <1>3, <2>4
    <3> QED
      BY <3>1 DEF Reference
  <2>7. e \in Reference /\ e.value = IF s[1].value = "T" THEN s[2].value ELSE s[1].value
    BY <2>6 DEF Rules!Entry, Reference, Rules!Apply, Rules!Decides, Rules!Truth
  <2> HIDE DEF e, t
  <2>8. /\ Len(h[i]) = Len(s) - 1 /\ h[i][1] = e
        /\ \A j \in 1 .. Len(s) - 2 : h[i][j + 1] = s[j + 2]
    <3>1. h[i] = Onto(e, t)
      BY <2>3 DEF e, t
    <3>2. /\ Len(Onto(e, t)) = Len(t) + 1 /\ Onto(e, t)[1] = e
          /\ \A j \in 1 .. Len(t) : Onto(e, t)[j + 1] = t[j]
      BY <2>5, <2>7, OntoStack, Zenon
    <3>3. Len(s) - 2 + 1 = Len(s) - 1
      BY <1>3
    <3> QED
      BY <2>5, <3>1, <3>2, <3>3
  <2>9. \A j \in 2 .. Len(s) - 1 : h[i][j] = s[j + 1]
    <3>1. ASSUME NEW j \in 2 .. Len(s) - 1 PROVE h[i][j] = s[j + 1]
      <4>1. j - 1 \in 1 .. Len(s) - 2 /\ j - 1 + 1 = j /\ j - 1 + 2 = j + 1
        BY <1>3
      <4>2. h[i][j - 1 + 1] = s[j - 1 + 2]
        BY <2>8, <4>1
      <4> QED
        BY <4>1, <4>2
    <3> QED
      BY <3>1
  <2>10. CASE v = "T" /\ \A j \in 1 .. Len(s) : s[j].value = "T"
    <3>1. e.value = "T"
      BY <2>4, <2>7, <2>10
    <3>2. ASSUME NEW j \in 1 .. Len(h[i]) PROVE h[i][j].value = "T"
      <4>1. j = 1 \/ (j \in 2 .. Len(s) - 1 /\ j + 1 \in 1 .. Len(s))
        BY <1>3, <2>8
      <4> QED
        BY <2>8, <2>9, <2>10, <3>1, <4>1
    <3> QED
      BY <2>10, <3>2 DEF OnStack
  <2>11. CASE v \in {"F", "E"}
    <3>1. PICK j \in 1 .. Len(s) : s[j].value = v /\ \A k \in 1 .. j - 1 : s[k].value = "T"
      BY <2>2, <2>11 DEF OnStack
    <3>2. CASE j = 1 \/ j = 2
      <4>1. e.value = v
        <5>1. j = 2 => 1 \in 1 .. j - 1
          OBVIOUS
        <5> QED
          BY <2>7, <2>11, <3>1, <3>2, <5>1
      <4>2. 1 \in 1 .. Len(h[i]) /\ \A k \in 1 .. 1 - 1 : FALSE
        <5>1. \A n \in Nat : n >= 2 => 1 \in 1 .. n - 1
          OBVIOUS
        <5>2. 1 \in 1 .. Len(h[i])
          BY <1>3, <2>3, <2>8, <5>1, Zenon
        <5> QED
          BY <5>2
      <4>3. h[i][1].value = v
        BY <2>8, <4>1
      <4> QED
        BY <2>11, <4>2, <4>3 DEF OnStack
    <3>3. CASE j > 2
      <4>1. j - 1 \in 2 .. Len(s) - 1 /\ j - 1 + 1 = j /\ j - 1 \in 1 .. Len(h[i])
        BY <1>3, <2>8, <3>3
      <4>2. h[i][j - 1].value = v
        BY <2>9, <3>1, <4>1
      <4>3. ASSUME NEW k \in 1 .. j - 1 - 1 PROVE h[i][k].value = "T"
        <5>1. CASE k = 1
          <6>1. 1 \in 1 .. j - 1 /\ 2 \in 1 .. j - 1
            BY <3>3
          <6> QED
            BY <2>7, <2>8, <3>1, <5>1, <6>1
        <5>2. CASE k # 1
          <6>1. k \in 2 .. Len(s) - 1 /\ k + 1 \in 1 .. j - 1
            BY <1>3, <5>2
          <6> QED
            BY <2>9, <3>1, <6>1
        <5> QED
          BY <5>1, <5>2
      <4> QED
        BY <2>11, <4>1, <4>2, <4>3 DEF OnStack
    <3> QED
      BY <3>2, <3>3
  <2> QED
    BY <2>2, <2>10, <2>11 DEF OnStack
<1>5. CASE seq[i] \in Rules!Truth
  <2> DEFINE e == Rules!Entry(seq[i], FALSE)
  <2>1. h[i] = Onto(e, s) /\ e \in Reference /\ e.value = seq[i]
    <3>1. h[i] = Onto(e, s)
      BY <1>5, ReadsToStep
    <3> QED
      BY <1>5, <3>1 DEF Rules!Entry, Reference
  <2> HIDE DEF e
  <2>2. /\ Len(h[i]) = Len(s) + 1 /\ h[i][1] = e
        /\ \A j \in 1 .. Len(s) : h[i][j + 1] = s[j]
    <3>1. /\ Len(Onto(e, s)) = Len(s) + 1 /\ Onto(e, s)[1] = e
          /\ \A j \in 1 .. Len(s) : Onto(e, s)[j + 1] = s[j]
      BY <1>3, <2>1, OntoStack, Zenon
    <3> QED
      BY <2>1, <3>1
  <2>3. \A j \in 2 .. Len(s) + 1 : h[i][j] = s[j - 1]
    <3>1. ASSUME NEW j \in 2 .. Len(s) + 1 PROVE h[i][j] = s[j - 1]
      <4>1. j - 1 \in 1 .. Len(s) /\ j - 1 + 1 = j
        BY <1>3
      <4>2. h[i][j - 1 + 1] = s[j - 1]
        BY <2>2, <4>1
      <4> QED
        BY <4>1, <4>2
    <3> QED
      BY <3>1
  <2>4. 1 \in 1 .. Len(h[i]) /\ \A k \in 1 .. 1 - 1 : FALSE
    BY <1>3, <2>2
  <2>5. CASE seq[i] # "T"
    <3>1. v = seq[i] /\ v \in {"F", "E"}
      <4>1. i \in i .. Len(seq)
        OBVIOUS
      <4>2. v # "T"
        BY <1>5, <2>5, <4>1 DEF From
      <4>3. PICK j \in i .. Len(seq) :
               seq[j] = v /\ \A k \in i .. j - 1 : seq[k] \in Rules!Truth => seq[k] = "T"
        BY <4>2 DEF From
      <4>4. j # i => i \in i .. j - 1
        OBVIOUS
      <4> QED
        BY <1>5, <2>5, <4>2, <4>3, <4>4 DEF From
    <3> QED
      BY <2>1, <2>2, <2>4, <3>1 DEF OnStack
  <2>6. CASE seq[i] = "T"
    <3>1. From(seq, v, i + 1)
      <4>1. CASE v = "T" /\ \A j \in i .. Len(seq) : seq[j] \in Rules!Truth => seq[j] = "T"
        <5>1. \A j \in i + 1 .. Len(seq) : j \in i .. Len(seq)
          OBVIOUS
        <5> QED
          BY <4>1, <5>1 DEF From
      <4>2. CASE v \in {"F", "E"}
        <5>1. PICK j \in i .. Len(seq) :
                 seq[j] = v /\ \A k \in i .. j - 1 : seq[k] \in Rules!Truth => seq[k] = "T"
          BY <4>2 DEF From
        <5>2. j # i
          BY <2>6, <4>2, <5>1
        <5>3. j \in i + 1 .. Len(seq) /\ \A k \in i + 1 .. j - 1 : k \in i .. j - 1
          BY <5>2
        <5> QED
          BY <4>2, <5>1, <5>3 DEF From
      <4> QED
        BY <4>1, <4>2 DEF From
    <3>2. OnStack(v, s)
      BY <3>1
    <3>3. h[i][1].value = "T"
      BY <2>1, <2>2, <2>6
    <3>4. CASE v = "T" /\ \A j \in 1 .. Len(s) : s[j].value = "T"
      <4>1. ASSUME NEW j \in 1 .. Len(h[i]) PROVE h[i][j].value = "T"
        <5>1. j = 1 \/ (j \in 2 .. Len(s) + 1 /\ j - 1 \in 1 .. Len(s))
          BY <1>3, <2>2
        <5> QED
          BY <2>3, <3>3, <3>4, <5>1
      <4> QED
        BY <3>4, <4>1 DEF OnStack
    <3>5. CASE v \in {"F", "E"}
      <4>1. PICK j \in 1 .. Len(s) : s[j].value = v /\ \A k \in 1 .. j - 1 : s[k].value = "T"
        BY <3>2, <3>5 DEF OnStack
      <4>2. j + 1 \in 1 .. Len(h[i]) /\ h[i][j + 1].value = v
        BY <1>3, <2>2, <4>1
      <4>3. ASSUME NEW k \in 1 .. j + 1 - 1 PROVE h[i][k].value = "T"
        <5>1. k = 1 \/ (k \in 2 .. Len(s) + 1 /\ k - 1 \in 1 .. j - 1)
          BY <1>3
        <5> QED
          BY <2>3, <3>3, <4>1, <5>1
      <4> QED
        BY <3>5, <4>2, <4>3 DEF OnStack
    <3> QED
      BY <3>2, <3>4, <3>5 DEF OnStack
  <2> QED
    BY <2>5, <2>6
<1> QED
  BY <1>1, <1>4, <1>5

\* A conjunction means the first value that is not true, or true.
LEMMA ConjunctionMeans ==
  ASSUME NEW seq \in Seq(Part), Rules!Conjunction(seq), NEW h, ReadsTo(seq, h),
         NEW v, From(seq, v, 1)
  PROVE  v = h[1][1].value
<1> DEFINE N == Len(seq)
           Differ == {n \in 0 .. N : From(seq, v, N + 1 - n) /\ ~OnStack(v, h[N + 1 - n])}
<1>1. N \in Nat
  OBVIOUS
<1>2. Differ = {}
  <2>1. SUFFICES ASSUME Differ # {} PROVE FALSE
    OBVIOUS
  <2>2. PICK n \in Differ : \A m \in Differ : n <= m
    <3>1. Differ \subseteq Nat
      OBVIOUS
    <3> QED
      BY <2>1, <3>1, LeastNat
  <2>3. n # 0
    <3>1. ASSUME n = 0 PROVE FALSE
      <4>1. N + 1 - n = N + 1 /\ \A j : j \notin N + 1 .. N
        BY <1>1, <3>1
      <4>2. From(seq, v, N + 1)
        BY <2>2, <4>1
      <4>3. v = "T" /\ h[N + 1] = <<>>
        BY <4>1, <4>2 DEF From, ReadsTo
      <4>4. \A j \in 1 .. Len(<<>>) : FALSE
        OBVIOUS
      <4>5. OnStack(v, h[N + 1])
        BY <4>3, <4>4 DEF OnStack
      <4> QED
        BY <2>2, <4>1, <4>5
    <3> QED
      BY <3>1
  <2>4. /\ N + 1 - n \in 1 .. N /\ n - 1 \in 0 .. N /\ ~(n <= n - 1)
        /\ N + 1 - (n - 1) = N + 1 - n + 1
    BY <1>1, <2>2, <2>3
  <2>5. n - 1 \notin Differ
    BY <2>2, <2>4
  <2>6. ~From(seq, v, N + 1 - n + 1) \/ OnStack(v, h[N + 1 - n + 1])
    BY <2>4, <2>5
  <2>7. From(seq, v, N + 1 - n) /\ ~OnStack(v, h[N + 1 - n])
    BY <2>2
  <2> HIDE DEF Differ, N
  <2> QED
    BY <2>4, <2>6, <2>7, FromIsOnStack DEF N
<1>3. OnStack(v, h[1])
  <2>1. N \in 0 .. N /\ N + 1 - N = 1
    BY <1>1
  <2>2. N \notin Differ
    BY <1>2
  <2> QED
    BY <2>1, <2>2
<1>4. Len(h[1]) = 1
  BY DEF ReadsTo
<1> QED
  BY <1>3, <1>4 DEF OnStack

-----------------------------------------------------------------------------
\* Conditions without a binary operator in a right operand.  What the machine has on
\* its two stacks, put on what the reference has where the machine reads, makes up what
\* the reference has at the beginning.

\* What the operators do to a stack whose top entry is known.
LEMMA NotOnto ==
  ASSUME NEW v \in Rules!Truth, NEW f \in BOOLEAN, NEW s \in Seq(Reference)
  PROVE  Rules!FlatReduce("not", Onto(Rules!Entry(v, f), s)) = Onto(Rules!Entry(Rules!Not(v), f), s)
<1> DEFINE e == Rules!Entry(v, f)
<1>1. e \in Reference /\ e.value = v /\ e.binary = f
  BY DEF Rules!Entry, Reference
<1> HIDE DEF e
<1> DEFINE t == Onto(e, s)
<1>2. t \in Seq(Reference) /\ Len(t) = Len(s) + 1 /\ t[1] = e
  BY <1>1, OntoStack, Zenon
<1>3. Len(s) \in Nat /\ 0 \in 0 .. Len(s) /\ 0 + 1 = 1
  OBVIOUS
<1>4. Drop(t, 1) = s
  BY <1>1, <1>3, DropOnto, DropNone
<1> HIDE DEF t
<1>5. Len(t) >= 1 /\ "not" \in Part
  BY <1>2, <1>3 DEF Part, Rules!Operator
<1>6. Rules!Reduce("not", t) = Onto(Rules!Entry(Rules!Not(t[1].value), t[1].binary), Drop(t, 1))
  BY <1>2, <1>5, ReduceIs
<1>7. Rules!FlatReduce("not", t) = Rules!Reduce("not", t)
  BY DEF Rules!FlatReduce
<1> QED
  BY <1>1, <1>2, <1>4, <1>6, <1>7 DEF t, e

LEMMA BinaryOnto ==
  ASSUME NEW op \in {"and", "or"}, NEW e \in Reference, NEW s \in Seq(Reference),
         Rules!FlatReduce(op, Onto(e, s)) \in Seq(Reference)
  PROVE  /\ Len(s) >= 1 /\ s[1] \in Reference /\ s[1].binary = FALSE
         /\ Rules!FlatReduce(op, Onto(e, s))
              = Onto(Rules!Entry(Rules!Apply(op, e.value, s[1].value), TRUE), Drop(s, 1))
<1> DEFINE t == Onto(e, s)
<1>1. t \in Seq(Reference) /\ Len(t) = Len(s) + 1 /\ t[1] = e
         /\ \A j \in 1 .. Len(s) : t[j + 1] = s[j]
  BY OntoStack, Zenon
<1>2. Len(s) \in Nat /\ op \in Part /\ op \in Rules!Operator /\ Rules!Operand(op) = 2
  BY DEF Part, Rules!Operator, Rules!Operand
<1>3. \A x \in Seq(Reference) : x # Rules!Bad
  BY <1>2, ReduceIs, Zenon
<1> HIDE DEF t
<1>4. Len(s) >= 1
  <2>1. SUFFICES ASSUME Len(s) = 0 PROVE FALSE
    BY <1>2
  <2>2. Len(t) < Rules!Operand(op) /\ ~(Len(t) >= 2)
    BY <1>1, <1>2, <2>1
  <2>3. Rules!FlatReduce(op, t) = Rules!Reduce(op, t)
    BY <2>2 DEF Rules!FlatReduce
  <2>4. Rules!Reduce(op, t) = Rules!Bad
    BY <1>1, <1>2, <2>2, ReduceIs
  <2> QED
    BY <1>3, <2>3, <2>4 DEF t
<1>5. Len(t) >= 2 /\ 1 \in 1 .. Len(s) /\ 1 \in 0 .. Len(s) /\ 1 + 1 = 2
  BY <1>1, <1>2, <1>4
<1>6. t[2] = s[1]
  BY <1>1, <1>5
<1>7. s[1] \in Reference
  BY <1>5
<1>8. s[1].binary = FALSE
  <2>1. s[1].binary \in BOOLEAN
    BY <1>7 DEF Reference
  <2>2. ~t[2].binary
    <3>1. ASSUME t[2].binary PROVE FALSE
      <4>1. Rules!FlatReduce(op, t) = Rules!Bad
        BY <1>5, <3>1, Zenon DEF Rules!FlatReduce
      <4> QED
        BY <1>3, <4>1 DEF t
    <3> QED
      BY <3>1
  <2> QED
    BY <1>6, <2>1, <2>2
<1>9. Rules!FlatReduce(op, t) = Rules!Reduce(op, t)
  BY <1>6, <1>8, Zenon DEF Rules!FlatReduce
<1>10. Rules!Reduce(op, t) = Onto(Rules!Entry(Rules!Apply(op, t[1].value, t[2].value), TRUE), Drop(t, 2))
  BY <1>1, <1>2, <1>5, ReduceIs
<1>11. Drop(t, 2) = Drop(s, 1)
  <2>1. Drop(Onto(e, s), 1 + 1) = Drop(s, 1)
    BY <1>5, DropOnto, Zenon
  <2> QED
    BY <1>5, <2>1 DEF t
<1> QED
  BY <1>1, <1>4, <1>6, <1>7, <1>8, <1>9, <1>10, <1>11 DEF t

\* Where no right operand has a binary operator, a part leaves this on the stack.
LEMMA FlatStep ==
  ASSUME NEW seq \in Seq(Part), NEW h, FlatReadsTo(seq, h), NEW i \in 1 .. Len(seq)
  PROVE  /\ h[i] \in Seq(Reference) /\ h[i + 1] \in Seq(Reference) /\ Len(h[i]) >= 1
         /\ h[i] = Rules!FlatReduce(seq[i], h[i + 1])
         /\ seq[i] \in {"and", "or"} => h[i][1].binary = TRUE
         /\ seq[i] = "not" => Len(h[i + 1]) >= 1 /\ h[i][1].binary = h[i + 1][1].binary
<1>1. ReadsTo(seq, h) /\ h[i] = Rules!FlatReduce(seq[i], h[i + 1])
  BY DEF FlatReadsTo
<1>2. /\ h[i] \in Seq(Reference) /\ h[i + 1] \in Seq(Reference) /\ h[i] # <<>>
      /\ seq[i] = "not" =>
            /\ Len(h[i + 1]) >= 1
            /\ h[i] = Onto(Rules!Entry(Rules!Not(h[i + 1][1].value), h[i + 1][1].binary),
                           Drop(h[i + 1], 1))
      /\ seq[i] \in {"and", "or"} =>
            /\ Len(h[i + 1]) >= 2
            /\ h[i] = Onto(Rules!Entry(Rules!Apply(seq[i], h[i + 1][1].value, h[i + 1][2].value), TRUE),
                           Drop(h[i + 1], 2))
  BY <1>1, ReadsToStep, Zenon
<1>3. Len(h[i]) >= 1
  <2>1. \A x \in Seq(Reference) : x # <<>> => Len(x) >= 1
    OBVIOUS
  <2> QED
    BY <1>2, <2>1, Zenon
<1> DEFINE s == h[i + 1]
<1>4. ASSUME NEW n \in Nat, Len(s) >= n, NEW v, NEW f PROVE Onto(Rules!Entry(v, f), Drop(s, n))[1].binary = f
  <2>1. s \in Seq(Reference)
    BY <1>2
  <2> HIDE DEF s
  <2>2. n \in 0 .. Len(s)
    BY <1>4, <2>1
  <2> DEFINE e == Rules!Entry(v, f)
             t == Drop(s, n)
  <2>3. t \in Seq(Reference)
    BY <2>1, <2>2, DropIs
  <2>4. e.binary = f
    BY DEF Rules!Entry
  <2> HIDE DEF e, t
  <2>5. t \in Seq(Reference \cup {e})
    BY <2>3
  <2>6. Onto(e, t)[1] = e
    BY <2>5, OntoIs
  <2> QED
    BY <2>4, <2>6 DEF e, t
<1>5. 1 \in Nat /\ 2 \in Nat
  OBVIOUS
<1>6. ASSUME seq[i] \in {"and", "or"} PROVE h[i][1].binary = TRUE
  <2> DEFINE v == Rules!Apply(seq[i], s[1].value, s[2].value)
  <2>1. Len(s) >= 2 /\ h[i] = Onto(Rules!Entry(v, TRUE), Drop(s, 2))
    BY <1>2, <1>6, Zenon
  <2> HIDE DEF v, s
  <2>2. Onto(Rules!Entry(v, TRUE), Drop(s, 2))[1].binary = TRUE
    BY <1>4, <1>5, <2>1, Zenon
  <2> QED
    BY <2>1, <2>2, Zenon
<1>7. ASSUME seq[i] = "not" PROVE h[i][1].binary = h[i + 1][1].binary
  <2> DEFINE v == Rules!Not(s[1].value)
             f == s[1].binary
  <2>1. Len(s) >= 1 /\ h[i] = Onto(Rules!Entry(v, f), Drop(s, 1))
    BY <1>2, <1>7, Zenon
  <2> HIDE DEF v, f, s
  <2>2. Onto(Rules!Entry(v, f), Drop(s, 1))[1].binary = f
    BY <1>4, <1>5, <2>1, Zenon
  <2> QED
    BY <2>1, <2>2, Zenon DEF f, s
<1> QED
  BY <1>1, <1>2, <1>3, <1>6, <1>7

\* A part that is passed over leaves the same below what is still to be passed over.
LEMMA FlatSkip ==
  ASSUME NEW seq \in Seq(Part), NEW h, ReadsTo(seq, h), NEW i \in 1 .. Len(seq),
         NEW n \in 1 .. Len(h[i]), NEW m,
         m = IF seq[i] \in Rules!Operator THEN n + Rules!Operand(seq[i]) - 1 ELSE n - 1
  PROVE  m \in 0 .. Len(h[i + 1]) /\ Drop(h[i + 1], m) = Drop(h[i], n)
<1> DEFINE s == h[i + 1]
<1>1. /\ h[i] \in Seq(Reference) /\ s \in Seq(Reference)
      /\ seq[i] \in Rules!Truth => h[i] = Onto(Rules!Entry(seq[i], FALSE), s)
      /\ seq[i] = "not" =>
            /\ Len(s) >= 1
            /\ h[i] = Onto(Rules!Entry(Rules!Not(s[1].value), s[1].binary), Drop(s, 1))
      /\ seq[i] \in {"and", "or"} =>
            /\ Len(s) >= 2
            /\ h[i] = Onto(Rules!Entry(Rules!Apply(seq[i], s[1].value, s[2].value), TRUE), Drop(s, 2))
  BY ReadsToStep, Zenon
<1>2. seq[i] \in Part
  OBVIOUS
<1> HIDE DEF s
<1>3. ASSUME NEW e, NEW k \in 0 .. Len(s), h[i] = Onto(e, Drop(s, k))
      PROVE  Len(h[i]) = Len(s) - k + 1 /\ k + (n - 1) \in 0 .. Len(s)
             /\ Drop(h[i], n) = Drop(s, k + (n - 1))
  <2> DEFINE T == Reference \cup {e}
             t == Drop(s, k)
  <2>1. s \in Seq(T) /\ e \in T
    BY <1>1
  <2>2. t \in Seq(T) /\ Len(t) = Len(s) - k
    BY <2>1, DropIs
  <2> HIDE DEF T, t
  <2>3. Len(Onto(e, t)) = Len(t) + 1
    BY <2>1, <2>2, OntoIs
  <2>4. Len(h[i]) = Len(s) - k + 1
    BY <1>3, <2>2, <2>3 DEF t
  <2>5. /\ Len(s) \in Nat /\ n - 1 \in 0 .. Len(s) - k /\ n - 1 \in 0 .. Len(t) /\ (n - 1) + 1 = n
        /\ k + (n - 1) \in 0 .. Len(s)
    BY <1>1, <2>2, <2>4
  <2>6. Drop(Onto(e, t), (n - 1) + 1) = Drop(t, n - 1)
    BY <2>1, <2>2, <2>5, DropOnto
  <2>7. Drop(Drop(s, k), n - 1) = Drop(s, k + (n - 1))
    BY <2>1, <2>5, DropDrop
  <2> QED
    BY <1>3, <2>4, <2>5, <2>6, <2>7 DEF t
<1>4. Len(s) \in Nat /\ n \in Nat
  BY <1>1
<1>5. CASE seq[i] \in Rules!Truth
  <2>1. 0 \in 0 .. Len(s) /\ Drop(s, 0) = s
    BY <1>1, <1>4, DropNone
  <2>2. m = n - 1 /\ 0 + (n - 1) = n - 1
    BY <1>4, <1>5 DEF Rules!Truth, Rules!Operator
  <2>3. h[i] = Onto(Rules!Entry(seq[i], FALSE), Drop(s, 0))
    BY <1>1, <1>5, <2>1
  <2> QED
    BY <1>3, <2>1, <2>2, <2>3 DEF s
<1>6. CASE seq[i] = "not"
  <2>1. 1 \in 0 .. Len(s)
    BY <1>1, <1>4, <1>6
  <2>2. m = 1 + (n - 1)
    BY <1>4, <1>6 DEF Rules!Operator, Rules!Operand
  <2> QED
    BY <1>1, <1>3, <1>6, <2>1, <2>2 DEF s
<1>7. CASE seq[i] \in {"and", "or"}
  <2> DEFINE e == Rules!Entry(Rules!Apply(seq[i], s[1].value, s[2].value), TRUE)
  <2>1. Len(s) >= 2 /\ h[i] = Onto(e, Drop(s, 2))
    BY <1>1, <1>7, Zenon
  <2>2. m = 2 + (n - 1)
    BY <1>4, <1>7 DEF Rules!Operator, Rules!Operand
  <2> HIDE DEF e
  <2>3. 2 \in 0 .. Len(s)
    BY <1>4, <2>1
  <2> QED
    BY <1>3, <2>1, <2>2, <2>3 DEF s
<1> QED
  BY <1>2, <1>5, <1>6, <1>7 DEF Part, Rules!Operator

\* The stacks below the operators that wait, the one at b for its right operand: its
\* left one, with the entry e, lies above what the operators after it work on.
Chain(o, g, b, e) ==
    \A i \in 1 .. Len(o) : g[i - 1] = Rules!FlatReduce(o[i], IF i = b THEN Onto(e, g[i]) ELSE g[i])

\* Its left operand leaves it open, and only "not" comes after it.
Held(o, b, e, v) ==
    b > 0 => /\ o[b] \in {"and", "or"}
             /\ e.value = v /\ ~Rules!Decides(o[b], v)
             /\ \A i \in b + 1 .. Len(o) : o[i] = "not"

\* An entry of any kind makes a stack longer and lies on it.
LEMMA OntoLonger ==
  \A e : \A s \in Seq(Reference) : Len(Onto(e, s)) = Len(s) + 1 /\ Onto(e, s)[1] = e
<1> SUFFICES ASSUME NEW e, NEW s \in Seq(Reference)
    PROVE  Len(Onto(e, s)) = Len(s) + 1 /\ Onto(e, s)[1] = e
  OBVIOUS
<1> DEFINE T == Reference \cup {e}
<1>1. s \in Seq(T) /\ e \in T
  OBVIOUS
<1> HIDE DEF T
<1> QED
  BY <1>1, OntoIs

\* The stacks under each operator.
Under == [Nat -> Seq(Reference)]

\* An operator is pushed ...
LEMMA ChainPush ==
  ASSUME NEW o \in Seq(Rules!Operator), NEW op \in Rules!Operator, NEW g \in Under,
         NEW b \in 0 .. Len(o), NEW e, Chain(o, g, b, e), NEW s \in Seq(Reference),
         g[Len(o)] = Rules!FlatReduce(op, s)
  PROVE  \E k \in Under : /\ k[0] = g[0] /\ Chain(Append(o, op), k, b, e)
                          /\ k[Len(Append(o, op))] = s
<1> DEFINE n == Len(o)
           p == Append(o, op)
           k == [g EXCEPT ![n + 1] = s]
<1>1. n \in Nat /\ Len(p) = n + 1 /\ p[n + 1] = op /\ \A i \in 1 .. n : p[i] = o[i]
  OBVIOUS
<1>2. g \in [Nat -> Seq(Reference)]
  BY DEF Under
<1>3. k \in Under /\ k[n + 1] = s /\ \A i \in Nat : i # n + 1 => k[i] = g[i]
  <2>1. ASSUME NEW S, NEW f \in [Nat -> S], NEW m \in Nat, NEW x \in S
        PROVE  /\ [f EXCEPT ![m] = x] \in [Nat -> S] /\ [f EXCEPT ![m] = x][m] = x
               /\ \A i \in Nat : i # m => [f EXCEPT ![m] = x][i] = f[i]
    OBVIOUS
  <2>2. n + 1 \in Nat
    BY <1>1
  <2> HIDE DEF n
  <2> QED
    BY <1>2, <2>1, <2>2, Zenon DEF Under
<1> HIDE DEF k, p
<1>4. k[0] = g[0]
  BY <1>1, <1>3
<1>5. ASSUME NEW i \in 1 .. n + 1
      PROVE  k[i - 1] = Rules!FlatReduce(p[i], IF i = b THEN Onto(e, k[i]) ELSE k[i])
  <2>1. CASE i = n + 1
    <3>1. i - 1 = n /\ n \in Nat /\ n # n + 1 /\ i # b
      BY <1>1, <2>1
    <3> QED
      BY <1>1, <1>3, <2>1, <3>1
  <2>2. CASE i # n + 1
    <3>1. i \in 1 .. n /\ i \in Nat /\ i - 1 \in Nat /\ i - 1 # n + 1
      BY <1>1, <2>2
    <3>2. g[i - 1] = Rules!FlatReduce(o[i], IF i = b THEN Onto(e, g[i]) ELSE g[i])
      BY <3>1 DEF Chain
    <3> QED
      BY <1>1, <1>3, <2>2, <3>1, <3>2
  <2> QED
    BY <2>1, <2>2
<1>6. Chain(p, k, b, e)
  BY <1>1, <1>5 DEF Chain
<1> QED
  BY <1>1, <1>3, <1>4, <1>6 DEF p

\* ... and goes when it has its operands.
LEMMA ChainPop ==
  ASSUME NEW o \in Seq(Rules!Operator), o # <<>>, NEW g \in Under,
         NEW b \in 0 .. Len(o), NEW e, NEW v, Chain(o, g, b, e), Held(o, b, e, v)
  PROVE  LET a == IF b = Len(o) THEN 0 ELSE b
             p == Rules!Front(o)
         IN  /\ a \in 0 .. Len(p)
             /\ Chain(p, g, a, e) /\ Held(p, a, e, v)
             /\ Rules!Last(o) = o[Len(o)] /\ Rules!Last(o) \in Rules!Operator
             /\ g[Len(p)] = Rules!FlatReduce(Rules!Last(o), IF b = Len(o) THEN Onto(e, g[Len(o)])
                                                            ELSE g[Len(o)])
             /\ g[Len(p)] \in Seq(Reference) /\ g[Len(o)] \in Seq(Reference)
<1> DEFINE a == IF b = Len(o) THEN 0 ELSE b
           p == Rules!Front(o)
<1>1. PICK m \in Nat : /\ Len(o) = m + 1 /\ p \in Seq(Rules!Operator)
                       /\ Len(p) = m
                       /\ \A i \in 1 .. m : p[i] = o[i]
                       /\ o[m + 1] \in Rules!Operator
  BY FrontIs, Zenon DEF Rules!Front
<1> HIDE DEF p
<1>2. Rules!Last(o) = o[m + 1]
  BY <1>1, Zenon DEF Rules!Last
<1>3. \A i \in 1 .. m + 1 : g[i - 1] = Rules!FlatReduce(o[i], IF i = b THEN Onto(e, g[i]) ELSE g[i])
  BY <1>1 DEF Chain
<1>4. a \in 0 .. m /\ \A i \in 1 .. m : i = a <=> i = b
  BY <1>1
<1>5. Chain(p, g, a, e)
  <2>1. ASSUME NEW i \in 1 .. m
        PROVE  g[i - 1] = Rules!FlatReduce(p[i], IF i = a THEN Onto(e, g[i]) ELSE g[i])
    <3>1. i \in 1 .. m + 1
      OBVIOUS
    <3> HIDE DEF a
    <3> QED
      BY <1>1, <1>3, <1>4, <3>1
  <2> QED
    BY <1>1, <2>1 DEF Chain
<1>6. Held(p, a, e, v)
  <2>1. SUFFICES ASSUME a > 0 PROVE Held(p, a, e, v)
    BY DEF Held
  <2>2. b > 0 /\ a = b /\ b \in 1 .. m
    BY <1>1, <2>1
  <2>3. \A i \in b + 1 .. m : i \in b + 1 .. m + 1 /\ i \in 1 .. m
    BY <2>2
  <2> HIDE DEF a
  <2> QED
    BY <1>1, <2>2, <2>3 DEF Held
<1>7. g[m] = Rules!FlatReduce(o[m + 1], IF b = m + 1 THEN Onto(e, g[m + 1]) ELSE g[m + 1])
  <2>1. m + 1 \in 1 .. m + 1 /\ m + 1 - 1 = m
    OBVIOUS
  <2> QED
    BY <1>3, <2>1
<1>8. g[m] \in Seq(Reference) /\ g[m + 1] \in Seq(Reference)
  BY DEF Under
<1> QED
  BY <1>1, <1>2, <1>4, <1>5, <1>6, <1>7, <1>8 DEF p

\* The operator on top waits for its right operand.
LEMMA ChainHold ==
  ASSUME NEW o \in Seq(Rules!Operator), o # <<>>, NEW g \in Under, NEW x, Chain(o, g, 0, x),
         NEW e, NEW s \in Seq(Reference), g[Len(o)] = Onto(e, s)
  PROVE  \E k \in Under : k[0] = g[0] /\ Chain(o, k, Len(o), e) /\ k[Len(o)] = s
<1> DEFINE n == Len(o)
           k == [g EXCEPT ![n] = s]
<1>1. n \in Nat /\ n # 0
  OBVIOUS
<1>2. g \in [Nat -> Seq(Reference)]
  BY DEF Under
<1>3. k \in Under /\ k[n] = s /\ \A i \in Nat : i # n => k[i] = g[i]
  BY <1>1, <1>2 DEF Under
<1> HIDE DEF k
<1>4. ASSUME NEW i \in 1 .. n
      PROVE  k[i - 1] = Rules!FlatReduce(o[i], IF i = n THEN Onto(e, k[i]) ELSE k[i])
  <2>1. i - 1 \in Nat /\ i - 1 # n /\ i # 0 /\ i \in Nat
    BY <1>1
  <2>2. g[i - 1] = Rules!FlatReduce(o[i], g[i])
    BY <2>1 DEF Chain
  <2>3. k[i - 1] = g[i - 1]
    BY <1>3, <2>1
  <2> QED
    BY <1>3, <2>1, <2>2, <2>3
<1>5. Chain(o, k, n, e)
  BY <1>4 DEF Chain
<1> QED
  BY <1>1, <1>3, <1>5

\* One value or two.
LEMMA FewValues ==
  \A s \in Seq(Rules!Truth), w \in Rules!Truth :
         /\ Len(s) = 0 <=> s = <<>>
         /\ s = <<>> => Len(Append(s, w)) = 1 /\ Append(s, w)[1] = w
         /\ Len(s) = 1 => LET c == Append(SubSeq(s, 1, Len(s) - 1), w)
                              d == Append(s, w)
                          IN  /\ s[1] \in Rules!Truth /\ Rules!Last(s) = s[1] /\ s # <<>>
                              /\ Len(c) = 1 /\ c[1] = w
                              /\ Len(d) = 2 /\ d[1] = s[1] /\ d[2] = w
         /\ Len(s) = 2 => LET c == Append(SubSeq(s, 1, Len(s) - 1), w)
                              d == Append(SubSeq(s, 1, Len(s) - 2), w)
                          IN  /\ s[1] \in Rules!Truth /\ s[2] \in Rules!Truth /\ Rules!Last(s) = s[2]
                              /\ Rules!Last(Rules!Front(s)) = s[1]
                              /\ Len(c) = 2 /\ c[1] = s[1] /\ c[2] = w
                              /\ Len(d) = 1 /\ d[1] = w
<1> DEFINE T == Rules!Truth
<1> SUFFICES ASSUME NEW s \in Seq(T), NEW w \in T
    PROVE
         /\ Len(s) = 0 <=> s = <<>>
         /\ s = <<>> => Len(Append(s, w)) = 1 /\ Append(s, w)[1] = w
         /\ Len(s) = 1 => LET c == Append(SubSeq(s, 1, Len(s) - 1), w)
                              d == Append(s, w)
                          IN  /\ s[1] \in T /\ Rules!Last(s) = s[1] /\ s # <<>>
                              /\ Len(c) = 1 /\ c[1] = w
                              /\ Len(d) = 2 /\ d[1] = s[1] /\ d[2] = w
         /\ Len(s) = 2 => LET c == Append(SubSeq(s, 1, Len(s) - 1), w)
                              d == Append(SubSeq(s, 1, Len(s) - 2), w)
                          IN  /\ s[1] \in T /\ s[2] \in T /\ Rules!Last(s) = s[2]
                              /\ Rules!Last(Rules!Front(s)) = s[1]
                              /\ Len(c) = 2 /\ c[1] = s[1] /\ c[2] = w
                              /\ Len(d) = 1 /\ d[1] = w
  OBVIOUS
<1> HIDE DEF T
<1>1. Len(s) = 0 <=> s = <<>>
  OBVIOUS
<1>2. \A r \in Seq(T) : /\ Len(Append(r, w)) = Len(r) + 1 /\ Append(r, w)[Len(r) + 1] = w
                         /\ \A i \in 1 .. Len(r) : Append(r, w)[i] = r[i]
  OBVIOUS
<1>3. ASSUME NEW n \in Nat, n <= Len(s)
      PROVE  /\ SubSeq(s, 1, n) \in Seq(T) /\ Len(SubSeq(s, 1, n)) = n
             /\ \A i \in 1 .. n : SubSeq(s, 1, n)[i] = s[i] /\ s[i] \in T
  BY <1>3
<1>4. /\ 0 + 1 = 1 /\ 1 + 1 = 2 /\ 1 - 1 = 0 /\ 2 - 1 = 1 /\ 2 - 2 = 0 /\ 0 \in Nat /\ 1 \in Nat /\ 2 \in Nat
      /\ 1 \in 1 .. 1 /\ 1 \in 1 .. 2 /\ 2 \in 1 .. 2 /\ 0 <= 1 /\ 0 <= 2 /\ 1 <= 2 /\ 1 <= 1 /\ 2 <= 2
  OBVIOUS
<1>5. s = <<>> => Len(Append(s, w)) = 1 /\ Append(s, w)[1] = w
  BY <1>1, <1>2, <1>4, Zenon
<1>6. ASSUME Len(s) = 1
      PROVE  LET c == Append(SubSeq(s, 1, Len(s) - 1), w)
                 d == Append(s, w)
             IN  /\ s[1] \in T /\ Rules!Last(s) = s[1] /\ s # <<>>
                 /\ Len(c) = 1 /\ c[1] = w
                 /\ Len(d) = 2 /\ d[1] = s[1] /\ d[2] = w
  <2>1. s[1] \in T /\ s # <<>>
    BY <1>6
  <2>2. SubSeq(s, 1, 0) \in Seq(T) /\ Len(SubSeq(s, 1, 0)) = 0
    BY <1>3, <1>4, <1>6, Zenon
  <2>3. Len(Append(SubSeq(s, 1, 0), w)) = 1 /\ Append(SubSeq(s, 1, 0), w)[1] = w
    BY <1>2, <1>4, <2>2, Zenon
  <2>4. Len(Append(s, w)) = 2 /\ Append(s, w)[1] = s[1] /\ Append(s, w)[2] = w
    BY <1>2, <1>4, <1>6, Zenon
  <2> QED
    BY <1>4, <1>6, <2>1, <2>3, <2>4, Zenon DEF Rules!Last
<1>7. ASSUME Len(s) = 2
      PROVE  LET c == Append(SubSeq(s, 1, Len(s) - 1), w)
                 d == Append(SubSeq(s, 1, Len(s) - 2), w)
             IN  /\ s[1] \in T /\ s[2] \in T /\ Rules!Last(s) = s[2]
                 /\ Rules!Last(Rules!Front(s)) = s[1]
                 /\ Len(c) = 2 /\ c[1] = s[1] /\ c[2] = w
                 /\ Len(d) = 1 /\ d[1] = w
  <2>1. s[1] \in T /\ s[2] \in T
    BY <1>3, <1>4, <1>7, Zenon
  <2>2. SubSeq(s, 1, 0) \in Seq(T) /\ Len(SubSeq(s, 1, 0)) = 0
    BY <1>3, <1>4, <1>7, Zenon
  <2>3. Len(Append(SubSeq(s, 1, 0), w)) = 1 /\ Append(SubSeq(s, 1, 0), w)[1] = w
    BY <1>2, <1>4, <2>2, Zenon
  <2>4. SubSeq(s, 1, 1) \in Seq(T) /\ Len(SubSeq(s, 1, 1)) = 1 /\ SubSeq(s, 1, 1)[1] = s[1]
    BY <1>3, <1>4, <1>7, Zenon
  <2>5. /\ Len(Append(SubSeq(s, 1, 1), w)) = 2 /\ Append(SubSeq(s, 1, 1), w)[1] = s[1]
        /\ Append(SubSeq(s, 1, 1), w)[2] = w
    BY <1>2, <1>4, <2>4, Zenon
  <2>6. Rules!Last(s) = s[2] /\ Rules!Last(Rules!Front(s)) = s[1]
    BY <1>4, <1>7, <2>4, Zenon DEF Rules!Last, Rules!Front
  <2> QED
    BY <1>4, <1>7, <2>1, <2>3, <2>5, <2>6, Zenon
<1> QED
  BY <1>1, <1>5, <1>6, <1>7, Zenon

\* What the parts that are neither read nor to be passed over leave on the stack.
Ahead(h) == Drop(h[pos], shortCircuit)

\* No value was read; one was, and no operator waits for another; one is held by an
\* operator that waits; and its right operand was read as well.
Unread(h, t, b) ==
    /\ ~settling /\ values = <<>> /\ shortCircuit = 0
    /\ b = 0 /\ t = Ahead(h)
OneRead(h, t, b) ==
    /\ Len(values) = 1 /\ (~settling => ops = <<>>)
    /\ b = 0 /\ \E f \in BOOLEAN : t = Onto(Rules!Entry(values[1], f), Ahead(h))
OneHeld(h, t, b) ==
    /\ ~settling /\ Len(values) = 1
    /\ b > 0 /\ t = Ahead(h) /\ Len(t) >= 1 /\ t[1].binary = FALSE
BothRead(h, t, b) ==
    /\ settling /\ Len(values) = 2 /\ shortCircuit = 0
    /\ b > 0 /\ t = Onto(Rules!Entry(values[2], FALSE), Ahead(h))

FlatAt(h, g, b, e) ==
    /\ g[0] = h[1] /\ shortCircuit <= Len(h[pos])
    /\ Chain(ops, g, b, e) /\ Held(ops, b, e, values[1])
    /\ \/ Unread(h, g[Len(ops)], b) \/ OneRead(h, g[Len(ops)], b)
       \/ OneHeld(h, g[Len(ops)], b) \/ BothRead(h, g[Len(ops)], b)

\* What was read and what is ahead make up the stack at the beginning.
FlatInv(h) == \E g \in Under, b \in 0 .. Len(ops), e \in Reference : FlatAt(h, g, b, e)

\* The kinds of what the machine works on.
LEMMA AheadIs ==
  ASSUME RulesInv, mode = "eval", NEW h, FlatReadsTo(parts, h), shortCircuit <= Len(h[pos])
  PROVE  /\ parts \in Seq(Part) /\ Len(parts) \in Nat /\ pos \in 1 .. Len(parts) + 1
         /\ shortCircuit \in Nat /\ values \in Seq(Rules!Truth) /\ ops \in Seq(Rules!Operator)
         /\ settling \in BOOLEAN
         /\ h[pos] \in Seq(Reference) /\ Len(h[pos]) \in Nat
         /\ Ahead(h) \in Seq(Reference) /\ Len(Ahead(h)) = Len(h[pos]) - shortCircuit
         /\ shortCircuit = 0 => Ahead(h) = h[pos]
<1>1. /\ parts \in Seq(Part) /\ Len(parts) \in Nat /\ pos \in 1 .. Len(parts) + 1
      /\ shortCircuit \in Nat /\ values \in Seq(Rules!Truth) /\ ops \in Seq(Rules!Operator)
      /\ settling \in BOOLEAN
  <2>1. RulesType /\ \A s \in Seq(Part) : Len(s) \in Nat
    BY DEF RulesInv
  <2> QED
    BY <2>1 DEF RulesType, Part
<1>2. h[pos] \in Seq(Reference)
  BY <1>1 DEF FlatReadsTo, ReadsTo
<1>3. Len(h[pos]) \in Nat /\ shortCircuit \in 0 .. Len(h[pos])
  BY <1>1, <1>2
<1>4. Ahead(h) \in Seq(Reference) /\ Len(Ahead(h)) = Len(h[pos]) - shortCircuit
  BY <1>2, <1>3, DropIs DEF Ahead
<1>5. shortCircuit = 0 => Ahead(h) = h[pos]
  BY <1>2, DropNone DEF Ahead
<1> QED
  BY <1>1, <1>2, <1>3, <1>4, <1>5

\* Nothing is ahead of the value of the whole condition.
LEMMA StillOpen ==
  ASSUME RulesInv, mode = "eval", NEW h, FlatReadsTo(parts, h),
         NEW g \in Under, NEW b \in 0 .. Len(ops), NEW e \in Reference, FlatAt(h, g, b, e),
         ~settling, shortCircuit = 0, pos <= Len(parts)
  PROVE  ~OneRead(h, g[Len(ops)], b)
<1>1. SUFFICES ASSUME OneRead(h, g[Len(ops)], b) PROVE FALSE
  OBVIOUS
<1>2. /\ parts \in Seq(Part) /\ Len(parts) \in Nat /\ pos \in 1 .. Len(parts)
      /\ Ahead(h) = h[pos] /\ h[pos] \in Seq(Reference)
  <2>1. /\ parts \in Seq(Part) /\ Len(parts) \in Nat /\ pos \in 1 .. Len(parts) + 1
        /\ (shortCircuit = 0 => Ahead(h) = h[pos]) /\ h[pos] \in Seq(Reference)
    BY AheadIs DEF FlatAt
  <2> QED
    BY <2>1
<1>3. Len(h[pos]) >= 1
  BY <1>2, FlatStep
<1>4. ops = <<>> /\ Len(ops) = 0
  BY <1>1 DEF OneRead
<1>5. PICK f \in BOOLEAN : h[1] = Onto(Rules!Entry(values[1], f), h[pos])
  BY <1>1, <1>2, <1>4 DEF OneRead, FlatAt
<1>6. Len(h[1]) = Len(h[pos]) + 1
  BY <1>2, <1>5, OntoLonger, Zenon
<1>7. Len(h[1]) = 1 /\ Len(h[pos]) \in Nat
  BY <1>2 DEF FlatReadsTo, ReadsTo
<1>8. \A n \in Nat : n >= 1 => n + 1 # 1
  OBVIOUS
<1> QED
  BY <1>3, <1>6, <1>7, <1>8, Zenon

\* try_run reads an operator.
LEMMA FlatPushOperator ==
  ASSUME RulesInv, mode = "eval", NEW h, FlatReadsTo(parts, h), FlatInv(h),
         Rules!PushOperator
  PROVE  FlatInv(h)'
<1>1. PICK g \in Under, b \in 0 .. Len(ops), e \in Reference : FlatAt(h, g, b, e)
  BY DEF FlatInv
<1>2. /\ ~settling /\ pos <= Len(parts) /\ parts[pos] \in Rules!Operator /\ shortCircuit = 0
      /\ ops' = Append(ops, parts[pos]) /\ pos' = pos + 1
      /\ UNCHANGED <<settling, shortCircuit, values>>
  BY DEF Rules!PushOperator, Rules!Reading
<1>3. /\ parts \in Seq(Part) /\ Len(parts) \in Nat /\ pos \in 1 .. Len(parts)
      /\ ops \in Seq(Rules!Operator) /\ Ahead(h) = h[pos] /\ h[pos] \in Seq(Reference)
  <2>1. /\ parts \in Seq(Part) /\ Len(parts) \in Nat /\ pos \in 1 .. Len(parts) + 1
        /\ ops \in Seq(Rules!Operator) /\ (shortCircuit = 0 => Ahead(h) = h[pos]) /\ h[pos] \in Seq(Reference)
    BY <1>1, AheadIs DEF FlatAt
  <2> QED
    BY <1>2, <2>1
<1> DEFINE op == parts[pos]
           s == h[pos + 1]
<1>4. /\ Len(h[pos]) >= 1 /\ s \in Seq(Reference) /\ h[pos] = Rules!FlatReduce(op, s)
      /\ op \in {"and", "or"} => h[pos][1].binary = TRUE
      /\ op = "not" => Len(s) >= 1 /\ h[pos][1].binary = s[1].binary
  BY <1>3, FlatStep, Zenon
<1>5. Ahead(h)' = s
  BY <1>2, <1>4, DropNone DEF Ahead
<1>6. shortCircuit' <= Len(h[pos'])
  <2>1. \A x \in Seq(Reference) : 0 <= Len(x)
    OBVIOUS
  <2> QED
    BY <1>2, <1>4, <2>1, Zenon
<1>7. Len(ops) \in Nat /\ Len(ops') = Len(ops) + 1 /\ ops'[Len(ops) + 1] = op
        /\ \A i \in 1 .. Len(ops) : ops'[i] = ops[i]
  BY <1>2, <1>3
<1>8. g[Len(ops)] = h[pos] /\ (Unread(h, g[Len(ops)], b) \/ OneHeld(h, g[Len(ops)], b))
  <2>1. OneRead(h, g[Len(ops)], b) => FALSE
    BY <1>1, <1>2, StillOpen
  <2>2. BothRead(h, g[Len(ops)], b) => FALSE
    BY <1>2 DEF BothRead
  <2> QED
    BY <1>1, <1>3, <2>1, <2>2 DEF FlatAt, Unread, OneHeld
<1>9. PICK k \in Under : k[0] = g[0] /\ Chain(ops', k, b, e) /\ k[Len(ops')] = s
  <2>1. g[Len(ops)] = Rules!FlatReduce(op, s) /\ Chain(ops, g, b, e)
    BY <1>1, <1>4, <1>8 DEF FlatAt
  <2> HIDE DEF s, op
  <2> QED
    BY <1>2, <1>3, <1>4, <2>1, ChainPush DEF op
<1>10. b \in 0 .. Len(ops')
  BY <1>7
<1>11. Held(ops', b, e, values[1]) /\ (Unread(h, k[Len(ops)], b)' \/ OneHeld(h, k[Len(ops)], b)')
  <2>1. CASE Unread(h, g[Len(ops)], b)
    BY <1>2, <1>5, <1>9, <2>1 DEF Unread, Held
  <2>2. CASE OneHeld(h, g[Len(ops)], b)
    <3>1. h[pos][1].binary = FALSE /\ b > 0 /\ Len(values) = 1
      BY <1>8, <2>2 DEF OneHeld
    <3>2. op = "not"
      BY <1>2, <1>4, <3>1 DEF Rules!Operator
    <3>3. Len(s) >= 1 /\ s[1].binary = FALSE
      BY <1>4, <3>1, <3>2
    <3>4. OneHeld(h, k[Len(ops)], b)'
      BY <1>2, <1>5, <1>9, <3>1, <3>3 DEF OneHeld
    <3>5. Held(ops, b, e, values[1])
      BY <1>1 DEF FlatAt
    <3>6. \A i \in b + 1 .. Len(ops') : i = Len(ops) + 1 \/ (i \in b + 1 .. Len(ops) /\ i \in 1 .. Len(ops))
      BY <1>7
    <3>7. b \in 1 .. Len(ops)
      BY <3>1
    <3>8. Held(ops', b, e, values[1])
      BY <1>7, <3>2, <3>5, <3>6, <3>7 DEF Held
    <3> QED
      BY <3>4, <3>8
  <2> QED
    BY <1>8, <2>1, <2>2
<1>12. FlatAt(h, k, b, e)'
  BY <1>1, <1>2, <1>6, <1>9, <1>11 DEF FlatAt
<1> QED
  BY <1>10, <1>12 DEF FlatInv

\* try_run reads a value.
LEMMA FlatPushValue ==
  ASSUME RulesInv, mode = "eval", NEW h, FlatReadsTo(parts, h), FlatInv(h),
         Rules!PushValue
  PROVE  FlatInv(h)'
<1>1. PICK g \in Under, b \in 0 .. Len(ops), e \in Reference : FlatAt(h, g, b, e)
  BY DEF FlatInv
<1>2. /\ ~settling /\ pos <= Len(parts) /\ parts[pos] \in Rules!Truth /\ shortCircuit = 0
      /\ values' = Append(values, parts[pos]) /\ pos' = pos + 1 /\ settling' = TRUE
      /\ UNCHANGED <<shortCircuit, ops>>
  BY DEF Rules!PushValue, Rules!Reading
<1> DEFINE v == parts[pos]
           s == h[pos + 1]
<1>3. /\ parts \in Seq(Part) /\ Len(parts) \in Nat /\ pos \in 1 .. Len(parts)
      /\ values \in Seq(Rules!Truth) /\ Ahead(h) = h[pos] /\ h[pos] \in Seq(Reference)
  <2>1. /\ parts \in Seq(Part) /\ Len(parts) \in Nat /\ pos \in 1 .. Len(parts) + 1
        /\ values \in Seq(Rules!Truth) /\ (shortCircuit = 0 => Ahead(h) = h[pos]) /\ h[pos] \in Seq(Reference)
    BY <1>1, AheadIs DEF FlatAt
  <2> QED
    BY <1>2, <2>1
<1>4. s \in Seq(Reference) /\ h[pos] = Onto(Rules!Entry(v, FALSE), s)
  BY <1>2, <1>3, ReadsToStep, Zenon DEF FlatReadsTo
<1>5. Ahead(h)' = s
  BY <1>2, <1>4, DropNone DEF Ahead
<1>6. shortCircuit' <= Len(h[pos'])
  <2>1. \A x \in Seq(Reference) : 0 <= Len(x)
    OBVIOUS
  <2> QED
    BY <1>2, <1>4, <2>1, Zenon
<1> DEFINE t == g[Len(ops)]
<1>7. Unread(h, t, b) \/ OneHeld(h, t, b)
  <2>1. ~OneRead(h, t, b)
    BY <1>1, <1>2, StillOpen
  <2>2. ~BothRead(h, t, b)
    BY <1>2 DEF BothRead
  <2> QED
    BY <1>1, <2>1, <2>2 DEF FlatAt
<1>8. /\ (values = <<>> => Len(values') = 1 /\ values'[1] = v)
      /\ (Len(values) = 1 => Len(values') = 2 /\ values'[1] = values[1] /\ values'[2] = v)
  BY <1>2, <1>3, FewValues, Zenon
<1> HIDE DEF s, v
<1>9. CASE Unread(h, t, b)
  <2>1. OneRead(h, t, b)'
    BY <1>2, <1>3, <1>4, <1>5, <1>8, <1>9 DEF Unread, OneRead
  <2>2. Held(ops', b, e, values'[1])
    BY <1>9 DEF Unread, Held
  <2>3. FlatAt(h, g, b, e)'
    BY <1>1, <1>2, <1>6, <2>1, <2>2 DEF FlatAt
  <2> QED
    BY <1>2, <2>3 DEF FlatInv
<1>10. CASE OneHeld(h, t, b)
  <2>1. BothRead(h, t, b)'
    BY <1>2, <1>3, <1>4, <1>5, <1>8, <1>10 DEF OneHeld, BothRead
  <2>2. Held(ops', b, e, values'[1])
    BY <1>1, <1>2, <1>8, <1>10 DEF OneHeld, FlatAt
  <2>3. FlatAt(h, g, b, e)'
    BY <1>1, <1>2, <1>6, <2>1, <2>2 DEF FlatAt
  <2> QED
    BY <1>2, <2>3 DEF FlatInv
<1> QED
  BY <1>7, <1>9, <1>10

\* A part is passed over.
LEMMA FlatSkipPart ==
  ASSUME RulesInv, mode = "eval", NEW h, FlatReadsTo(parts, h), FlatInv(h),
         Rules!SkipPart
  PROVE  FlatInv(h)'
<1>1. PICK g \in Under, b \in 0 .. Len(ops), e \in Reference : FlatAt(h, g, b, e)
  BY DEF FlatInv
<1>2. /\ ~settling /\ pos <= Len(parts) /\ shortCircuit > 0
      /\ shortCircuit' = (IF parts[pos] \in Rules!Operator
                          THEN shortCircuit + Rules!Operand(parts[pos]) - 1
                          ELSE shortCircuit - 1)
      /\ pos' = pos + 1 /\ UNCHANGED <<settling, ops, values>>
  BY DEF Rules!SkipPart, Rules!Reading
<1>3. /\ parts \in Seq(Part) /\ Len(parts) \in Nat /\ pos \in 1 .. Len(parts)
      /\ shortCircuit \in 1 .. Len(h[pos])
  <2>1. /\ parts \in Seq(Part) /\ Len(parts) \in Nat /\ pos \in 1 .. Len(parts) + 1
        /\ shortCircuit \in Nat /\ Len(h[pos]) \in Nat /\ shortCircuit <= Len(h[pos])
    BY <1>1, AheadIs DEF FlatAt
  <2> QED
    BY <1>2, <2>1
<1>4. shortCircuit' \in 0 .. Len(h[pos + 1]) /\ Drop(h[pos + 1], shortCircuit') = Drop(h[pos], shortCircuit)
  <2> DEFINE m == IF parts[pos] \in Rules!Operator
                  THEN shortCircuit + Rules!Operand(parts[pos]) - 1
                  ELSE shortCircuit - 1
  <2>1. ReadsTo(parts, h)
    BY DEF FlatReadsTo
  <2>2. m \in 0 .. Len(h[pos + 1]) /\ Drop(h[pos + 1], m) = Drop(h[pos], shortCircuit)
    BY <1>3, <2>1, FlatSkip
  <2>3. shortCircuit' = m
    BY <1>2
  <2> HIDE DEF m
  <2> QED
    BY <2>2, <2>3, Zenon
<1>5. Ahead(h)' = Ahead(h) /\ shortCircuit' <= Len(h[pos'])
  BY <1>2, <1>4 DEF Ahead
<1> DEFINE t == g[Len(ops)]
<1>6. OneRead(h, t, b) \/ OneHeld(h, t, b)
  <2>1. ~Unread(h, t, b)
    BY <1>2 DEF Unread
  <2>2. ~BothRead(h, t, b)
    BY <1>2 DEF BothRead
  <2> QED
    BY <1>1, <2>1, <2>2 DEF FlatAt
<1>7. OneRead(h, t, b)' \/ OneHeld(h, t, b)'
  <2>1. OneRead(h, t, b) => OneRead(h, t, b)'
    BY <1>2, <1>5 DEF OneRead
  <2>2. OneHeld(h, t, b) => OneHeld(h, t, b)'
    BY <1>2, <1>5 DEF OneHeld
  <2> QED
    BY <1>6, <2>1, <2>2
<1>8. FlatAt(h, g, b, e)'
  BY <1>1, <1>2, <1>5, <1>7 DEF FlatAt
<1> QED
  BY <1>2, <1>8 DEF FlatInv

\* Nothing more can be reduced.
LEMMA FlatSettled ==
  ASSUME RulesInv, mode = "eval", NEW h, FlatReadsTo(parts, h), FlatInv(h),
         Rules!Settled
  PROVE  FlatInv(h)'
<1>1. PICK g \in Under, b \in 0 .. Len(ops), e \in Reference : FlatAt(h, g, b, e)
  BY DEF FlatInv
<1>2. /\ settling /\ settling' = FALSE /\ ~Rules!Enough /\ ~Rules!Cut
      /\ UNCHANGED <<pos, shortCircuit, ops, values>>
  BY DEF Rules!Settled
<1>3. /\ ops \in Seq(Rules!Operator) /\ values \in Seq(Rules!Truth)
      /\ Ahead(h) \in Seq(Reference)
  BY <1>1, AheadIs DEF FlatAt
<1>4. Ahead(h)' = Ahead(h)
  BY <1>2 DEF Ahead
<1> DEFINE t == g[Len(ops)]
<1>5. \A n \in {1, 2} : 2 >= n /\ (1 >= n \/ n = 2)
  OBVIOUS
<1>6. ASSUME ops # <<>> PROVE Rules!Last(ops) = ops[Len(ops)] /\ ops[Len(ops)] \in Rules!Operator
                              /\ Len(ops) \in 1 .. Len(ops)
  <2>1. Len(ops) \in 1 .. Len(ops)
    BY <1>3, <1>6
  <2> QED
    BY <1>3, <2>1 DEF Rules!Last
<1>7. OneRead(h, t, b)
  <2>1. ASSUME BothRead(h, t, b) PROVE FALSE
    <3>1. b # 0 /\ Len(values) = 2
      BY <2>1 DEF BothRead
    <3>2. ops # <<>>
      <4>1. ASSUME ops = <<>> PROVE FALSE
        <5>1. Len(ops) = 0
          BY <4>1
        <5> QED
          BY <3>1, <5>1
      <4> QED
        BY <4>1
    <3>3. Rules!Operand(Rules!Last(ops)) \in {1, 2}
      BY <1>6, <3>2, OperandIs
    <3> QED
      BY <1>2, <1>5, <3>1, <3>2, <3>3 DEF Rules!Enough
  <2> QED
    BY <1>1, <1>2, <2>1 DEF FlatAt, Unread, OneHeld
<1>8. CASE ops = <<>>
  <2>1. OneRead(h, t, b)'
    BY <1>2, <1>4, <1>7, <1>8 DEF OneRead
  <2>2. FlatAt(h, g, b, e)'
    BY <1>1, <1>2, <2>1 DEF FlatAt
  <2> QED
    BY <1>2, <2>2 DEF FlatInv
<1>9. CASE ops # <<>>
  <2> DEFINE s == Ahead(h)
             o == ops[Len(ops)]
  <2>1. PICK f \in BOOLEAN : t = Onto(Rules!Entry(values[1], f), s)
    BY <1>7 DEF OneRead
  <2>2. b = 0 /\ Len(values) = 1
    BY <1>7 DEF OneRead
  <2>3. /\ values[1] \in Rules!Truth /\ Rules!Last(values) = values[1] /\ values # <<>>
    <3>1. "T" \in Rules!Truth
      BY DEF Rules!Truth
    <3> QED
      BY <1>3, <2>2, <3>1, FewValues, Zenon
  <2>4. o \in {"and", "or"} /\ ~Rules!Decides(o, values[1])
    <3>1. o \in Rules!Operator /\ Rules!Last(ops) = o
      BY <1>6, <1>9
    <3>2. ~(1 >= Rules!Operand(o)) /\ ~Rules!Decides(o, values[1])
      BY <1>2, <1>9, <2>2, <2>3, <3>1, Zenon DEF Rules!Enough, Rules!Cut
    <3>3. o # "not"
      <4>1. o = "not" => Rules!Operand(o) = 1
        BY DEF Rules!Operand
      <4>2. 1 >= 1
        OBVIOUS
      <4> QED
        BY <3>2, <4>1, <4>2, Zenon
    <3> QED
      BY <3>1, <3>2, <3>3 DEF Rules!Operator
  <2>5. PICK x \in Reference : x.value = values[1] /\ x = Rules!Entry(values[1], f)
    BY <2>3 DEF Rules!Entry, Reference
  <2>6. t = Onto(x, s)
    BY <2>1, <2>5
  <2>7. Chain(ops, g, 0, e)
    BY <1>1, <2>2 DEF FlatAt
  <2>8. Len(s) >= 1 /\ s[1].binary = FALSE
    <3>1. Rules!FlatReduce(o, Onto(x, s)) = g[Len(ops) - 1]
      <4>1. Len(ops) \in 1 .. Len(ops) /\ Len(ops) # 0
        BY <1>6, <1>9
      <4> QED
        BY <2>6, <2>7, <4>1 DEF Chain
    <3>2. g[Len(ops) - 1] \in Seq(Reference)
      <4>1. Len(ops) - 1 \in Nat
        BY <1>6, <1>9
      <4> QED
        BY <4>1 DEF Under
    <3> HIDE DEF o, s
    <3>3. Rules!FlatReduce(o, Onto(x, s)) \in Seq(Reference) /\ s \in Seq(Reference)
      BY <1>3, <3>1, <3>2, Zenon DEF s
    <3> QED
      BY <2>4, <2>5, <3>3, BinaryOnto, Zenon DEF o
  <2>9. PICK n \in Nat : n = Len(ops) /\ n > 0
    BY <1>3, <1>9
  <2>10. PICK k \in Under : k[0] = g[0] /\ Chain(ops, k, n, x) /\ k[n] = s
    BY <1>3, <1>9, <2>6, <2>7, <2>9, ChainHold
  <2>11. OneHeld(h, k[Len(ops)], n)'
    BY <1>2, <1>4, <2>2, <2>8, <2>9, <2>10 DEF OneHeld
  <2>12. Held(ops', n, x, values'[1])
    <3>1. \A i \in n + 1 .. n : FALSE
      OBVIOUS
    <3> QED
      BY <1>2, <2>4, <2>5, <2>9, <3>1 DEF Held
  <2>13. FlatAt(h, k, n, x)'
    BY <1>1, <1>2, <2>10, <2>11, <2>12 DEF FlatAt
  <2>14. n \in 0 .. Len(ops')
    BY <1>2, <2>9
  <2> QED
    BY <2>5, <2>13, <2>14 DEF FlatInv
<1> QED
  BY <1>8, <1>9

\* The operator on top has its operands.
LEMMA FlatOperate ==
  ASSUME RulesInv, mode = "eval", NEW h, FlatReadsTo(parts, h), FlatInv(h),
         Rules!OperateTop
  PROVE  FlatInv(h)'
<1>1. PICK g \in Under, b \in 0 .. Len(ops), e \in Reference : FlatAt(h, g, b, e)
  BY DEF FlatInv
<1> DEFINE o == Rules!Last(ops)
           t == g[Len(ops)]
<1>2. /\ settling /\ ops # <<>> /\ Len(values) >= Rules!Operand(o)
      /\ ops' = Rules!Front(ops)
      /\ values' = Append(SubSeq(values, 1, Len(values) - Rules!Operand(o)),
                          IF o = "not" THEN Rules!Not(Rules!Last(values))
                          ELSE Rules!Operate(o, Rules!Last(Rules!Front(values)), Rules!Last(values)))
      /\ UNCHANGED <<pos, settling, shortCircuit>>
  BY DEF Rules!OperateTop, Rules!Enough
<1>3. /\ ops \in Seq(Rules!Operator) /\ values \in Seq(Rules!Truth)
      /\ Ahead(h) \in Seq(Reference)
  BY <1>1, AheadIs DEF FlatAt
<1>4. Ahead(h)' = Ahead(h)
  BY <1>2 DEF Ahead
<1>5. PICK a \in Nat : a = IF b = Len(ops) THEN 0 ELSE b
  OBVIOUS
<1>6. /\ a \in 0 .. Len(ops') /\ Chain(ops', g, a, e) /\ Held(ops', a, e, values[1])
      /\ o = ops[Len(ops)] /\ o \in Rules!Operator
      /\ g[Len(ops')] = Rules!FlatReduce(o, IF b = Len(ops) THEN Onto(e, t) ELSE t)
      /\ g[Len(ops')] \in Seq(Reference) /\ t \in Seq(Reference)
  BY <1>1, <1>2, <1>3, <1>5, ChainPop DEF FlatAt
<1>7. OneRead(h, t, b) \/ BothRead(h, t, b)
  BY <1>1, <1>2 DEF FlatAt, Unread, OneHeld
<1>8. Len(ops) > 0
  BY <1>2, <1>3
<1>9. \A v \in Rules!Truth : Rules!Not(v) \in Rules!Truth
  BY DEF Rules!Not, Rules!Truth
<1> HIDE DEF o, t
<1>10. CASE OneRead(h, t, b)
  <2>1. b = 0 /\ b # Len(ops) /\ Len(values) = 1 /\ a = 0
    BY <1>5, <1>8, <1>10 DEF OneRead
  <2>2. o = "not"
    <3>1. ~(1 >= 2)
      OBVIOUS
    <3> QED
      BY <1>2, <1>6, <2>1, <3>1, Zenon DEF Rules!Operand
  <2>3. Rules!Operand(o) = 1
    BY <2>2 DEF Rules!Operand
  <2>4. PICK v \in Rules!Truth : v = values[1] /\ Rules!Last(values) = v
    <3>1. "T" \in Rules!Truth
      BY DEF Rules!Truth
    <3> QED
      BY <1>3, <2>1, <3>1, FewValues, Zenon
  <2>5. Len(values') = 1 /\ values'[1] = Rules!Not(v)
    <3>1. values' = Append(SubSeq(values, 1, Len(values) - 1), Rules!Not(v))
      BY <1>2, <2>2, <2>3, <2>4
    <3> QED
      BY <1>3, <1>9, <2>1, <3>1, FewValues, Zenon
  <2>6. PICK f \in BOOLEAN : t = Onto(Rules!Entry(v, f), Ahead(h))
    BY <1>10, <2>4 DEF OneRead
  <2>7. g[Len(ops')] = Onto(Rules!Entry(Rules!Not(v), f), Ahead(h))
    <3>1. g[Len(ops')] = Rules!FlatReduce("not", t)
      BY <1>6, <2>1, <2>2
    <3> QED
      BY <1>3, <2>6, <3>1, NotOnto
  <2>8. OneRead(h, g[Len(ops)], a)'
    BY <1>2, <1>4, <2>1, <2>5, <2>7 DEF OneRead
  <2>9. Held(ops', a, e, values'[1])
    BY <2>1 DEF Held
  <2>10. FlatAt(h, g, a, e)'
    BY <1>1, <1>2, <1>6, <2>8, <2>9 DEF FlatAt
  <2> QED
    BY <1>6, <2>10 DEF FlatInv
<1>11. CASE BothRead(h, t, b) /\ b # Len(ops)
  <2>1. b > 0 /\ b \in 1 .. Len(ops) /\ a = b /\ Len(values) = 2 /\ shortCircuit = 0
    BY <1>5, <1>11 DEF BothRead
  <2>2. o = "not"
    <3>1. Len(ops) \in b + 1 .. Len(ops)
      BY <1>11, <2>1
    <3>2. \A i \in b + 1 .. Len(ops) : ops[i] = "not"
      BY <1>1, <2>1 DEF FlatAt, Held
    <3> QED
      BY <1>6, <3>1, <3>2
  <2>3. Rules!Operand(o) = 1
    BY <2>2 DEF Rules!Operand
  <2>4. PICK v \in Rules!Truth : v = values[2] /\ Rules!Last(values) = v
    <3>1. "T" \in Rules!Truth
      BY DEF Rules!Truth
    <3> QED
      BY <1>3, <2>1, <3>1, FewValues, Zenon
  <2>5. Len(values') = 2 /\ values'[1] = values[1] /\ values'[2] = Rules!Not(v)
    <3>1. values' = Append(SubSeq(values, 1, Len(values) - 1), Rules!Not(v))
      BY <1>2, <2>2, <2>3, <2>4
    <3> QED
      BY <1>3, <1>9, <2>1, <3>1, FewValues, Zenon
  <2>6. t = Onto(Rules!Entry(v, FALSE), Ahead(h))
    BY <1>11, <2>4 DEF BothRead
  <2>7. g[Len(ops')] = Onto(Rules!Entry(Rules!Not(v), FALSE), Ahead(h))
    <3>1. g[Len(ops')] = Rules!FlatReduce("not", t)
      BY <1>6, <1>11, <2>2
    <3> QED
      BY <1>3, <2>6, <3>1, NotOnto
  <2>8. BothRead(h, g[Len(ops)], a)'
    BY <1>2, <1>4, <2>1, <2>5, <2>7 DEF BothRead
  <2>9. Held(ops', a, e, values'[1])
    BY <1>6, <2>5
  <2>10. FlatAt(h, g, a, e)'
    BY <1>1, <1>2, <1>6, <2>8, <2>9 DEF FlatAt
  <2> QED
    BY <1>6, <2>10 DEF FlatInv
<1>12. CASE BothRead(h, t, b) /\ b = Len(ops)
  <2>1. b > 0 /\ a = 0 /\ Len(values) = 2 /\ shortCircuit = 0
    BY <1>5, <1>12 DEF BothRead
  <2>2. o \in {"and", "or"} /\ e.value = values[1] /\ ~Rules!Decides(o, values[1])
    BY <1>1, <1>6, <1>12, <2>1 DEF FlatAt, Held
  <2>3. Rules!Operand(o) = 2 /\ o # "not"
    BY <2>2 DEF Rules!Operand
  <2>4. PICK l \in Rules!Truth, r \in Rules!Truth :
           /\ l = values[1] /\ r = values[2]
           /\ Rules!Last(Rules!Front(values)) = l /\ Rules!Last(values) = r
    <3>1. "T" \in Rules!Truth
      BY DEF Rules!Truth
    <3> QED
      BY <1>3, <2>1, <3>1, FewValues, Zenon
  <2>5. Rules!Operate(o, l, r) = r /\ Rules!Apply(o, l, r) = r
    BY <2>2, <2>4 DEF Rules!Operate, Rules!Apply, Rules!Decides, Rules!Truth, Rules!Unit
  <2>6. Len(values') = 1 /\ values'[1] = r
    <3>1. values' = Append(SubSeq(values, 1, Len(values) - 2), r)
      BY <1>2, <2>3, <2>4, <2>5
    <3> QED
      BY <1>3, <2>1, <2>4, <3>1, FewValues, Zenon
  <2>7. PICK x \in Reference : x = Rules!Entry(r, FALSE) /\ x.value = r
    <3>1. Rules!Entry(r, FALSE) \in Reference /\ Rules!Entry(r, FALSE).value = r
      BY DEF Rules!Entry, Reference
    <3> QED
      BY <3>1
  <2>8. t = Onto(x, Ahead(h))
    BY <1>12, <2>4, <2>7 DEF BothRead
  <2>9. t[1] = x /\ Drop(t, 1) = Ahead(h)
    <3>1. t[1] = x
      BY <1>3, <2>8, OntoLonger, Zenon
    <3>2. \A s \in Seq(Reference) : Drop(Onto(x, s), 1) = s
      <4>1. ASSUME NEW s \in Seq(Reference) PROVE Drop(Onto(x, s), 1) = s
        <5>1. 0 \in 0 .. Len(s) /\ 0 + 1 = 1
          OBVIOUS
        <5>2. Drop(Onto(x, s), 0 + 1) = Drop(s, 0)
          BY <5>1, DropOnto
        <5> QED
          BY <5>1, <5>2, DropNone
      <4> QED
        BY <4>1
    <3> QED
      BY <1>3, <2>8, <3>1, <3>2
  <2>10. g[Len(ops')] = Onto(Rules!Entry(r, TRUE), Ahead(h))
    <3>1. g[Len(ops')] = Rules!FlatReduce(o, Onto(e, t))
      BY <1>6, <1>12
    <3>2. Rules!FlatReduce(o, Onto(e, t)) \in Seq(Reference)
      BY <1>6, <3>1
    <3>3. Rules!FlatReduce(o, Onto(e, t))
            = Onto(Rules!Entry(Rules!Apply(o, e.value, t[1].value), TRUE), Drop(t, 1))
      BY <1>6, <2>2, <3>2, BinaryOnto
    <3>4. Rules!Apply(o, e.value, t[1].value) = r
      BY <2>2, <2>4, <2>5, <2>7, <2>9
    <3> QED
      BY <2>9, <3>1, <3>3, <3>4
  <2>11. OneRead(h, g[Len(ops)], a)'
    BY <1>2, <1>4, <2>1, <2>6, <2>10 DEF OneRead
  <2>12. Held(ops', a, e, values'[1])
    BY <2>1 DEF Held
  <2>13. FlatAt(h, g, a, e)'
    BY <1>1, <1>2, <1>6, <2>11, <2>12 DEF FlatAt
  <2> QED
    BY <1>6, <2>13 DEF FlatInv
<1> QED
  BY <1>7, <1>10, <1>11, <1>12

\* The operator on top is decided by its left operand.
LEMMA FlatCut ==
  ASSUME RulesInv, mode = "eval", NEW h, FlatReadsTo(parts, h), FlatInv(h),
         Rules!ShortCircuitTop
  PROVE  FlatInv(h)'
<1>1. PICK g \in Under, b \in 0 .. Len(ops), e \in Reference : FlatAt(h, g, b, e)
  BY DEF FlatInv
<1> DEFINE o == Rules!Last(ops)
           t == g[Len(ops)]
           s == Ahead(h)
<1>2. /\ settling /\ ops # <<>> /\ ~(Len(values) >= Rules!Operand(o))
      /\ Rules!Decides(o, Rules!Last(values))
      /\ ops' = Rules!Front(ops) /\ shortCircuit' = shortCircuit + Rules!Operand(o) - 1
      /\ UNCHANGED <<pos, settling, values>>
  BY DEF Rules!ShortCircuitTop, Rules!Cut, Rules!Enough
<1>3. /\ ops \in Seq(Rules!Operator) /\ values \in Seq(Rules!Truth) /\ shortCircuit \in Nat
      /\ s \in Seq(Reference) /\ Len(s) = Len(h[pos]) - shortCircuit
      /\ h[pos] \in Seq(Reference) /\ Len(h[pos]) \in Nat
  BY <1>1, AheadIs DEF FlatAt
<1>4. PICK a \in Nat : a = IF b = Len(ops) THEN 0 ELSE b
  OBVIOUS
<1>5. /\ a \in 0 .. Len(ops') /\ Chain(ops', g, a, e) /\ Held(ops', a, e, values[1])
      /\ o \in Rules!Operator
      /\ g[Len(ops')] = Rules!FlatReduce(o, IF b = Len(ops) THEN Onto(e, t) ELSE t)
      /\ g[Len(ops')] \in Seq(Reference)
  BY <1>1, <1>2, <1>3, <1>4, ChainPop DEF FlatAt
<1>6. o \in {"and", "or"} /\ Rules!Operand(o) = 2
  BY <1>2, <1>5 DEF Rules!Decides, Rules!Operand
<1>7. OneRead(h, t, b)
  <2>1. ~BothRead(h, t, b)
    <3>1. 2 >= 2
      OBVIOUS
    <3> QED
      BY <1>2, <1>6, <3>1, Zenon DEF BothRead
  <2> QED
    BY <1>1, <1>2, <2>1 DEF FlatAt, Unread, OneHeld
<1>8. b = 0 /\ b # Len(ops) /\ a = 0 /\ Len(values) = 1
  <2>1. Len(ops) # 0
    BY <1>2, <1>3
  <2> QED
    BY <1>4, <1>7, <2>1 DEF OneRead
<1>9. PICK v \in Rules!Truth : v = values[1] /\ Rules!Last(values) = v
  <2>1. "T" \in Rules!Truth
    BY DEF Rules!Truth
  <2> QED
    BY <1>3, <1>8, <2>1, FewValues, Zenon
<1>10. PICK x \in Reference : x.value = v /\ t = Onto(x, s)
  <2>1. PICK f \in BOOLEAN : t = Onto(Rules!Entry(v, f), s)
    BY <1>7, <1>9 DEF OneRead
  <2>2. Rules!Entry(v, f) \in Reference /\ Rules!Entry(v, f).value = v
    BY DEF Rules!Entry, Reference
  <2> QED
    BY <2>1, <2>2
<1>11. g[Len(ops')] = Rules!FlatReduce(o, Onto(x, s))
  BY <1>5, <1>8, <1>10
<1> HIDE DEF o, t, s
<1>12. /\ Len(s) >= 1
       /\ g[Len(ops')] = Onto(Rules!Entry(Rules!Apply(o, v, s[1].value), TRUE), Drop(s, 1))
  <2>1. Rules!FlatReduce(o, Onto(x, s)) \in Seq(Reference)
    BY <1>5, <1>11
  <2> QED
    BY <1>3, <1>6, <1>10, <1>11, <2>1, BinaryOnto
<1>13. Rules!Apply(o, v, s[1].value) = v
  BY <1>2, <1>9 DEF Rules!Apply
<1>14. /\ shortCircuit' = shortCircuit + 1 /\ shortCircuit + 1 <= Len(h[pos])
       /\ shortCircuit \in 0 .. Len(h[pos]) /\ 1 \in 0 .. Len(h[pos]) - shortCircuit
  BY <1>2, <1>3, <1>6, <1>12
<1>15. Ahead(h)' = Drop(s, 1)
  <2>1. Drop(Drop(h[pos], shortCircuit), 1) = Drop(h[pos], shortCircuit + 1)
    BY <1>3, <1>14, DropDrop
  <2> QED
    BY <1>2, <1>14, <2>1 DEF Ahead, s
<1>16. OneRead(h, g[Len(ops)], a)'
  BY <1>2, <1>8, <1>9, <1>12, <1>13, <1>15 DEF OneRead
<1>17. FlatAt(h, g, a, e)'
  BY <1>1, <1>2, <1>5, <1>14, <1>16 DEF FlatAt
<1> QED
  BY <1>5, <1>17 DEF FlatInv

-----------------------------------------------------------------------------
\* What try_run answers.

\* A rule with no binary operator in a right operand decides as it reads from the right.
FlatDecides(h) ==
    FlatReadsTo(parts, h) => /\ FlatInv(h)
                             /\ result # Rules!None => ~settling /\ result = h[1][1].value

WrittenInv ==
    /\ RulesInv
    /\ ConjunctionDecides
    /\ mode = "eval" => \A h : FlatDecides(h)

\* The parts of the machine that it is about are the same.
LEMMA FlatSame ==
  ASSUME NEW h, FlatInv(h), UNCHANGED <<parts, pos, settling, shortCircuit, ops, values>>
  PROVE  FlatInv(h)'
<1>1. PICK g \in Under, b \in 0 .. Len(ops), e \in Reference : FlatAt(h, g, b, e)
  BY DEF FlatInv
<1>2. Ahead(h)' = Ahead(h)
  BY DEF Ahead
<1>3. FlatAt(h, g, b, e)'
  BY <1>1, <1>2 DEF FlatAt, Unread, OneRead, OneHeld, BothRead
<1> QED
  BY <1>3 DEF FlatInv

\* Nothing is read yet.
LEMMA FlatStart ==
  ASSUME NEW h, NEW n \in Nat, h \in [1 .. n + 1 -> Seq(Reference)],
         pos' = 1, ~settling', shortCircuit' = 0, ops' = <<>>, values' = <<>>
  PROVE  FlatInv(h)'
<1>1. h[1] \in Seq(Reference)
  <2>1. 1 \in 1 .. n + 1
    OBVIOUS
  <2> QED
    BY <2>1
<1> DEFINE g == [i \in Nat |-> h[1]]
<1>2. g \in Under /\ g[0] = h[1]
  BY <1>1 DEF Under
<1> HIDE DEF g
<1>3. PICK e : e \in Reference
  <2>1. Rules!Entry("T", FALSE) \in Reference
    BY DEF Rules!Entry, Reference, Rules!Truth
  <2> QED
    BY <2>1
<1>4. Ahead(h)' = h[1]
  BY <1>1, DropNone DEF Ahead
<1>5. shortCircuit' <= Len(h[pos'])
  BY <1>1
<1>6. Len(ops') = 0 /\ \A i \in 1 .. 0 : FALSE
  OBVIOUS
<1>7. Chain(ops', g, 0, e) /\ Held(ops', 0, e, values'[1])
  BY <1>6 DEF Chain, Held
<1>8. Unread(h, g[Len(ops)], 0)'
  BY <1>2, <1>4, <1>6 DEF Unread
<1>9. FlatAt(h, g, 0, e)' /\ 0 \in 0 .. Len(ops')
  BY <1>2, <1>5, <1>6, <1>7, <1>8 DEF FlatAt
<1> QED
  BY <1>2, <1>3, <1>9 DEF FlatInv

\* One value is left at the end, and it is what the whole condition leaves.
LEMMA FlatEnds ==
  ASSUME RulesInv, mode = "eval", NEW h, FlatReadsTo(parts, h), FlatInv(h),
         ~settling, ops = <<>>, Len(values) = 1
  PROVE  values[1] = h[1][1].value
<1>1. PICK g \in Under, b \in 0 .. Len(ops), e \in Reference : FlatAt(h, g, b, e)
  BY DEF FlatInv
<1>2. Len(ops) = 0 /\ b = 0 /\ values # <<>>
  <2>1. Len(ops) = 0
    OBVIOUS
  <2> QED
    BY <2>1
<1>3. OneRead(h, g[Len(ops)], b)
  BY <1>1, <1>2 DEF FlatAt, Unread, OneHeld, BothRead
<1>4. PICK f \in BOOLEAN : h[1] = Onto(Rules!Entry(values[1], f), Ahead(h))
  BY <1>1, <1>2, <1>3 DEF FlatAt, OneRead
<1>5. Ahead(h) \in Seq(Reference)
  BY <1>1, AheadIs DEF FlatAt
<1>6. h[1][1] = Rules!Entry(values[1], f)
  <2>1. Onto(Rules!Entry(values[1], f), Ahead(h))[1] = Rules!Entry(values[1], f)
    BY <1>5, OntoLonger, Zenon
  <2> QED
    BY <1>4, <2>1, Zenon
<1> QED
  BY <1>6 DEF Rules!Entry

\* A step of try_run keeps what was read and what is ahead together.
LEMMA FlatKeeps ==
  ASSUME RulesInv, mode = "eval", NEW h, FlatReadsTo(parts, h), FlatInv(h),
         Rules!Next, ~Rules!Accept
  PROVE  FlatInv(h)'
<1>1. CASE Rules!Return
  <2>1. UNCHANGED <<parts, pos, settling, shortCircuit, ops, values>>
    BY <1>1 DEF Rules!Return
  <2> QED
    BY <2>1, FlatSame
<1> QED
  BY <1>1, FlatPushOperator, FlatPushValue, FlatSkipPart, FlatOperate, FlatCut, FlatSettled
     DEF Rules!Next

\* validate_arity comes first.
LEMMA WrittenStart == Rules!Init => WrittenInv
<1> SUFFICES ASSUME Rules!Init PROVE WrittenInv
  OBVIOUS
<1>1. mode = "arity"
  BY DEF Rules!Init
<1> QED
  BY <1>1, RulesStart DEF WrittenInv, ConjunctionDecides

\* Each step keeps both arguments, and Accept starts them.
LEMMA WrittenStep == WrittenInv /\ [Rules!Next]_(Rules!vars) => WrittenInv'
<1> SUFFICES ASSUME WrittenInv, [Rules!Next]_(Rules!vars) PROVE WrittenInv'
  OBVIOUS
<1>1. RulesInv /\ RulesInv' /\ ConjunctionDecides /\ (mode = "eval" => \A h : FlatDecides(h))
  BY RulesStep DEF WrittenInv
<1>2. ASSUME mode' = "eval" PROVE ConjunctionDecides' /\ \A h : FlatDecides(h)'
  <2>1. CASE UNCHANGED Rules!vars
    <3>1. UNCHANGED <<parts, mode, pos, settling, shortCircuit, ops, values, result>> /\ mode = "eval"
      BY <1>2, <2>1 DEF Rules!vars
    <3>2. ConjunctionDecides'
      BY <1>1, <3>1 DEF ConjunctionDecides, ConjunctionInv, Sofar, Prefix
    <3>3. ASSUME NEW h PROVE FlatDecides(h)'
      <4>1. FlatDecides(h)
        BY <1>1, <3>1
      <4> QED
        BY <3>1, <4>1, FlatSame DEF FlatDecides
    <3> QED
      BY <3>2, <3>3
  <2>2. CASE Rules!Accept
    <3>1. /\ ~settling' /\ pos' = 1 /\ values' = <<>> /\ ops' = <<>> /\ shortCircuit' = 0
          /\ result' = Rules!None
      BY <2>2 DEF Rules!Accept, Rules!Ended, Rules!Outcome, Rules!Unit
    <3>2. ConjunctionInv'
      <4>1. \A i \in 1 .. 1 - 1 : FALSE
        OBVIOUS
      <4>2. <<>> \in Seq({"and"}) /\ Len(<<>>) = 0 /\ 0 <= 2 /\ 0 # 1 /\ 0 # 2
        OBVIOUS
      <4> QED
        BY <3>1, <4>1, <4>2 DEF ConjunctionInv
    <3>3. ASSUME NEW h, FlatReadsTo(parts, h)' PROVE FlatInv(h)'
      <4>1. parts' \in Seq(Part)
        BY <1>1 DEF RulesInv, RulesType, Part
      <4>2. PICK n \in Nat : h \in [1 .. n + 1 -> Seq(Reference)]
        <5>1. Len(parts') \in Nat
          BY <4>1
        <5> QED
          BY <3>3, <5>1 DEF FlatReadsTo, ReadsTo
      <4> QED
        BY <3>1, <4>2, FlatStart
    <3> QED
      BY <3>1, <3>2, <3>3 DEF ConjunctionDecides, FlatDecides
  <2>3. CASE Rules!Return
    <3>1. /\ Rules!Ended /\ result' = Rules!Outcome /\ ~settling
          /\ UNCHANGED <<parts, mode, pos, settling, shortCircuit, ops, values>>
      BY <2>3 DEF Rules!Return, Rules!Ended
    <3>2. mode = "eval"
      BY <1>2, <3>1
    <3>3. Rules!Outcome \in Rules!Truth
      <4>1. Rules!Outcome \in (IF mode = "arity" THEN {"U"} ELSE Rules!Truth)
        BY <1>1, <3>1, <3>2, RunAnswers
      <4> QED
        BY <3>2, <4>1
    <3>4. ops = <<>> /\ shortCircuit = 0 /\ Len(values) = 1 /\ Rules!Outcome = values[1]
      <4>1. ops = <<>> /\ shortCircuit = 0 /\ Len(values) = 1 /\ Rules!Outcome = Rules!Last(values)
        BY <3>3 DEF Rules!Outcome, Rules!Truth
      <4> QED
        BY <4>1 DEF Rules!Last
    <3>5. pos - 1 = Len(parts)
      <4>1. pos \in 1 .. Len(parts) + 1 /\ parts \in Seq(Part) /\ pos > Len(parts)
        BY <1>1, <3>1 DEF RulesInv, RulesType, Rules!Ended, Part
      <4>2. Len(parts) \in Nat
        BY <4>1
      <4> QED
        BY <4>1, <4>2
    <3>6. ConjunctionDecides'
      <4>1. SUFFICES ASSUME Rules!Conjunction(parts), Prefix(parts) PROVE ConjunctionDecides'
        BY <3>1 DEF ConjunctionDecides, Prefix
      <4>2. ConjunctionInv
        BY <1>1, <3>2, <4>1 DEF ConjunctionDecides
      <4>3. Sofar(values[1], Len(parts))
        BY <3>4, <3>5, <4>2 DEF ConjunctionInv
      <4>4. Sofar(result, Len(parts))'
        BY <3>1, <3>4, <4>3 DEF Sofar
      <4>5. ConjunctionInv'
        BY <3>1, <4>2 DEF ConjunctionInv, Sofar
      <4> QED
        BY <3>1, <4>4, <4>5 DEF ConjunctionDecides
    <3>7. ASSUME NEW h PROVE FlatDecides(h)'
      <4>1. SUFFICES ASSUME FlatReadsTo(parts, h) PROVE FlatDecides(h)'
        BY <3>1 DEF FlatDecides
      <4>2. FlatInv(h)
        BY <1>1, <3>2, <4>1 DEF FlatDecides
      <4>3. values[1] = h[1][1].value
        BY <1>1, <3>1, <3>2, <3>4, <4>1, <4>2, FlatEnds
      <4>4. FlatInv(h)'
        BY <3>1, <4>2, FlatSame
      <4> QED
        BY <3>1, <3>4, <4>3, <4>4 DEF FlatDecides
    <3> QED
      BY <3>6, <3>7
  <2>4. CASE Rules!Next /\ ~Rules!Accept /\ ~Rules!Return
    <3>1. UNCHANGED <<parts, mode, result>> /\ mode = "eval" /\ (result = Rules!None \/ settling)
      BY <1>2, <2>4 DEF Rules!Next, Rules!PushOperator, Rules!PushValue, Rules!SkipPart,
         Rules!OperateTop, Rules!ShortCircuitTop, Rules!Settled, Rules!Reading
    <3>2. ConjunctionDecides'
      <4>1. SUFFICES ASSUME Rules!Conjunction(parts), Prefix(parts) PROVE ConjunctionDecides'
        BY <3>1 DEF ConjunctionDecides, Prefix
      <4>2. ConjunctionInv /\ result = Rules!None
        BY <1>1, <3>1, <4>1 DEF ConjunctionDecides
      <4>3. ConjunctionInv'
        BY <1>1, <2>4, <3>1, <4>1, <4>2, ConjunctionKeeps
      <4> QED
        BY <3>1, <4>2, <4>3 DEF ConjunctionDecides
    <3>3. ASSUME NEW h PROVE FlatDecides(h)'
      <4>1. SUFFICES ASSUME FlatReadsTo(parts, h) PROVE FlatDecides(h)'
        BY <3>1 DEF FlatDecides
      <4>2. FlatInv(h) /\ result = Rules!None
        BY <1>1, <3>1, <4>1 DEF FlatDecides
      <4>3. FlatInv(h)'
        BY <1>1, <2>4, <3>1, <4>1, <4>2, FlatKeeps
      <4> QED
        BY <3>1, <4>2, <4>3 DEF FlatDecides
    <3> QED
      BY <3>2, <3>3
  <2> QED
    BY <2>1, <2>2, <2>3, <2>4
<1>3. mode' # "eval" => ConjunctionDecides'
  BY DEF ConjunctionDecides
<1> QED
  BY <1>1, <1>2, <1>3 DEF WrittenInv

\* What the reference makes of it.
LEMMA DecidesAsWritten == WrittenInv => WrittenRulesDecide
<1> SUFFICES ASSUME WrittenInv PROVE WrittenRulesDecide
  OBVIOUS
<1>1. RulesInv /\ ConjunctionDecides /\ (mode = "eval" => \A h : FlatDecides(h))
  BY DEF WrittenInv
<1>2. parts \in Seq(Part)
  BY <1>1 DEF RulesInv, RulesType, Part
<1>3. Rules!WrittenRulesLoad
  <2>1. Rules!WellFormed(parts) => Prefix(parts)
    BY <1>2, WellFormedIsPrefix
  <2> QED
    BY <1>1, <2>1 DEF Rules!WrittenRulesLoad, RulesInv
<1>4. ASSUME mode = "eval", result # Rules!None, Rules!WellFormed(parts),
             Rules!Flat(parts) \/ Rules!Conjunction(parts)
      PROVE  result = Rules!Meaning(parts)
  <2>1. CASE Rules!Flat(parts)
    <3>1. PICK h : FlatReadsTo(parts, h) /\ h[1] = Rules!Read(parts)
      BY <1>2, <1>4, <2>1, FlatReads
    <3>2. result = h[1][1].value
      BY <1>1, <1>4, <3>1 DEF FlatDecides
    <3> QED
      BY <3>1, <3>2 DEF Rules!Meaning
  <2>2. CASE Rules!Conjunction(parts)
    <3>1. PICK h : ReadsTo(parts, h) /\ h[1] = Rules!Read(parts)
      BY <1>2, <1>4, WellReads
    <3>2. Prefix(parts)
      BY <1>2, <1>4, WellFormedIsPrefix
    <3>3. Sofar(result, Len(parts))
      BY <1>1, <1>4, <2>2, <3>2 DEF ConjunctionDecides
    <3>4. From(parts, result, 1)
      BY <3>3 DEF Sofar, From
    <3>5. result = h[1][1].value
      BY <1>2, <2>2, <3>1, <3>4, ConjunctionMeans
    <3> QED
      BY <3>1, <3>5 DEF Rules!Meaning
  <2> QED
    BY <1>4, <2>1, <2>2
<1> QED
  BY <1>3, <1>4 DEF WrittenRulesDecide, Rules!SimpleRulesDecide

\* A condition of any length that is written properly is never refused by
\* validate_arity, and one without a binary operator in a right operand, or a
\* conjunction, makes try_run answer what it reads, whatever its atoms evaluate to and
\* whatever is short-circuited.
THEOREM WrittenCorrect == Rules!Spec => []WrittenRulesDecide
  BY WrittenStart, WrittenStep, DecidesAsWritten, PTL DEF Rules!Spec

-----------------------------------------------------------------------------
\* What a word leads to, read by the pattern and by the domain at once.

\* A set of states that holds the first one and is closed under reading a byte.
Closed(S) ==
    /\ Reach!Product(Start, Reach!DomainStart, FALSE) \in S
    /\ \A s \in S : Reach!After(s) \subseteq S

\* Some word of the domain matches: no closed set avoids the states that accept.
CanMatch == \A S : Closed(S) => \E s \in S : s.matched /\ Reach!IsAccept(language, s.d)

\* The state of the domain after some bytes.
DomainStates ==
    {d \in [kind : Nat, len : Nat, total : Nat] :
        /\ language \in {"name", "query"} => d.kind \in 0 .. 2
        /\ language = "path" => d.kind \in 0 .. 3
        /\ language = "token" => d.len \in 0 .. 1}

\* The bytes that the domain still allows there.
Allowed(d) == {b \in Reach!Alphabet(language) : Reach!Step(language, d, b) # Reach!Rejected}

\* The bytes so far are a word of the domain.
Accepts(d) == Reach!IsAccept(language, d)

\* Nothing is accepted any more.
Stuck(d) == ~Accepts(d) /\ Allowed(d) = {}

\* ReadsTo an allowed byte leads to a state of the domain.
LEMMA DomainStep ==
  ASSUME language \in {"name", "path", "query", "token", "value"},
         NEW d \in DomainStates, NEW b \in Allowed(d)
  PROVE  Reach!Step(language, d, b) \in DomainStates
<1> DEFINE next == Reach!Step(language, d, b)
<1>1. d \in [kind : Nat, len : Nat, total : Nat] /\ d.len + 1 \in Nat /\ d.total + 1 \in Nat
  BY DEF DomainStates
<1>2. next # Reach!Rejected
  BY DEF Allowed
<1>3. ASSUME NEW k \in Nat, NEW l \in Nat, NEW t \in Nat
      PROVE  /\ Reach!DomainState(k, l, t) \in [kind : Nat, len : Nat, total : Nat]
             /\ Reach!DomainState(k, l, t).kind = k /\ Reach!DomainState(k, l, t).len = l
  BY DEF Reach!DomainState
<1>4. ASSUME language = "name" PROVE next \in DomainStates
  <2>1. PICK k \in 0 .. 2, l \in Nat, t \in Nat : next = Reach!DomainState(k, l, t)
    <3>1. next = Reach!NameStep(d, b)
      BY <1>4 DEF Reach!Step
    <3>2. \/ next = Reach!DomainState(1, 1, d.total + 1)
          \/ next = Reach!DomainState(1, d.len + 1, d.total + 1)
          \/ next = Reach!DomainState(2, d.len + 1, d.total + 1)
          \/ next = Reach!DomainState(0, 0, d.total + 1)
      <4> HIDE DEF next
      <4> QED
        BY <1>2, <3>1 DEF Reach!NameStep
    <3> QED
      BY <1>1, <3>2
  <2>2. k \in Nat /\ 0 \in Nat
    OBVIOUS
  <2>3. /\ Reach!DomainState(k, l, t) \in [kind : Nat, len : Nat, total : Nat]
        /\ Reach!DomainState(k, l, t).kind = k
    BY <1>3, <2>2
  <2> HIDE DEF next
  <2>4. next \in [kind : Nat, len : Nat, total : Nat] /\ next.kind \in 0 .. 2
    BY <2>1, <2>3, Zenon
  <2> QED
    BY <1>4, <2>4 DEF DomainStates
<1>5. ASSUME language = "path" PROVE next \in DomainStates
  <2>1. PICK k \in 0 .. 3 : next = Reach!DomainState(k, 0, 0)
    <3>1. next = Reach!PathStep(d, b)
      BY <1>5 DEF Reach!Step
    <3>2. \/ next = Reach!DomainState(1, 0, 0)
          \/ next = Reach!DomainState(2, 0, 0)
          \/ next = Reach!DomainState(3, 0, 0)
      <4> HIDE DEF next
      <4> QED
        BY <1>2, <3>1 DEF Reach!PathStep
    <3> QED
      BY <3>2
  <2>2. k \in Nat /\ 0 \in Nat
    OBVIOUS
  <2>3. /\ Reach!DomainState(k, 0, 0) \in [kind : Nat, len : Nat, total : Nat]
        /\ Reach!DomainState(k, 0, 0).kind = k
    BY <1>3, <2>2
  <2> HIDE DEF next
  <2>4. next \in [kind : Nat, len : Nat, total : Nat] /\ next.kind \in 0 .. 3
    BY <2>1, <2>3, Zenon
  <2> QED
    BY <1>5, <2>4 DEF DomainStates
<1>6. ASSUME language = "query" PROVE next \in DomainStates
  <2>1. PICK k \in 0 .. 2 : next = Reach!DomainState(k, 0, 0)
    <3>1. next = Reach!QueryStep(d, b)
      BY <1>6 DEF Reach!Step
    <3>2. \/ next = Reach!DomainState(0, 0, 0)
          \/ next = Reach!DomainState(1, 0, 0)
          \/ next = Reach!DomainState(2, 0, 0)
      <4> HIDE DEF next
      <4> QED
        BY <1>2, <3>1 DEF Reach!QueryStep
    <3> QED
      BY <3>2
  <2>2. k \in Nat /\ 0 \in Nat
    OBVIOUS
  <2>3. /\ Reach!DomainState(k, 0, 0) \in [kind : Nat, len : Nat, total : Nat]
        /\ Reach!DomainState(k, 0, 0).kind = k
    BY <1>3, <2>2
  <2> HIDE DEF next
  <2>4. next \in [kind : Nat, len : Nat, total : Nat] /\ next.kind \in 0 .. 2
    BY <2>1, <2>3, Zenon
  <2> QED
    BY <1>6, <2>4 DEF DomainStates
<1>7. ASSUME language = "token" PROVE next \in DomainStates
  <2>1. next = Reach!DomainState(0, 1, 0)
    BY <1>7 DEF Reach!Step
  <2> HIDE DEF next
  <2> QED
    BY <1>3, <1>7, <2>1 DEF DomainStates
<1>8. ASSUME language = "value" PROVE next \in DomainStates
  <2>1. next = Reach!DomainState(0, 0, 0)
    BY <1>8 DEF Reach!Step
  <2> HIDE DEF next
  <2> QED
    BY <1>3, <1>8, <2>1 DEF DomainStates
<1> QED
  BY <1>4, <1>5, <1>6, <1>7, <1>8

\* Every language accepts within two bytes or never.
LEMMA TwoBytes ==
  ASSUME language \in {"name", "path", "query", "token", "value"},
         NEW d \in DomainStates, ~Accepts(d),
         \A b \in Allowed(d) : ~Accepts(Reach!Step(language, d, b)),
         \A b \in Allowed(d) : \A c \in Allowed(Reach!Step(language, d, b)) :
            ~Accepts(Reach!Step(language, Reach!Step(language, d, b), c))
  PROVE  Stuck(d)
<1>1. d \in [kind : Nat, len : Nat, total : Nat]
  BY DEF DomainStates
<1>2. \A k, l, t : /\ Reach!DomainState(k, l, t).kind = k /\ Reach!DomainState(k, l, t).len = l
  BY DEF Reach!DomainState
<1>3. \A k, l, t : k # 9 => Reach!DomainState(k, l, t) # Reach!Rejected
  BY <1>2 DEF Reach!Rejected
<1>4. CASE language = "name"
  <2>1. d.kind \in {0, 2}
    BY <1>1, <1>4 DEF Accepts, Reach!IsAccept, DomainStates
  <2>2. "x" \notin Allowed(d)
    <3> SUFFICES ASSUME "x" \in Allowed(d) PROVE FALSE
      OBVIOUS
    <3>1. Reach!NameStep(d, "x") # Reach!Rejected /\ Reach!NameStep(d, "x").kind # 1
      BY <1>4 DEF Allowed, Accepts, Reach!IsAccept, Reach!Step
    <3> QED
      BY <1>2, <2>1, <3>1 DEF Reach!NameStep
  <2>3. ASSUME NEW b \in {"-", "."}, Reach!NameStep(d, b) # Reach!Rejected PROVE "x" \in Allowed(d)
    <3>1. Reach!NameStep(d, "x") # Reach!Rejected
      BY <1>3, <2>1, <2>3 DEF Reach!NameStep
    <3> QED
      BY <1>4, <3>1 DEF Allowed, Reach!Alphabet, Reach!Step
  <2>4. Allowed(d) = {}
    BY <1>4, <2>2, <2>3 DEF Allowed, Reach!Alphabet, Reach!Step
  <2> QED
    BY <2>4 DEF Stuck
<1>5. CASE language = "path"
  <2>1. d.kind \in {0, 2, 3}
    BY <1>1, <1>5 DEF Accepts, Reach!IsAccept, DomainStates
  <2>2. CASE d.kind = 0
    <3>1. Reach!PathStep(d, "/") = Reach!DomainState(1, 0, 0)
      BY <2>2 DEF Reach!PathStep
    <3>2. "/" \in Allowed(d) /\ Accepts(Reach!Step(language, d, "/"))
      BY <1>2, <1>3, <1>5, <3>1 DEF Allowed, Accepts, Reach!IsAccept, Reach!Alphabet, Reach!Step
    <3> QED
      BY <3>2
  <2>3. CASE d.kind = 3
    <3>1. Reach!PathStep(d, "x") = Reach!DomainState(1, 0, 0)
      BY <2>3 DEF Reach!PathStep
    <3>2. "x" \in Allowed(d) /\ Accepts(Reach!Step(language, d, "x"))
      BY <1>2, <1>3, <1>5, <3>1 DEF Allowed, Accepts, Reach!IsAccept, Reach!Alphabet, Reach!Step
    <3> QED
      BY <3>2
  <2>4. CASE d.kind = 2
    <3> DEFINE e == Reach!DomainState(3, 0, 0)
    <3>1. Reach!PathStep(d, "x") = e
      BY <2>4 DEF Reach!PathStep
    <3>2. "x" \in Allowed(d) /\ Reach!Step(language, d, "x") = e
      BY <1>3, <1>5, <3>1 DEF Allowed, Reach!Alphabet, Reach!Step
    <3>3. e.kind = 3
      BY <1>2
    <3> HIDE DEF e
    <3>4. Reach!PathStep(e, "x") = Reach!DomainState(1, 0, 0)
      BY <3>3 DEF Reach!PathStep
    <3>5. "x" \in Allowed(e) /\ Accepts(Reach!Step(language, e, "x"))
      BY <1>2, <1>3, <1>5, <3>4 DEF Allowed, Accepts, Reach!IsAccept, Reach!Alphabet, Reach!Step
    <3> QED
      BY <3>2, <3>5
  <2> QED
    BY <2>1, <2>2, <2>3, <2>4
<1>6. CASE language = "query"
  <2>1. d.kind \in {1, 2}
    BY <1>1, <1>6 DEF Accepts, Reach!IsAccept, DomainStates
  <2>2. CASE d.kind = 2
    <3>1. Reach!QueryStep(d, "x") = Reach!DomainState(0, 0, 0)
      BY <2>2 DEF Reach!QueryStep
    <3>2. "x" \in Allowed(d) /\ Accepts(Reach!Step(language, d, "x"))
      BY <1>2, <1>3, <1>6, <3>1 DEF Allowed, Accepts, Reach!IsAccept, Reach!Alphabet, Reach!Step
    <3> QED
      BY <3>2
  <2>3. CASE d.kind = 1
    <3> DEFINE e == Reach!DomainState(2, 0, 0)
    <3>1. Reach!QueryStep(d, "x") = e
      BY <2>3 DEF Reach!QueryStep
    <3>2. "x" \in Allowed(d) /\ Reach!Step(language, d, "x") = e
      BY <1>3, <1>6, <3>1 DEF Allowed, Reach!Alphabet, Reach!Step
    <3>3. e.kind = 2
      BY <1>2
    <3> HIDE DEF e
    <3>4. Reach!QueryStep(e, "x") = Reach!DomainState(0, 0, 0)
      BY <3>3 DEF Reach!QueryStep
    <3>5. "x" \in Allowed(e) /\ Accepts(Reach!Step(language, e, "x"))
      BY <1>2, <1>3, <1>6, <3>4 DEF Allowed, Accepts, Reach!IsAccept, Reach!Alphabet, Reach!Step
    <3> QED
      BY <3>2, <3>5
  <2> QED
    BY <2>1, <2>2, <2>3
<1>7. CASE language = "token"
  <2>1. Reach!Step(language, d, "x") = Reach!DomainState(0, 1, 0)
    BY <1>7 DEF Reach!Step
  <2>2. "x" \in Allowed(d) /\ Accepts(Reach!Step(language, d, "x"))
    BY <1>2, <1>3, <1>7, <2>1 DEF Allowed, Accepts, Reach!IsAccept, Reach!Alphabet
  <2> QED
    BY <2>2
<1>8. CASE language = "value"
  BY <1>8 DEF Accepts, Reach!IsAccept
<1> QED
  BY <1>4, <1>5, <1>6, <1>7, <1>8

\* What the search handles, and the state of the product that it stands for.
Entries == [q : RegexState \cup {Reach!Dead}, match : BOOLEAN] \X DomainStates \X BOOLEAN

Prod(e) == [q |-> e[1].q, d |-> e[2], matched |-> Reach!Matched(e) \/ e[1].q \in accepting]

\* The entry that follows after a byte.
Succ(e, b) ==
    LET regex == Reach!NextState(e[1], b)
    IN  <<regex, Reach!Step(language, e[2], b), Reach!Matched(e) \/ regex.match>>

\* Where the search begins.
FirstEntry == <<Reach!State(Start, FALSE), Reach!DomainStart, FALSE>>

\* What is in a sequence.
Elements(s) == {s[i] : i \in 1 .. Len(s)}

\* What the search has met.
Known == seen \cup Elements(queue)

\* Any automaton over the bytes of a domain.
PatternType ==
    /\ language \in {"name", "path", "query", "token", "value"}
    /\ delta \in [RegexState \X Reach!Alphabet(language) -> RegexState \cup {Reach!Dead}]
    /\ accepting \subseteq RegexState

\* The types of the search.
SearchType ==
    /\ PatternType
    /\ verdict \in {"searching", "reachable", "unreachable"}
    /\ queue \in Seq(Entries) /\ seen \subseteq Entries

\* Whatever the search meets is met by reading a word; what it has left behind
\* matches nowhere, and was followed unless it was dead.
SearchInv ==
    /\ SearchType
    /\ \A S : Closed(S) => \A e \in Known : Prod(e) \in S
    /\ verdict # "reachable" =>
          /\ FirstEntry \in Known
          /\ \A e \in seen :
                /\ ~Reach!Found(e)
                /\ ~Reach!IsDead(e[1]) => \A b \in Allowed(e[2]) : Succ(e, b) \in Known
    /\ verdict = "reachable" => \E e \in seen : Reach!Found(e)
    /\ verdict = "unreachable" => queue = <<>>

\* The parts of an entry.
LEMMA EntryIs ==
  ASSUME PatternType, NEW e \in Entries
  PROVE  /\ e[1].q \in RegexState \cup {Reach!Dead} /\ e[1].match \in BOOLEAN
         /\ e[2] \in DomainStates /\ e[3] \in BOOLEAN
         /\ e = <<e[1], e[2], e[3]>>
  BY DEF Entries

\* An entry is a hit exactly if its state of the product is a match.
LEMMA FoundIs ==
  ASSUME PatternType, NEW e \in Entries
  PROVE  Reach!Found(e) <=> Prod(e).matched /\ Accepts(Prod(e).d)
<1>1. Reach!NextEoiState(e[1]).match <=> e[1].q \in accepting
  BY DEF Reach!NextEoiState, Reach!State
<1>2. Prod(e).matched = (Reach!Matched(e) \/ e[1].q \in accepting) /\ Prod(e).d = e[2]
  BY DEF Prod
<1> QED
  BY <1>1, <1>2 DEF Reach!Found, Accepts

\* The dead state is none of the states of a pattern.
LEMMA DeadIsNoState == Reach!Dead \notin RegexState
  BY AccessAssumption

\* A step of the search is one of the product, although the automaton reports a
\* match a byte late.
LEMMA SuccIs ==
  ASSUME PatternType, NEW e \in Entries, NEW b \in Allowed(e[2])
  PROVE  /\ Succ(e, b) \in Entries
         /\ Succ(e, b)[1].match = (e[1].q \in accepting)
         /\ Succ(e, b)[3] = Prod(e).matched
         /\ Prod(Succ(e, b)) =
              Reach!Product(IF e[1].q = Reach!Dead THEN Reach!Dead ELSE delta[<<e[1].q, b>>],
                            Reach!Step(language, e[2], b), Prod(e).matched)
<1> DEFINE q == IF e[1].q = Reach!Dead THEN Reach!Dead ELSE delta[<<e[1].q, b>>]
           d == Reach!Step(language, e[2], b)
           hit == e[1].q \in accepting
           sofar == Reach!Matched(e) \/ hit
           next == [q |-> q, match |-> hit]
<1>1. e[1].q \in RegexState \cup {Reach!Dead} /\ e[1].match \in BOOLEAN
        /\ e[2] \in DomainStates /\ e[3] \in BOOLEAN
  BY EntryIs
<1>2. b \in Reach!Alphabet(language)
  BY DEF Allowed
<1>3. q \in RegexState \cup {Reach!Dead}
  BY <1>1, <1>2 DEF PatternType
<1>4. d \in DomainStates
  BY <1>1, DomainStep DEF PatternType
<1>5. e[1].q = Reach!Dead => hit = FALSE
  <2>1. Reach!Dead \notin accepting
    BY DeadIsNoState DEF PatternType
  <2>2. e[1].q = Reach!Dead => ~hit
    BY <2>1
  <2> QED
    BY <2>2
<1>6. hit \in BOOLEAN /\ sofar \in BOOLEAN
  OBVIOUS
<1>7. Prod(e).matched = sofar
  BY Zenon DEF Prod
<1>8. Reach!NextState(e[1], b) = next
  <2>1. CASE e[1].q = Reach!Dead
    BY <1>5, <2>1, Zenon DEF Reach!NextState, Reach!State
  <2>2. CASE e[1].q # Reach!Dead
    BY <2>2, Zenon DEF Reach!NextState, Reach!State
  <2> QED
    BY <2>1, <2>2
<1>9. (Reach!Matched(e) \/ hit) = sofar
  OBVIOUS
<1>10. next.match = hit /\ next.q = q /\ next \in [q : RegexState \cup {Reach!Dead}, match : BOOLEAN]
  <2> HIDE DEF q, hit
  <2> QED
    BY <1>3, <1>6
<1> HIDE DEF q, d, hit, next, sofar
<1>11. Succ(e, b) = <<next, d, sofar>>
  BY <1>8, <1>9, <1>10, Zenon DEF Succ, d
<1>12. Succ(e, b) \in Entries
  BY <1>4, <1>6, <1>10, <1>11 DEF Entries
<1>13. Succ(e, b)[1] = next /\ Succ(e, b)[2] = d /\ Succ(e, b)[3] = sofar
  BY <1>11
<1>14. Prod(Succ(e, b)) = Reach!Product(q, d, sofar)
  <2>1. Reach!Matched(Succ(e, b)) <=> sofar
    BY <1>9, <1>10, <1>13, Zenon DEF Reach!Matched, sofar
  <2>2. (Reach!Matched(Succ(e, b)) \/ q \in accepting) = (sofar \/ q \in accepting)
    BY <2>1
  <2> QED
    BY <1>10, <1>13, <2>2, Zenon DEF Prod, Reach!Product
<1>15. Succ(e, b)[1].match = hit /\ Succ(e, b)[3] = Prod(e).matched
  BY <1>7, <1>10, <1>13, Zenon
<1> QED
  BY <1>7, <1>12, <1>14, <1>15, Zenon DEF q, d, hit

\* The states of the product after one more byte are those of the entries that follow.
LEMMA AfterIs ==
  ASSUME PatternType, NEW e \in Entries
  PROVE  Reach!After(Prod(e)) = {Prod(Succ(e, b)) : b \in Allowed(e[2])}
<1>1. Prod(e).q = e[1].q /\ Prod(e).d = e[2]
  BY DEF Prod
<1>2. \A b \in Allowed(e[2]) : Prod(Succ(e, b)) =
        Reach!Product(IF e[1].q = Reach!Dead THEN Reach!Dead ELSE delta[<<e[1].q, b>>],
                      Reach!Step(language, e[2], b), Prod(e).matched)
  BY SuccIs
<1>3. Reach!After(Prod(e)) =
        {Reach!Product(IF e[1].q = Reach!Dead THEN Reach!Dead ELSE delta[<<e[1].q, b>>],
                       Reach!Step(language, e[2], b), Prod(e).matched) : b \in Allowed(e[2])}
  BY <1>1 DEF Reach!After, Allowed
<1> QED
  BY <1>2, <1>3

\* What is in two sequences, one behind the other.
LEMMA ElementsOfConcat ==
  ASSUME NEW T, NEW s \in Seq(T), NEW t \in Seq(T)
  PROVE  s \o t \in Seq(T) /\ Elements(s \o t) = Elements(s) \cup Elements(t)
<1>1. /\ s \o t \in Seq(T) /\ Len(s \o t) = Len(s) + Len(t)
      /\ Len(s) \in Nat /\ Len(t) \in Nat
      /\ \A i \in 1 .. Len(s) + Len(t) : (s \o t)[i] = IF i <= Len(s) THEN s[i] ELSE t[i - Len(s)]
  OBVIOUS
<1>2. ASSUME NEW x \in Elements(s \o t) PROVE x \in Elements(s) \cup Elements(t)
  <2>1. PICK i \in 1 .. Len(s) + Len(t) : x = (s \o t)[i]
    BY <1>1 DEF Elements
  <2>2. CASE i <= Len(s)
    BY <1>1, <2>1, <2>2 DEF Elements
  <2>3. CASE ~(i <= Len(s))
    <3>1. i - Len(s) \in 1 .. Len(t) /\ x = t[i - Len(s)]
      BY <1>1, <2>1, <2>3
    <3> QED
      BY <3>1 DEF Elements
  <2> QED
    BY <2>2, <2>3
<1>3. ASSUME NEW x \in Elements(s) PROVE x \in Elements(s \o t)
  <2>1. PICK i \in 1 .. Len(s) : x = s[i]
    BY DEF Elements
  <2>2. i \in 1 .. Len(s) + Len(t) /\ x = (s \o t)[i]
    BY <1>1, <2>1
  <2> QED
    BY <1>1, <2>2 DEF Elements
<1>4. ASSUME NEW x \in Elements(t) PROVE x \in Elements(s \o t)
  <2>1. PICK i \in 1 .. Len(t) : x = t[i]
    BY DEF Elements
  <2>2. i + Len(s) \in 1 .. Len(s) + Len(t) /\ x = (s \o t)[i + Len(s)]
    <3>1. i + Len(s) \in 1 .. Len(s) + Len(t) /\ ~(i + Len(s) <= Len(s)) /\ (i + Len(s)) - Len(s) = i
      BY <1>1
    <3> QED
      BY <1>1, <2>1, <3>1
  <2> QED
    BY <1>1, <2>2 DEF Elements
<1> QED
  BY <1>1, <1>2, <1>3, <1>4

\* What is in a sequence without its head.
LEMMA ElementsOfTail ==
  ASSUME NEW T, NEW s \in Seq(T), s # <<>>
  PROVE  /\ Head(s) \in T /\ Tail(s) \in Seq(T)
         /\ Elements(s) = {Head(s)} \cup Elements(Tail(s))
<1>1. /\ Tail(s) \in Seq(T) /\ Head(s) = s[1] /\ Head(s) \in T
      /\ Len(s) \in Nat \ {0} /\ Len(Tail(s)) = Len(s) - 1
      /\ \A i \in 1 .. Len(s) - 1 : Tail(s)[i] = s[i + 1]
  OBVIOUS
<1>2. ASSUME NEW x \in Elements(s) PROVE x \in {Head(s)} \cup Elements(Tail(s))
  <2>1. PICK i \in 1 .. Len(s) : x = s[i]
    BY DEF Elements
  <2>2. CASE i = 1
    BY <1>1, <2>1, <2>2
  <2>3. CASE i # 1
    <3>1. i - 1 \in 1 .. Len(s) - 1 /\ (i - 1) + 1 = i
      BY <1>1, <2>3
    <3>2. x = Tail(s)[i - 1]
      BY <1>1, <2>1, <3>1
    <3> QED
      BY <1>1, <3>1, <3>2 DEF Elements
  <2> QED
    BY <2>2, <2>3
<1>3. Head(s) \in Elements(s)
  <2>1. 1 \in 1 .. Len(s)
    BY <1>1
  <2> QED
    BY <1>1, <2>1 DEF Elements
<1>4. ASSUME NEW x \in Elements(Tail(s)) PROVE x \in Elements(s)
  <2>1. PICK i \in 1 .. Len(s) - 1 : x = Tail(s)[i]
    BY <1>1 DEF Elements
  <2>2. i + 1 \in 1 .. Len(s) /\ x = s[i + 1]
    BY <1>1, <2>1
  <2> QED
    BY <2>2 DEF Elements
<1> QED
  BY <1>1, <1>2, <1>3, <1>4

\* What the search appends for one byte.
LEMMA PushIs ==
  ASSUME PatternType, NEW e \in Entries, NEW b
  PROVE  /\ Reach!Push(e, b) \in Seq(Entries)
         /\ Elements(Reach!Push(e, b)) = IF b \in Allowed(e[2]) THEN {Succ(e, b)} ELSE {}
<1>1. b \in Allowed(e[2]) <=>
        b \in Reach!Alphabet(language) /\ Reach!Step(language, e[2], b) # Reach!Rejected
  BY DEF Allowed
<1>2. Reach!Push(e, b) = IF b \in Allowed(e[2]) THEN <<Succ(e, b)>> ELSE <<>>
  BY <1>1, Zenon DEF Reach!Push, Succ
<1>3. b \in Allowed(e[2]) => Succ(e, b) \in Entries
  BY SuccIs
<1>4. \A x : Elements(<<x>>) = {x}
  BY DEF Elements
<1>5. Elements(<<>>) = {}
  BY DEF Elements
<1>6. CASE b \in Allowed(e[2])
  <2>1. Reach!Push(e, b) = <<Succ(e, b)>>
    BY <1>2, <1>6
  <2>2. <<Succ(e, b)>> \in Seq(Entries)
    BY <1>3, <1>6
  <2> QED
    BY <1>4, <1>6, <2>1, <2>2, Zenon
<1>7. CASE b \notin Allowed(e[2])
  <2>1. Reach!Push(e, b) = <<>> /\ <<>> \in Seq(Entries)
    BY <1>2, <1>7
  <2> QED
    BY <1>5, <1>7, <2>1, Zenon
<1> QED
  BY <1>6, <1>7

\* What is in five sequences.
LEMMA ElementsOfFive ==
  ASSUME NEW T, NEW a \in Seq(T), NEW b \in Seq(T), NEW c \in Seq(T), NEW d \in Seq(T), NEW e \in Seq(T)
  PROVE  /\ (((a \o b) \o c) \o d) \o e \in Seq(T)
         /\ Elements((((a \o b) \o c) \o d) \o e)
              = Elements(a) \cup Elements(b) \cup Elements(c) \cup Elements(d) \cup Elements(e)
<1>1. a \o b \in Seq(T) /\ Elements(a \o b) = Elements(a) \cup Elements(b)
  BY ElementsOfConcat
<1> DEFINE ab == a \o b
<1>2. ab \o c \in Seq(T) /\ Elements(ab \o c) = Elements(ab) \cup Elements(c)
  <2>1. ab \in Seq(T)
    BY <1>1
  <2> HIDE DEF ab
  <2> QED
    BY <2>1, ElementsOfConcat
<1> DEFINE abc == ab \o c
<1> HIDE DEF ab
<1>3. abc \o d \in Seq(T) /\ Elements(abc \o d) = Elements(abc) \cup Elements(d)
  <2>1. abc \in Seq(T)
    BY <1>2
  <2> HIDE DEF abc
  <2> QED
    BY <2>1, ElementsOfConcat
<1> DEFINE abcd == abc \o d
<1> HIDE DEF abc
<1>4. abcd \o e \in Seq(T) /\ Elements(abcd \o e) = Elements(abcd) \cup Elements(e)
  <2>1. abcd \in Seq(T)
    BY <1>3
  <2> HIDE DEF abcd
  <2> QED
    BY <2>1, ElementsOfConcat
<1> HIDE DEF abcd
<1> QED
  BY <1>1, <1>2, <1>3, <1>4, Zenon DEF ab, abc, abcd

\* What the search appends for an entry: all that follow it, and nothing else.
LEMMA SuccessorsAre ==
  ASSUME PatternType, NEW e \in Entries
  PROVE  /\ Reach!Successors(e) \in Seq(Entries)
         /\ Elements(Reach!Successors(e)) = {Succ(e, b) : b \in Allowed(e[2])}
<1> DEFINE P(b) == Reach!Push(e, b)
           Only(b) == IF b \in Allowed(e[2]) THEN {Succ(e, b)} ELSE {}
<1>1. ASSUME NEW b PROVE P(b) \in Seq(Entries) /\ Elements(P(b)) = Only(b)
  BY PushIs
<1>2. Reach!Successors(e) = (((P("x") \o P("-")) \o P(".")) \o P("%")) \o P("/")
  BY DEF Reach!Successors
<1>3. Allowed(e[2]) \subseteq {"x", "-", ".", "%", "/"}
  BY DEF Allowed, Reach!Alphabet, PatternType
<1>4. /\ P("x") \in Seq(Entries) /\ P("-") \in Seq(Entries) /\ P(".") \in Seq(Entries)
      /\ P("%") \in Seq(Entries) /\ P("/") \in Seq(Entries)
  BY <1>1
<1> HIDE DEF P
<1>5. /\ Reach!Successors(e) \in Seq(Entries)
      /\ Elements(Reach!Successors(e)) = Elements(P("x")) \cup Elements(P("-"))
           \cup Elements(P(".")) \cup Elements(P("%")) \cup Elements(P("/"))
  BY <1>2, <1>4, ElementsOfFive
<1> HIDE DEF Only
<1>6. Elements(Reach!Successors(e)) = Only("x") \cup Only("-") \cup Only(".") \cup Only("%") \cup Only("/")
  BY <1>1, <1>5, Zenon
<1>7. ASSUME NEW y PROVE y \in Elements(Reach!Successors(e)) <=> \E b \in Allowed(e[2]) : y = Succ(e, b)
  BY <1>3, <1>6, Zenon DEF Only
<1> QED
  BY <1>5, <1>7, Zenon

\* The search does not change what it searches.
LEMMA SamePattern ==
  ASSUME UNCHANGED <<language, delta, accepting>>
  PROVE  /\ PatternType' = PatternType /\ Entries' = Entries
         /\ \A S : Closed(S)' <=> Closed(S)
         /\ \A e : Prod(e)' = Prod(e) /\ (Reach!Found(e)' <=> Reach!Found(e))
         /\ \A d : Allowed(d)' = Allowed(d) /\ (Accepts(d)' <=> Accepts(d))
         /\ \A e, b : Succ(e, b)' = Succ(e, b)
<1>1. PatternType' = PatternType
  BY DEF PatternType
<1>2. Entries' = Entries
  BY DEF Entries, DomainStates
<1>3. ASSUME NEW s PROVE Reach!After(s)' = Reach!After(s)
  BY DEF Reach!After, Reach!Product
<1>4. ASSUME NEW S PROVE Closed(S)' <=> Closed(S)
  <2>1. Reach!Product(Start, Reach!DomainStart, FALSE)' = Reach!Product(Start, Reach!DomainStart, FALSE)
    BY DEF Reach!Product
  <2> QED
    BY <1>3, <2>1 DEF Closed
<1>5. ASSUME NEW e PROVE Prod(e)' = Prod(e) /\ (Reach!Found(e)' <=> Reach!Found(e))
  BY DEF Prod, Reach!Found, Reach!Matched, Reach!NextEoiState
<1>6. ASSUME NEW d PROVE Allowed(d)' = Allowed(d) /\ (Accepts(d)' <=> Accepts(d))
  BY DEF Allowed, Accepts
<1>7. ASSUME NEW e, NEW b PROVE Succ(e, b)' = Succ(e, b)
  BY DEF Succ, Reach!NextState
<1> QED
  BY <1>1, <1>2, <1>4, <1>5, <1>6, <1>7

\* The invariant holds at the beginning.
LEMMA SearchStarts == Reach!Init => SearchInv
<1> SUFFICES ASSUME Reach!Init PROVE SearchInv
  OBVIOUS
<1>1. PatternType
  BY AccessAssumption DEF Reach!Init, PatternType
<1>2. queue = <<FirstEntry>> /\ seen = {} /\ verdict = "searching"
  BY DEF Reach!Init, FirstEntry
<1>3. FirstEntry \in Entries
  <2>1. Reach!State(Start, FALSE) \in [q : RegexState \cup {Reach!Dead}, match : BOOLEAN]
    BY AccessAssumption DEF Reach!State
  <2>2. Reach!DomainStart \in DomainStates
    BY DEF DomainStates, Reach!DomainStart, Reach!DomainState
  <2> QED
    BY <2>1, <2>2 DEF Entries, FirstEntry
<1>4. queue \in Seq(Entries)
  <2> HIDE DEF FirstEntry
  <2> QED
    BY <1>2, <1>3
<1>5. Known = {FirstEntry}
  <2>1. \A x : Elements(<<x>>) = {x}
    BY DEF Elements
  <2> QED
    BY <1>2, <2>1 DEF Known
<1>6. Prod(FirstEntry) = Reach!Product(Start, Reach!DomainStart, FALSE)
  BY DEF Prod, FirstEntry, Reach!Matched, Reach!Product, Reach!State
<1> QED
  BY <1>1, <1>2, <1>4, <1>5, <1>6 DEF SearchInv, SearchType, Closed

\* Every step keeps the invariant.
LEMMA SearchStep == SearchInv /\ [Reach!Next]_(Reach!vars) => SearchInv'
<1> SUFFICES ASSUME SearchInv, [Reach!Next]_(Reach!vars) PROVE SearchInv'
  OBVIOUS
<1> USE DEF SearchType
<1>1. UNCHANGED <<language, delta, accepting>>
  BY DEF Reach!Next, Reach!vars, Reach!Skip, Reach!Report, Reach!Expand, Reach!GiveUp
<1>2. /\ PatternType' = PatternType /\ Entries' = Entries
      /\ \A S : Closed(S)' <=> Closed(S)
      /\ \A e : Prod(e)' = Prod(e) /\ (Reach!Found(e)' <=> Reach!Found(e))
      /\ \A d : Allowed(d)' = Allowed(d) /\ (Accepts(d)' <=> Accepts(d))
      /\ \A e, b : Succ(e, b)' = Succ(e, b)
  BY <1>1, SamePattern
<1>3. \A e : Reach!IsDead(e)' <=> Reach!IsDead(e)
  BY DEF Reach!IsDead
<1>4. /\ PatternType /\ queue \in Seq(Entries) /\ seen \subseteq Entries
      /\ verdict \in {"searching", "reachable", "unreachable"}
      /\ \A S : Closed(S) => \A e \in Known : Prod(e) \in S
      /\ verdict # "reachable" =>
            /\ FirstEntry \in Known
            /\ \A e \in seen :
                  /\ ~Reach!Found(e)
                  /\ ~Reach!IsDead(e[1]) => \A b \in Allowed(e[2]) : Succ(e, b) \in Known
      /\ verdict = "reachable" => \E e \in seen : Reach!Found(e)
      /\ verdict = "unreachable" => queue = <<>>
  BY DEF SearchInv
<1>5. ASSUME PatternType', queue' \in Seq(Entries), seen' \subseteq Entries,
             verdict' \in {"searching", "reachable", "unreachable"},
             \A S : Closed(S) => \A e \in Known' : Prod(e) \in S,
             verdict' # "reachable" =>
                /\ FirstEntry \in Known'
                /\ \A e \in seen' :
                      /\ ~Reach!Found(e)
                      /\ ~Reach!IsDead(e[1]) => \A b \in Allowed(e[2]) : Succ(e, b) \in Known',
             verdict' = "reachable" => \E e \in seen' : Reach!Found(e),
             verdict' = "unreachable" => queue' = <<>>
      PROVE  SearchInv'
  <2>1. FirstEntry' = FirstEntry
    BY DEF FirstEntry
  <2> QED
    BY <1>2, <1>3, <1>5, <2>1 DEF SearchInv
<1>6. CASE UNCHANGED Reach!vars
  <2>1. UNCHANGED <<queue, seen, verdict>> /\ Known' = Known
    BY <1>6 DEF Reach!vars, Known, Elements
  <2> QED
    BY <1>2, <1>4, <1>5, <2>1
<1>7. CASE Reach!GiveUp
  <2>1. /\ verdict = "searching" /\ verdict' = "unreachable" /\ queue = <<>>
        /\ UNCHANGED <<queue, seen>> /\ Known' = Known
    BY <1>7 DEF Reach!GiveUp, Known, Elements
  <2> QED
    BY <1>2, <1>4, <1>5, <2>1
<1>8. CASE Reach!Skip \/ Reach!Report \/ Reach!Expand
  <2> DEFINE h == Head(queue)
  <2>1. verdict = "searching" /\ queue # <<>>
    BY <1>8 DEF Reach!Skip, Reach!Report, Reach!Expand
  <2>2. /\ h \in Entries /\ Tail(queue) \in Seq(Entries)
        /\ Elements(queue) = {h} \cup Elements(Tail(queue))
    BY <1>4, <2>1, ElementsOfTail
  <2> HIDE DEF h
  <2>3. CASE Reach!Skip
    <3>1. h \in seen /\ queue' = Tail(queue) /\ UNCHANGED <<seen, verdict>>
      BY <2>3 DEF Reach!Skip, h
    <3>2. Known' = Known
      BY <2>2, <3>1 DEF Known
    <3> QED
      BY <1>2, <1>4, <1>5, <2>1, <2>2, <3>1, <3>2
  <2>4. CASE Reach!Report
    <3>1. /\ Reach!Found(h) /\ seen' = seen \cup {h} /\ queue' = Tail(queue)
          /\ verdict' = "reachable"
      BY <2>4 DEF Reach!Report, h
    <3>2. Known' = Known
      BY <2>2, <3>1 DEF Known
    <3> QED
      BY <1>2, <1>4, <1>5, <2>1, <2>2, <3>1, <3>2
  <2>5. CASE Reach!Expand
    <3> DEFINE new == IF Reach!IsDead(h[1]) THEN <<>> ELSE Reach!Successors(h)
    <3>1. /\ ~Reach!Found(h) /\ seen' = seen \cup {h} /\ queue' = Tail(queue) \o new
          /\ verdict' = "searching"
      BY <2>1, <2>5 DEF Reach!Expand, h
    <3>2. /\ new \in Seq(Entries)
          /\ Elements(new) \subseteq {Succ(h, b) : b \in Allowed(h[2])}
          /\ ~Reach!IsDead(h[1]) => {Succ(h, b) : b \in Allowed(h[2])} = Elements(new)
      <4>1. Elements(<<>>) = {} /\ <<>> \in Seq(Entries)
        BY DEF Elements
      <4>2. CASE Reach!IsDead(h[1])
        BY <4>1, <4>2
      <4>3. CASE ~Reach!IsDead(h[1])
        <5>1. new = Reach!Successors(h)
          BY <4>3
        <5> HIDE DEF new
        <5> QED
          BY <1>4, <2>2, <4>3, <5>1, SuccessorsAre
      <4> QED
        BY <4>2, <4>3
    <3> HIDE DEF new
    <3>3. queue' \in Seq(Entries) /\ Elements(queue') = Elements(Tail(queue)) \cup Elements(new)
      <4>1. /\ Tail(queue) \o new \in Seq(Entries)
            /\ Elements(Tail(queue) \o new) = Elements(Tail(queue)) \cup Elements(new)
        <5> DEFINE rest == Tail(queue)
        <5>1. rest \in Seq(Entries) /\ new \in Seq(Entries)
          BY <2>2, <3>2
        <5> HIDE DEF rest
        <5>2. rest \o new \in Seq(Entries) /\ Elements(rest \o new) = Elements(rest) \cup Elements(new)
          BY <5>1, ElementsOfConcat
        <5> QED
          BY <5>2, Zenon DEF rest
      <4> QED
        BY <3>1, <4>1, Zenon
    <3>4. Known' = Known \cup Elements(new)
      BY <2>2, <3>1, <3>3 DEF Known
    <3>5. ASSUME NEW S, Closed(S), NEW e \in Known' PROVE Prod(e) \in S
      <4>1. CASE e \in Known
        BY <1>4, <3>5, <4>1
      <4>2. CASE e \in Elements(new)
        <5>1. PICK b \in Allowed(h[2]) : e = Succ(h, b)
          BY <3>2, <4>2
        <5>2. Prod(e) \in Reach!After(Prod(h))
          BY <1>4, <2>2, <5>1, AfterIs
        <5>3. Prod(h) \in S
          BY <1>4, <2>2, <3>5 DEF Known
        <5> QED
          BY <3>5, <5>2, <5>3 DEF Closed
      <4> QED
        BY <3>4, <4>1, <4>2
    <3>6. \A e \in seen' :
             /\ ~Reach!Found(e)
             /\ ~Reach!IsDead(e[1]) => \A b \in Allowed(e[2]) : Succ(e, b) \in Known'
      <4>1. ASSUME ~Reach!IsDead(h[1]), NEW b \in Allowed(h[2]) PROVE Succ(h, b) \in Known'
        BY <3>2, <3>4, <4>1
      <4>2. ASSUME NEW e \in seen, ~Reach!IsDead(e[1]), NEW b \in Allowed(e[2])
            PROVE  Succ(e, b) \in Known'
        BY <1>4, <2>1, <3>4, <4>2
      <4> QED
        BY <1>4, <2>1, <3>1, <4>1, <4>2
    <3>7. seen' \subseteq Entries /\ FirstEntry \in Known'
      BY <1>4, <2>1, <2>2, <3>1, <3>4
    <3> QED
      BY <1>2, <1>4, <1>5, <3>1, <3>3, <3>5, <3>6, <3>7
  <2> QED
    BY <1>8, <2>3, <2>4, <2>5
<1> QED
  BY <1>6, <1>7, <1>8 DEF Reach!Next

\* A state in which a match ends is followed by what still reports it: where the
\* search has found nothing there, the domain accepts nothing from there on.
LEMMA LateMatch ==
  ASSUME PatternType, seen \subseteq Entries,
         \A x \in seen :
            /\ ~Reach!Found(x)
            /\ ~Reach!IsDead(x[1]) => \A b \in Allowed(x[2]) : Succ(x, b) \in seen,
         NEW e \in seen, e[1].q \in accepting
  PROVE  Stuck(e[2])
<1>1. ASSUME NEW x \in seen, Prod(x).matched PROVE ~Accepts(x[2])
  <2>1. Prod(x).d = x[2]
    BY DEF Prod
  <2> QED
    BY <1>1, <2>1, FoundIs
<1>2. Prod(e).matched
  BY DEF Prod
<1>3. ~Reach!IsDead(e[1])
  BY DeadIsNoState DEF PatternType, Reach!IsDead
<1>4. ASSUME NEW b \in Allowed(e[2])
      PROVE  LET f == Succ(e, b)
             IN  f \in seen /\ f[2] = Reach!Step(language, e[2], b) /\ ~Accepts(f[2])
                   /\ \A c \in Allowed(f[2]) : ~Accepts(Reach!Step(language, f[2], c))
  <2> DEFINE f == Succ(e, b)
  <2>1. f \in seen /\ f[2] = Reach!Step(language, e[2], b)
    BY <1>3 DEF Succ
  <2>2. f[1].match /\ f \in Entries
    BY SuccIs
  <2> HIDE DEF f
  <2>3. Prod(f).matched
    BY <2>2 DEF Prod, Reach!Matched
  <2>4. ~Reach!IsDead(f[1])
    BY <2>2 DEF Reach!IsDead
  <2>5. ASSUME NEW c \in Allowed(f[2]) PROVE ~Accepts(Reach!Step(language, f[2], c))
    <3>1. Succ(f, c) \in seen
      BY <2>1, <2>4
    <3>2. Succ(f, c) \in Entries /\ Succ(f, c)[3] = Prod(f).matched
      BY <2>2, SuccIs
    <3>3. Prod(Succ(f, c)).matched
      BY <2>3, <3>2 DEF Prod, Reach!Matched
    <3>4. Succ(f, c)[2] = Reach!Step(language, f[2], c)
      BY DEF Succ
    <3> QED
      BY <1>1, <3>1, <3>3, <3>4
  <2> QED
    BY <1>1, <2>1, <2>3, <2>5 DEF f
<1>5. e[2] \in DomainStates /\ ~Accepts(e[2])
  BY <1>1, <1>2, EntryIs
<1>6. /\ \A b \in Allowed(e[2]) : ~Accepts(Reach!Step(language, e[2], b))
      /\ \A b \in Allowed(e[2]) : \A c \in Allowed(Reach!Step(language, e[2], b)) :
            ~Accepts(Reach!Step(language, Reach!Step(language, e[2], b), c))
  BY <1>4
<1> QED
  BY <1>5, <1>6, TwoBytes DEF PatternType

\* A search that has come to its end without a match is a closed set without one.
LEMMA Refuted ==
  ASSUME SearchInv, verdict = "unreachable"
  PROVE  ~CanMatch
<1>1. /\ PatternType /\ seen \subseteq Entries /\ Known = seen /\ FirstEntry \in seen
      /\ \A x \in seen :
            /\ ~Reach!Found(x)
            /\ ~Reach!IsDead(x[1]) => \A b \in Allowed(x[2]) : Succ(x, b) \in seen
  <2>1. queue = <<>> /\ Elements(<<>>) = {}
    BY DEF SearchInv, Elements
  <2>2. Known = seen
    BY <2>1 DEF Known
  <2> QED
    BY <2>2 DEF SearchInv, SearchType
<1> DEFINE Unmatched == {Prod(x) : x \in {y \in seen : ~Prod(y).matched}}
           State == [q : RegexState \cup {Reach!Dead}, d : DomainStates, matched : BOOLEAN]
           Lost == {s \in State : s.q = Reach!Dead /\ ~s.matched}
           Late == {s \in State : s.matched /\ Stuck(s.d)}
           S == Unmatched \cup Lost \cup Late
<1>2. ASSUME NEW x \in seen, Prod(x).matched => x[1].q \in accepting PROVE Prod(x) \in S
  <2>1. CASE ~Prod(x).matched
    BY <2>1
  <2>2. CASE Prod(x).matched
    <3>1. Stuck(x[2])
      BY <1>1, <1>2, <2>2, LateMatch
    <3>2. x[1].q \in RegexState \cup {Reach!Dead} /\ x[2] \in DomainStates
      BY <1>1, EntryIs
    <3>3. Prod(x).q = x[1].q /\ Prod(x).d = x[2] /\ Prod(x).matched \in BOOLEAN
      BY DEF Prod
    <3>4. Prod(x) \in State
      BY <3>2, <3>3 DEF Prod
    <3> HIDE DEF State
    <3> QED
      BY <2>2, <3>1, <3>3, <3>4
  <2> QED
    BY <2>1, <2>2
<1>3. Reach!Product(Start, Reach!DomainStart, FALSE) \in S
  <2>1. Prod(FirstEntry) = Reach!Product(Start, Reach!DomainStart, FALSE)
    BY DEF Prod, FirstEntry, Reach!Matched, Reach!Product, Reach!State
  <2>2. Prod(FirstEntry).matched => FirstEntry[1].q \in accepting
    BY DEF Prod, FirstEntry, Reach!Matched, Reach!State
  <2> HIDE DEF S
  <2> QED
    BY <1>1, <1>2, <2>1, <2>2
<1>4. ASSUME NEW s \in S, NEW t \in Reach!After(s) PROVE t \in S
  <2>1. CASE s \in Unmatched
    <3>1. PICK x \in seen : s = Prod(x) /\ ~Prod(x).matched
      BY <2>1
    <3>2. PICK b \in Allowed(x[2]) : t = Prod(Succ(x, b))
      BY <1>1, <1>4, <3>1, AfterIs
    <3>3. x \in Entries
      BY <1>1
    <3>4. CASE Reach!IsDead(x[1])
      <4>1. x[1].q = Reach!Dead
        BY <3>4 DEF Reach!IsDead
      <4>2. t = Reach!Product(Reach!Dead, Reach!Step(language, x[2], b), Prod(x).matched)
        BY <1>1, <3>2, <3>3, <4>1, SuccIs
      <4>3. Reach!Step(language, x[2], b) \in DomainStates
        BY <1>1, <3>3, DomainStep, EntryIs DEF PatternType
      <4>4. Reach!Dead \notin accepting
        BY <1>1, DeadIsNoState DEF PatternType
      <4>5. t.q = Reach!Dead /\ ~t.matched /\ t \in State
        BY <3>1, <4>2, <4>3, <4>4 DEF Reach!Product
      <4> HIDE DEF State
      <4> QED
        BY <4>5
    <3>5. CASE ~Reach!IsDead(x[1])
      <4>1. Succ(x, b) \in seen
        BY <1>1, <3>5
      <4>2. /\ Succ(x, b)[1].match = (x[1].q \in accepting)
            /\ Succ(x, b)[3] = Prod(x).matched
        BY <1>1, <3>3, SuccIs
      <4>3. x[1].q \notin accepting
        BY <3>1 DEF Prod
      <4>4. Prod(Succ(x, b)).matched => Succ(x, b)[1].q \in accepting
        BY <3>1, <4>2, <4>3 DEF Prod, Reach!Matched
      <4> HIDE DEF S
      <4> QED
        BY <1>2, <3>2, <4>1, <4>4
    <3> QED
      BY <3>4, <3>5
  <2>2. CASE s \in Lost
    <3>1. s \in State /\ s.q = Reach!Dead /\ ~s.matched
      BY <2>2
    <3>2. PICK b \in Allowed(s.d) :
             t = Reach!Product(Reach!Dead, Reach!Step(language, s.d, b), s.matched)
      BY <1>4, <3>1 DEF Reach!After, Allowed
    <3>3. Reach!Step(language, s.d, b) \in DomainStates
      BY <1>1, <3>1, DomainStep DEF PatternType
    <3>4. Reach!Dead \notin accepting
      BY <1>1, DeadIsNoState DEF PatternType
    <3>5. t.q = Reach!Dead /\ ~t.matched /\ t \in State
      BY <3>1, <3>2, <3>3, <3>4 DEF Reach!Product
    <3> HIDE DEF State
    <3> QED
      BY <3>5
  <2>3. CASE s \in Late
    <3>1. Allowed(s.d) = {}
      BY <2>3 DEF Stuck
    <3>2. Reach!After(s) = {}
      BY <3>1 DEF Reach!After, Allowed
    <3> QED
      BY <1>4, <3>2
  <2> QED
    BY <1>4, <2>1, <2>2, <2>3
<1>5. ASSUME NEW s \in S, s.matched PROVE ~Reach!IsAccept(language, s.d)
  BY <1>5 DEF Stuck, Accepts
<1>6. Closed(S)
  <2> HIDE DEF S
  <2> QED
    BY <1>3, <1>4 DEF Closed
<1> QED
  BY <1>5, <1>6 DEF CanMatch

\* A search that has found a match has read a word that matches.
LEMMA Confirmed ==
  ASSUME SearchInv, verdict = "reachable"
  PROVE  CanMatch
<1>1. PICK e \in seen : Reach!Found(e)
  BY DEF SearchInv
<1>2. e \in Entries /\ PatternType /\ e \in Known
  BY DEF SearchInv, SearchType, Known
<1>3. Prod(e).matched /\ Reach!IsAccept(language, Prod(e).d)
  BY <1>1, <1>2, FoundIs DEF Accepts
<1>4. \A S : Closed(S) => Prod(e) \in S
  BY <1>2 DEF SearchInv
<1> QED
  BY <1>3, <1>4 DEF CanMatch

\* One more byte.
Grow(B) == B \cup UNION {Reach!After(s) : s \in B}
\* Where every word begins.
Origin == {Reach!Product(Start, Reach!DomainStart, FALSE)}

\* A function that has the values of Within as far as m.
Rounds(m, g) == g = [n \in 0 .. m |-> IF n = 0 THEN Origin ELSE Grow(g[n - 1])]

\* A value of such a function.
LEMMA RoundIs ==
  ASSUME NEW m \in Nat, NEW g, Rounds(m, g), NEW n \in 0 .. m
  PROVE  g[n] = IF n = 0 THEN Origin ELSE Grow(g[n - 1])
  BY DEF Rounds

\* There is such a function, as far as one likes.
LEMMA RoundsExist ==
  ASSUME NEW m \in Nat
  PROVE  \E g : Rounds(m, g)
<1> DEFINE Without == {k \in Nat : ~\E g : Rounds(k, g)}
<1>1. SUFFICES ASSUME Without # {} PROVE FALSE
  OBVIOUS
<1>2. PICK k \in Without : \A i \in Without : k <= i
  BY <1>1, LeastNat
<1>3. k # 0
  <2> DEFINE g == [n \in 0 .. 0 |-> Origin]
  <2>1. Rounds(0, g)
    BY DEF Rounds
  <2> QED
    BY <1>2, <2>1
<1>4. k - 1 \in Nat /\ k - 1 \notin Without
  BY <1>2, <1>3
<1>5. PICK g : Rounds(k - 1, g)
  BY <1>4
<1> DEFINE h == [n \in 0 .. k |-> IF n = k THEN Grow(g[k - 1]) ELSE g[n]]
<1>6. \A n \in 0 .. k : h[n] = IF n = k THEN Grow(g[k - 1]) ELSE g[n]
  OBVIOUS
<1>7. k \in Nat /\ h = [n \in 0 .. k |-> h[n]]
  BY <1>2
<1> HIDE DEF Without, h
<1>8. Rounds(k, h)
  <2>1. ASSUME NEW n \in 0 .. k PROVE h[n] = IF n = 0 THEN Origin ELSE Grow(h[n - 1])
    <3>1. CASE n = k
      <4>1. k - 1 \in 0 .. k /\ k - 1 # k /\ k \in 0 .. k
        BY <1>4, <1>7
      <4>2. h[k - 1] = g[k - 1] /\ h[k] = Grow(g[k - 1])
        BY <1>6, <4>1
      <4> QED
        BY <1>3, <3>1, <4>2
    <3>2. CASE n # k
      <4>1. n \in 0 .. k - 1 /\ (n # 0 => n - 1 \in 0 .. k /\ n - 1 # k)
        BY <1>7, <3>2
      <4>2. g[n] = IF n = 0 THEN Origin ELSE Grow(g[n - 1])
        BY <1>4, <1>5, <4>1, RoundIs, Zenon
      <4>3. h[n] = g[n] /\ (n # 0 => h[n - 1] = g[n - 1])
        BY <1>6, <3>2, <4>1
      <4> QED
        BY <4>2, <4>3
    <3> QED
      BY <3>1, <3>2
  <2> DEFINE r == [n \in 0 .. k |-> IF n = 0 THEN Origin ELSE Grow(h[n - 1])]
  <2>2. h = r
    <3>1. \A n \in 0 .. k : h[n] = r[n]
      BY <2>1
    <3> QED
      BY <1>7, <3>1
  <2> QED
    BY <2>2 DEF Rounds
<1> QED
  BY <1>2, <1>8 DEF Without

\* Two of them agree as far as both go.
LEMMA RoundsAgree ==
  ASSUME NEW m \in Nat, NEW g, Rounds(m, g), NEW k \in Nat, NEW h, Rounds(k, h), m <= k
  PROVE  \A n \in 0 .. m : g[n] = h[n]
<1> DEFINE Bad == {n \in 0 .. m : g[n] # h[n]}
<1>1. SUFFICES ASSUME Bad # {} PROVE FALSE
  OBVIOUS
<1>2. PICK n \in Bad : \A i \in Bad : n <= i
  <2>1. Bad \subseteq Nat
    OBVIOUS
  <2> HIDE DEF Bad
  <2> QED
    BY <1>1, <2>1, LeastNat
<1>3. n \in 0 .. m /\ n \in 0 .. k
  BY <1>2
<1>4. /\ g[n] = IF n = 0 THEN Origin ELSE Grow(g[n - 1])
      /\ h[n] = IF n = 0 THEN Origin ELSE Grow(h[n - 1])
  BY <1>3, RoundIs, Zenon
<1>5. n # 0
  BY <1>2, <1>4
<1>6. n - 1 \in 0 .. m /\ ~(n <= n - 1)
  BY <1>3, <1>5
<1>7. g[n - 1] = h[n - 1]
  BY <1>2, <1>6
<1> QED
  BY <1>2, <1>4, <1>5, <1>7

\* The recursive definition of Within has the values it is written to have.
LEMMA WithinIs ==
  /\ Reach!Within[0] = Origin
  /\ \A n \in Nat : Reach!Within[n + 1] = Grow(Reach!Within[n])
<1> DEFINE R(n) == CHOOSE g : Rounds(n, g)
           w == [n \in Nat |-> R(n)[n]]
           W(f) == f = [n \in Nat |-> IF n = 0 THEN Origin ELSE Grow(f[n - 1])]
<1>1. ASSUME NEW n \in Nat PROVE Rounds(n, R(n))
  BY RoundsExist, Zenon
<1> HIDE DEF R
<1>2. ASSUME NEW n \in Nat PROVE w[n] = IF n = 0 THEN Origin ELSE Grow(w[n - 1])
  <2>1. n \in 0 .. n /\ w[n] = R(n)[n]
    OBVIOUS
  <2>2. R(n)[n] = IF n = 0 THEN Origin ELSE Grow(R(n)[n - 1])
    BY <1>1, <2>1, RoundIs, Zenon
  <2>3. n # 0 => w[n - 1] = R(n)[n - 1]
    <3> SUFFICES ASSUME n # 0 PROVE w[n - 1] = R(n)[n - 1]
      OBVIOUS
    <3>1. n - 1 \in Nat /\ n - 1 \in 0 .. n - 1 /\ n - 1 <= n
      OBVIOUS
    <3>2. R(n - 1)[n - 1] = R(n)[n - 1]
      BY <1>1, <3>1, RoundsAgree
    <3> QED
      BY <3>1, <3>2
  <2> QED
    BY <2>1, <2>2, <2>3
<1>3. W(w)
  <2> DEFINE r == [n \in Nat |-> IF n = 0 THEN Origin ELSE Grow(w[n - 1])]
  <2>1. \A n \in Nat : w[n] = r[n]
    BY <1>2
  <2>2. w = r
    BY <2>1
  <2> HIDE DEF w
  <2> QED
    BY <2>2
<1>4. W(Reach!Within)
  <2>1. \E f : W(f)
    BY <1>3
  <2>2. W(CHOOSE f : W(f))
    BY <2>1, Zenon
  <2>3. Reach!Within = CHOOSE f : W(f)
    BY Zenon DEF Reach!Within, Origin, Grow
  <2> QED
    BY <2>2, <2>3
<1>5. Reach!Within[0] = Origin
  BY <1>4
<1>6. ASSUME NEW n \in Nat PROVE Reach!Within[n + 1] = Grow(Reach!Within[n])
  <2>1. n + 1 \in Nat /\ n + 1 # 0 /\ (n + 1) - 1 = n
    OBVIOUS
  <2> QED
    BY <1>4, <2>1
<1> QED
  BY <1>5, <1>6

\* What is met within some bytes is in every closed set.
LEMMA WithinClosed ==
  ASSUME NEW S, Closed(S), NEW m \in Nat
  PROVE  Reach!Within[m] \subseteq S
<1> DEFINE Bad == {n \in Nat : ~(Reach!Within[n] \subseteq S)}
<1>1. SUFFICES ASSUME Bad # {} PROVE FALSE
  OBVIOUS
<1>2. PICK n \in Bad : \A i \in Bad : n <= i
  <2>1. Bad \subseteq Nat
    OBVIOUS
  <2> HIDE DEF Bad
  <2> QED
    BY <1>1, <2>1, LeastNat
<1>3. n # 0
  <2>1. Reach!Within[0] \subseteq S
    BY WithinIs DEF Origin, Closed
  <2> QED
    BY <1>2, <2>1
<1>4. PICK k \in Nat : n = k + 1
  <2>1. n - 1 \in Nat /\ n = (n - 1) + 1
    BY <1>2, <1>3
  <2> QED
    BY <2>1
<1>5. Reach!Within[k] \subseteq S
  <2>1. ~(n <= k)
    BY <1>4
  <2> QED
    BY <1>2, <2>1
<1>6. Reach!Within[k + 1] = Grow(Reach!Within[k])
  BY WithinIs
<1>7. Grow(Reach!Within[k]) \subseteq S
  BY <1>5 DEF Grow, Closed
<1> QED
  BY <1>2, <1>4, <1>6, <1>7

\* A word of n bytes or less is matched.
MatchWithin(n) == \E s \in Reach!Within[n] : s.matched /\ Reach!IsAccept(language, s.d)

\* Some word matches exactly if one of some length does.
LEMMA MatchIs == CanMatch <=> \E n \in Nat : MatchWithin(n)
<1>1. ASSUME NEW n \in Nat, MatchWithin(n) PROVE CanMatch
  BY <1>1, WithinClosed DEF CanMatch, MatchWithin
<1>2. ASSUME CanMatch PROVE \E n \in Nat : MatchWithin(n)
  <2> DEFINE U == UNION {Reach!Within[n] : n \in Nat}
  <2>1. Reach!Product(Start, Reach!DomainStart, FALSE) \in U
    BY WithinIs DEF Origin
  <2>2. ASSUME NEW s \in U PROVE Reach!After(s) \subseteq U
    <3>1. PICK n \in Nat : s \in Reach!Within[n]
      OBVIOUS
    <3>2. Reach!After(s) \subseteq Reach!Within[n + 1]
      <4>1. Reach!Within[n + 1] = Grow(Reach!Within[n])
        BY WithinIs
      <4> QED
        BY <3>1, <4>1 DEF Grow
    <3>3. n + 1 \in Nat
      OBVIOUS
    <3> QED
      BY <3>2, <3>3
  <2>3. Closed(U)
    <3> HIDE DEF U
    <3> QED
      BY <2>1, <2>2 DEF Closed
  <2>4. PICK s \in U : s.matched /\ Reach!IsAccept(language, s.d)
    <3> HIDE DEF U
    <3> QED
      BY <1>2, <2>3 DEF CanMatch
  <2> QED
    BY <2>4 DEF MatchWithin
<1> QED
  BY <1>1, <1>2

\* The search decides about words of any length.
VerdictDecides ==
    /\ verdict = "reachable" => \E n \in Nat : MatchWithin(n)
    /\ verdict = "unreachable" => \A n \in Nat : ~MatchWithin(n)

\* validate_reachable refuses exactly the patterns that match no word of their domain,
\* however long, for automata of any size and any limits of names, although the
\* automaton reports matches late and the search prunes its dead states
\* (reachability.rs intersects).
THEOREM VerdictCorrect == Reach!Spec => []VerdictDecides
<1>1. SearchInv => VerdictDecides
  BY Refuted, Confirmed, MatchIs DEF VerdictDecides
<1> QED
  BY <1>1, SearchStarts, SearchStep, PTL DEF Reach!Spec

\* The reference that the run looks words up in holds all states of the product.
BytesSuffice == Reach!Bytes \in Nat /\ Closed(Reach!Within[Reach!Bytes])

\* What the run checks, wherever its reference is complete, as it is in the run
\* (reachability.rs intersects).
THEOREM VerdictMatchesReference == Reach!Spec => [](BytesSuffice => VerdictIsRight)
<1>1. ASSUME SearchInv, BytesSuffice PROVE VerdictIsRight
  <2>1. Reach!Matches <=> MatchWithin(Reach!Bytes)
    BY DEF Reach!Matches, MatchWithin
  <2>2. verdict = "reachable" => Reach!Matches
    BY <1>1, <2>1, Confirmed DEF CanMatch, MatchWithin, BytesSuffice
  <2>3. verdict = "unreachable" => ~Reach!Matches
    BY <1>1, <2>1, Refuted, MatchIs DEF BytesSuffice
  <2> QED
    BY <2>2, <2>3 DEF VerdictIsRight, Reach!VerdictIsRight
<1>2. SearchInv => (BytesSuffice => VerdictIsRight)
  BY <1>1
<1> QED
  BY <1>2, SearchStarts, SearchStep, PTL DEF Reach!Spec

-----------------------------------------------------------------------------
\* What the run explores: each behaviour is one of the store, or leaves it alone, and
\* so for conditions and patterns.

\* The properties of the run, for every value of its constants
\* (access/src/db, matcher.rs, expr, pattern/reachability.rs).
THEOREM AccessCorrect ==
  MCSpec => /\ []MemoryAgrees /\ []LatestAppendDecides /\ []AllowWasPossible
            /\ MigrationPreserves
            /\ []StoredRulesRun /\ []WrittenRulesDecide
            /\ []VerdictDecides
<1> DEFINE Running == IF part = "rules" THEN WrittenInv ELSE RulesIdle
           Searching == IF part = "reach" THEN SearchInv ELSE ReachIdle
           everything == <<part, vars, rulesVars, reachVars>>
<1>1. MCInit => Init /\ Running /\ Searching
  BY WrittenStart, SearchStarts DEF MCInit
<1>2. [MCNext]_everything => [Next]_vars
  BY DEF MCNext
<1>3. Running /\ [MCNext]_everything => Running'
  <2> SUFFICES ASSUME Running, [MCNext]_everything PROVE Running'
    OBVIOUS
  <2>1. UNCHANGED part
    BY DEF MCNext
  <2>2. CASE part = "rules"
    <3>1. [Rules!Next]_(Rules!vars)
      BY <2>2 DEF MCNext, rulesVars, Rules!vars
    <3> QED
      BY <2>1, <2>2, <3>1, WrittenStep
  <2>3. CASE part # "rules"
    <3>1. UNCHANGED <<parts, mode, pos, settling, shortCircuit, ops, values, result>>
      BY <2>3 DEF MCNext, rulesVars
    <3> QED
      BY <2>1, <2>3, <3>1 DEF RulesIdle, Rules!NewVM
  <2> QED
    BY <2>2, <2>3
<1>4. Searching /\ [MCNext]_everything => Searching'
  <2> SUFFICES ASSUME Searching, [MCNext]_everything PROVE Searching'
    OBVIOUS
  <2>1. UNCHANGED part
    BY DEF MCNext
  <2>2. CASE part = "reach"
    <3>1. [Reach!Next]_(Reach!vars)
      BY <2>2 DEF MCNext, reachVars, Reach!vars
    <3> QED
      BY <2>1, <2>2, <3>1, SearchStep
  <2>3. CASE part # "reach"
    <3>1. UNCHANGED <<language, delta, accepting, queue, seen, verdict>>
      BY <2>3 DEF MCNext, reachVars
    <3> QED
      BY <2>1, <2>3, <3>1 DEF ReachIdle
  <2> QED
    BY <2>2, <2>3
<1>5. Running => StoredRulesRun /\ WrittenRulesDecide
  <2>1. CASE part = "rules"
    BY <2>1, DecidesAsWritten DEF WrittenInv, RulesInv, StoredRulesRun
  <2>2. CASE part # "rules"
    BY <2>2 DEF RulesIdle, StoredRulesRun, WrittenRulesDecide, Rules!AcceptedRulesRun,
       Rules!WrittenRulesLoad, Rules!SimpleRulesDecide
  <2> QED
    BY <2>1, <2>2
<1>6. Searching => VerdictDecides
  BY Refuted, Confirmed, MatchIs DEF ReachIdle, VerdictDecides
<1>7. MCSpec => Spec
  BY <1>1, <1>2, PTL DEF MCSpec, Spec
<1> QED
  BY <1>1, <1>3, <1>4, <1>5, <1>6, <1>7, MemoryCorrect, LatestCorrect, AllowCorrect,
     MigrationCorrect, PTL DEF MCSpec

=============================================================================
