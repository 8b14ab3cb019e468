------------------------- MODULE FlagRolloutProofs -------------------------
(***************************************************************************)
(* Proofs about FlagRollout, for every pool of rules, set of requests and  *)
(* hash function.                                                          *)
(***************************************************************************)
EXTENDS FlagRollout, SumLemmas, TLAPS

LEMMA TypeInit == ASSUME Init PROVE TypeOK
  <1>1. PICK n \in Percents : flag = [is_enabled |-> FALSE, rollout_percentage |-> n]
    BY DEF Init
  <1>2. n \in 0 .. 100
    BY RolloutParameters DEF RolloutParameters
  <1> QED BY <1>1, <1>2 DEF Init, TypeOK, Flag

LEMMA TypeNext == ASSUME TypeOK, [Next]_vars PROVE TypeOK'
  <1> USE DEF TypeOK, Flag
  <1>1. ASSUME NEW set \in SUBSET Fields, NEW on \in BOOLEAN, NEW n \in Percents,
               Update(set, on, n)
        PROVE  TypeOK'
    <2>1. n \in 0 .. 100
      BY RolloutParameters DEF RolloutParameters
    <2>2. CASE "is_enabled" \in set
      BY <1>1, <2>1, <2>2 DEF Update
    <2>3. CASE "is_enabled" \notin set
      BY <1>1, <2>1, <2>3 DEF Update
    <2> QED BY <2>2, <2>3
  <1>2. ASSUME NEW r \in RulePool, CreateRule(r) \/ DeleteRule(r) PROVE TypeOK'
    BY <1>2 DEF CreateRule, DeleteRule
  <1>3. CASE UNCHANGED vars
    BY <1>3 DEF vars
  <1> QED BY <1>1, <1>2, <1>3 DEF Next

(* The flag keeps its columns' types and only gets rules of the pool. *)
THEOREM RolloutTypeCorrect == Spec => []TypeOK
  BY TypeInit, TypeNext, PTL DEF Spec

(***************************************************************************)
(* The engine on rules that are read in any order.                         *)
(***************************************************************************)

(* A bucket is a percentage point: the special cases of the rollout agree  *)
(* with the comparison they shortcut.                                      *)
LEMMA RolloutIsThreshold ==
  ASSUME NEW f \in Flag, NEW h \in Nat
  PROVE  /\ ComputeBucket(h) \in 0 .. 99
         /\ Rollout(f, ComputeBucket(h)).enabled <=> ComputeBucket(h) < f.rollout_percentage
         /\ Rollout(f, ComputeBucket(h)) # Raised
  <1>1. ComputeBucket(h) \in 0 .. 99
    BY DEF ComputeBucket
  <1>2. f.rollout_percentage \in 0 .. 100
    BY DEF Flag
  <1>3. Rollout(f, ComputeBucket(h)).enabled <=> ComputeBucket(h) < f.rollout_percentage
    BY <1>1, <1>2 DEF Rollout, Answer
  <1>4. Rollout(f, ComputeBucket(h)) # Raised
    BY DEF Rollout, Raised, Answer
  <1> QED BY <1>1, <1>3, <1>4

(* For a well-formed request a loop stops exactly when a rule matches, and *)
(* it never raises, in whatever order the rules are read.                  *)
LEMMA StopsAreMatches ==
  ASSUME NEW q \in Requests, WellFormed(q), NEW rs, NEW s \in Orders(rs), NEW effect
  PROVE  LET stops == Stops(s, effect, q.user, q.context)
         IN  /\ stops # {} <=> Matching(rs, effect, q) # {}
             /\ ~RaisesFirst(s, stops, q.context)
  <1>1. \A r \in rs : ~Raises(r, q.context)
    BY DEF WellFormed, Raises
  <1>2. /\ \A i \in DOMAIN s : s[i] \in rs
        /\ \A r \in rs : \E i \in DOMAIN s : s[i] = r
    BY DEF Orders, Surjection
  <1>3. \A i \in DOMAIN s : ~Raises(s[i], q.context)
    BY <1>1, <1>2
  <1>4. \A i \in Stops(s, effect, q.user, q.context) : s[i] \in Matching(rs, effect, q)
    BY <1>2, <1>3 DEF Stops, Matching
  <1>5. \A r \in Matching(rs, effect, q) :
           \E i \in DOMAIN s : s[i] = r /\ i \in Stops(s, effect, q.user, q.context)
    BY <1>2 DEF Stops, Matching
  <1>6. ~RaisesFirst(s, Stops(s, effect, q.user, q.context), q.context)
    BY <1>3 DEF RaisesFirst, Stops
  <1> QED BY <1>4, <1>5, <1>6

LEMMA EvaluateDecides ==
  ASSUME NEW row \in Flag, NEW rs, NEW s \in Orders(rs), NEW q \in Requests, WellFormed(q)
  PROVE  EvaluateRow(row, s, q).enabled <=> DecisionOf(row, rs, q)
  <1> DEFINE excludes == Stops(s, "exclude", q.user, q.context)
             includes == Stops(s, "include", q.user, q.context)
  <1>1. /\ excludes # {} <=> Matching(rs, "exclude", q) # {}
        /\ ~RaisesFirst(s, excludes, q.context)
    BY StopsAreMatches
  <1>2. /\ includes # {} <=> Matching(rs, "include", q) # {}
        /\ ~RaisesFirst(s, includes, q.context)
    BY StopsAreMatches
  <1>3. q.user \in Values /\ Hash[q.user] \in Nat
    BY RolloutParameters DEF RolloutParameters
  <1>4. Rollout(row, ComputeBucket(Hash[q.user])).enabled
           <=> ComputeBucket(Hash[q.user]) < row.rollout_percentage
    BY <1>3, RolloutIsThreshold
  <1>5. EvaluateRow(row, s, q) =
           IF ~row.is_enabled THEN Answer(FALSE, "flag_disabled")
           ELSE IF excludes # {} THEN Answer(FALSE, "rule_match_exclude")
           ELSE IF includes # {} THEN Answer(TRUE, "rule_match_include")
           ELSE Rollout(row, ComputeBucket(Hash[q.user]))
    BY <1>1, <1>2 DEF EvaluateRow, Evaluate
  <1> HIDE DEF excludes, includes
  <1> QED BY <1>1, <1>2, <1>4, <1>5 DEF Answer, DecisionOf

(* The answer to a well-formed request is the one the configuration        *)
(* specifies: it does not depend on priorities or on the order of reading. *)
THEOREM DecisionCorrect == Spec => []DecisionHolds
  <1>1. TypeOK => DecisionHolds
    BY EvaluateDecides DEF TypeOK, DecisionHolds, EvaluateIn, Decision
  <1> QED BY <1>1, RolloutTypeCorrect, PTL

(***************************************************************************)
(* Edits.                                                                  *)
(***************************************************************************)

(* The rules can be read in some order. *)
LEMMA OrdersExist == ASSUME TypeOK PROVE Orders(rules) # {}
  <1>1. IsFiniteSet(rules)
    BY RolloutParameters, FS_Subset DEF TypeOK, RolloutParameters
  <1> QED BY <1>1, FS_CardinalityType
          DEF Orders, ExistsBijection, Bijection

LEMMA ServedIsDecision ==
  ASSUME TypeOK, NEW q \in Requests, WellFormed(q)
  PROVE  Served(q) <=> Decision(q)
  BY EvaluateDecides, OrdersExist DEF TypeOK, Served, EvaluateIn, Decision

(* Flag f is as wide as g, rules rs serve at least those that ts serve. *)
WiderFlag(f, g) ==
  (g.is_enabled => f.is_enabled) /\ g.rollout_percentage <= f.rollout_percentage
WiderRules(rs, ts) ==
  /\ \A r \in ts : r.effect = "include" => r \in rs
  /\ \A r \in rs : r.effect = "exclude" => r \in ts

LEMMA WiderDecides ==
  ASSUME NEW f \in Flag, NEW g \in Flag, WiderFlag(f, g), NEW rs, NEW ts, WiderRules(rs, ts),
         NEW q \in Requests, DecisionOf(g, ts, q)
  PROVE  DecisionOf(f, rs, q)
  <1> DEFINE b == ComputeBucket(Hash[q.user])
  <1>1. b \in Int
    BY RolloutParameters DEF RolloutParameters, ComputeBucket
  <1>2. b < g.rollout_percentage => b < f.rollout_percentage
    <2> HIDE DEF b
    <2> QED BY <1>1 DEF WiderFlag, Flag
  <1>3. Matching(rs, "exclude", q) \subseteq Matching(ts, "exclude", q)
    BY DEF WiderRules, Matching
  <1>4. Matching(ts, "include", q) \subseteq Matching(rs, "include", q)
    BY DEF WiderRules, Matching
  <1> QED BY <1>2, <1>3, <1>4 DEF DecisionOf, WiderFlag

(* What widening and narrowing edits do to the configuration. *)
LEMMA WideningEdit ==
  ASSUME TypeOK, TypeOK', Widens
  PROVE  WiderFlag(flag', flag) /\ WiderRules(rules', rules)
  <1>1. ASSUME NEW set \in SUBSET Fields, NEW n \in Percents, Update(set, TRUE, n),
               "rollout_percentage" \in set => n >= flag.rollout_percentage
        PROVE  WiderFlag(flag', flag) /\ WiderRules(rules', rules)
    <2>1. n \in Int /\ flag.rollout_percentage \in Int /\ rules' = rules
      BY <1>1, RolloutParameters DEF Update, TypeOK, Flag, RolloutParameters
    <2>2. flag.is_enabled => flag'.is_enabled
      BY <1>1, Zenon DEF Update
    <2>3. flag'.rollout_percentage >= flag.rollout_percentage
      BY <1>1, <2>1 DEF Update
    <2>4. flag'.rollout_percentage \in Int
      BY <1>1, <2>1 DEF Update
    <2> QED BY <2>1, <2>2, <2>3, <2>4 DEF WiderFlag, WiderRules
  <1>2. ASSUME NEW r \in RulePool, r.effect = "include", CreateRule(r)
        PROVE  WiderFlag(flag', flag) /\ WiderRules(rules', rules)
    BY <1>2 DEF CreateRule, WiderFlag, WiderRules, TypeOK, Flag
  <1>3. ASSUME NEW r \in RulePool, r.effect = "exclude", DeleteRule(r)
        PROVE  WiderFlag(flag', flag) /\ WiderRules(rules', rules)
    BY <1>3 DEF DeleteRule, WiderFlag, WiderRules, TypeOK, Flag
  <1> QED BY <1>1, <1>2, <1>3 DEF Widens

LEMMA NarrowingEdit ==
  ASSUME TypeOK, TypeOK', Narrows
  PROVE  WiderFlag(flag, flag') /\ WiderRules(rules, rules')
  <1>1. ASSUME NEW set \in SUBSET Fields, NEW n \in Percents, Update(set, FALSE, n),
               "rollout_percentage" \in set => n <= flag.rollout_percentage
        PROVE  WiderFlag(flag, flag') /\ WiderRules(rules, rules')
    <2>1. n \in Int /\ flag.rollout_percentage \in Int /\ rules' = rules
      BY <1>1, RolloutParameters DEF Update, TypeOK, Flag, RolloutParameters
    <2>2. flag'.is_enabled => flag.is_enabled
      BY <1>1, Zenon DEF Update
    <2>3. flag'.rollout_percentage <= flag.rollout_percentage
      BY <1>1, <2>1 DEF Update
    <2>4. flag'.rollout_percentage \in Int
      BY <1>1, <2>1 DEF Update
    <2> QED BY <2>1, <2>2, <2>3, <2>4 DEF WiderFlag, WiderRules
  <1>2. ASSUME NEW r \in RulePool, r.effect = "exclude", CreateRule(r)
        PROVE  WiderFlag(flag, flag') /\ WiderRules(rules, rules')
    BY <1>2 DEF CreateRule, WiderFlag, WiderRules, TypeOK, Flag
  <1>3. ASSUME NEW r \in RulePool, r.effect = "include", DeleteRule(r)
        PROVE  WiderFlag(flag, flag') /\ WiderRules(rules, rules')
    BY <1>3 DEF DeleteRule, WiderFlag, WiderRules, TypeOK, Flag
  <1> QED BY <1>1, <1>2, <1>3 DEF Narrows

(* In every state, who is served is who the configuration decides for. *)
DecidesAll == \A q \in Requests : WellFormed(q) => (Served(q) <=> Decision(q))

(* Widening a rollout never takes the flag from a user, narrowing it never *)
(* gives it to one.                                                        *)
THEOREM EditsMonotone == Spec => EditsAreMonotone
  <1>1. TypeOK => DecidesAll
    BY ServedIsDecision DEF DecidesAll
  <1>2. TypeOK' => DecidesAll'
    BY <1>1, PTL
  <1>3. ASSUME TypeOK, TypeOK', NEW q \in Requests, WellFormed(q)
        PROVE  /\ Widens => (Served(q) => Served(q)')
               /\ Narrows => (Served(q)' => Served(q))
    <2>1. Served(q) <=> Decision(q)
      BY <1>3, ServedIsDecision
    <2>2. WellFormed(q)'
      BY <1>3 DEF WellFormed
    <2>3. Served(q)' <=> Decision(q)'
      BY <1>2, <1>3, <2>2 DEF DecidesAll
    <2>4. Decision(q)' = DecisionOf(flag', rules', q)
      BY DEF Decision, DecisionOf, Matching
    <2>5. Widens => (Decision(q) => Decision(q)')
      BY <1>3, <2>4, WideningEdit, WiderDecides DEF Decision, TypeOK
    <2>6. Narrows => (Decision(q)' => Decision(q))
      BY <1>3, <2>4, NarrowingEdit, WiderDecides DEF Decision, TypeOK
    <2> QED BY <2>1, <2>3, <2>5, <2>6
  <1>4. TypeOK /\ TypeOK' /\ [Next]_vars =>
           [\A q \in Requests : WellFormed(q) =>
              /\ Widens => (Served(q) => Served(q)')
              /\ Narrows => (Served(q)' => Served(q))]_vars
    BY <1>3
  <1> QED BY <1>4, RolloutTypeCorrect, PTL DEF Spec, EditsAreMonotone

(***************************************************************************)
(* Requests whose custom attributes are no map.                            *)
(***************************************************************************)

(* A loop that stops somewhere has a first place where it stops. *)
LEMMA FirstStop ==
  ASSUME NEW s, NEW stops, stops \subseteq Int, IsFiniteSet(stops), stops # {},
         \A i \in stops : s[i].priority \in Int
  PROVE  \E i \in stops : \A j \in stops \ {i} : Precedes(s, i, j)
  <1> DEFINE HasFirst(x) == \E i \in x : \A j \in x \ {i} : Precedes(s, i, j)
             T == {x \in SUBSET stops : x # {} => HasFirst(x)}
  <1>1. ASSUME NEW x \in SUBSET stops, \A y \in x : x \ {y} \in T, x # {}
        PROVE  HasFirst(x)
    <2>1. PICK y \in x : TRUE
      BY <1>1
    <2>2. CASE x \ {y} = {}
      BY <2>1, <2>2
    <2>3. CASE x \ {y} # {}
      <3>1. PICK i \in x \ {y} : \A j \in (x \ {y}) \ {i} : Precedes(s, i, j)
        BY <1>1, <2>1, <2>3
      <3>2. CASE Precedes(s, i, y)
        BY <3>1, <3>2
      <3>3. CASE ~Precedes(s, i, y)
        <4>1. Precedes(s, y, i)
          BY <2>1, <3>1, <3>3 DEF Precedes
        <4>2. ASSUME NEW j \in x \ {y} PROVE Precedes(s, y, j)
          <5>1. CASE j = i
            BY <4>1, <5>1
          <5>2. CASE j # i
            <6>1. Precedes(s, i, j)
              BY <3>1, <5>2
            <6>2. /\ i \in Int /\ j \in Int /\ y \in Int
                  /\ s[i].priority \in Int /\ s[j].priority \in Int /\ s[y].priority \in Int
              BY <2>1, <3>1
            <6> QED BY <4>1, <6>1, <6>2 DEF Precedes
          <5> QED BY <5>1, <5>2
        <4> QED BY <2>1, <4>2
      <3> QED BY <3>2, <3>3
    <2> QED BY <2>2, <2>3
  <1>2. \A x \in SUBSET stops : (\A y \in x : x \ {y} \in T) => x \in T
    BY <1>1
  <1>3. \A x \in SUBSET stops : x \in T
    <2> HIDE DEF T
    <2> QED BY <1>2, SubsetInduction
  <1> QED BY <1>3

PlainRules(rs) == {r \in rs : r.rule_type # "custom_attribute"}

(* One loop of a request whose custom attributes are no map, over all the  *)
(* rules (s) and over those on other attributes (t).                       *)
LEMMA MalformedLoop ==
  ASSUME TypeOK, NEW q \in Requests, ~WellFormed(q),
         NEW s \in Orders(rules), NEW t \in Orders(PlainRules(rules)), NEW effect
  PROVE  LET stops == Stops(s, effect, q.user, q.context)
             plain == Stops(t, effect, q.user, q.context)
         IN  /\ ~RaisesFirst(t, plain, q.context)
             /\ plain # {} => stops # {}
             /\ stops # {} /\ plain = {} => RaisesFirst(s, stops, q.context)
  <1> DEFINE stops == Stops(s, effect, q.user, q.context)
             plain == Stops(t, effect, q.user, q.context)
  <1>1. /\ \A i \in DOMAIN s : s[i] \in rules
        /\ \A r \in rules : \E i \in DOMAIN s : s[i] = r
        /\ DOMAIN s = 1 .. Cardinality(rules)
    BY DEF Orders, Surjection
  <1>2. /\ \A i \in DOMAIN t : t[i] \in PlainRules(rules)
        /\ \A r \in PlainRules(rules) : \E i \in DOMAIN t : t[i] = r
    BY DEF Orders, Surjection
  <1>3. \A r \in rules : ValidRule(r)
    BY RolloutParameters DEF RolloutParameters, TypeOK
  <1>4. \A r \in rules : Raises(r, q.context) <=> r \notin PlainRules(rules)
    BY <1>3 DEF Raises, PlainRules, ValidRule, WellFormed
  <1>5. \A i \in DOMAIN t : t[i] \in rules /\ ~Raises(t[i], q.context)
    BY <1>2, <1>4 DEF PlainRules
  <1>6. ~RaisesFirst(t, plain, q.context)
    BY <1>5 DEF RaisesFirst, Stops
  <1>7. ASSUME NEW j \in plain PROVE stops # {}
    <2>1. PICK i \in DOMAIN s : s[i] = t[j]
      BY <1>1, <1>5 DEF Stops
    <2> QED BY <2>1 DEF Stops
  <1>8. ASSUME stops # {}, plain = {} PROVE RaisesFirst(s, stops, q.context)
    <2>1. ASSUME NEW i \in stops PROVE Raises(s[i], q.context)
      <3>1. i \in DOMAIN s /\ s[i] \in rules
        BY <1>1 DEF Stops
      <3>2. CASE s[i] \in PlainRules(rules)
        <4>1. PICK j \in DOMAIN t : t[j] = s[i]
          BY <1>2, <3>2
        <4>2. j \in plain
          BY <4>1 DEF Stops
        <4> QED BY <1>8, <4>2
      <3> QED BY <1>4, <3>1, <3>2
    <2>2. stops \subseteq 1 .. Cardinality(rules)
      BY <1>1 DEF Stops
    <2>3. Cardinality(rules) \in Nat
      BY RolloutParameters, FS_Subset, FS_CardinalityType DEF TypeOK, RolloutParameters
    <2>4. stops \subseteq Int /\ IsFiniteSet(stops)
      <3> HIDE DEF stops
      <3>1. IsFiniteSet(1 .. Cardinality(rules))
        BY <2>3, FS_Interval
      <3>2. stops \subseteq Int
        BY <2>2, <2>3
      <3>3. IsFiniteSet(stops)
        BY <2>2, <3>1, FS_Subset
      <3> QED BY <3>2, <3>3
    <2>5. \A i \in stops : s[i].priority \in Int
      BY <1>1, <1>3 DEF Stops, ValidRule
    <2>6. PICK i \in stops : \A j \in stops \ {i} : Precedes(s, i, j)
      <3> HIDE DEF stops
      <3> QED BY <1>8, <2>4, <2>5, FirstStop
    <2> QED BY <2>1, <2>6 DEF RaisesFirst
  <1> QED BY <1>6, <1>7, <1>8

(* Custom attributes that are no map cost an answer or leave it as it is:  *)
(* whichever rules and priorities there are, in whatever order they are    *)
(* read, an answer that is given is the one of the rules on other          *)
(* attributes.                                                             *)
THEOREM MalformedAnswered == Spec => []MalformedAnswersStand
  <1>1. ASSUME TypeOK, NEW q \in Requests, ~WellFormed(q),
               NEW s \in Orders(rules), NEW t \in Orders(PlainRules(rules))
        PROVE  EvaluateIn(s, q) \in {Raised, EvaluateIn(t, q)}
    <2> DEFINE stops(e) == Stops(s, e, q.user, q.context)
               plain(e) == Stops(t, e, q.user, q.context)
    <2>1. \A e : /\ ~RaisesFirst(t, plain(e), q.context)
                 /\ plain(e) # {} => stops(e) # {}
                 /\ stops(e) # {} /\ plain(e) = {} => RaisesFirst(s, stops(e), q.context)
      BY <1>1, MalformedLoop
    <2> HIDE DEF stops, plain
    <2>2. EvaluateIn(s, q) =
             IF ~flag.is_enabled THEN Answer(FALSE, "flag_disabled")
             ELSE IF stops("exclude") # {}
               THEN IF RaisesFirst(s, stops("exclude"), q.context) THEN Raised
                    ELSE Answer(FALSE, "rule_match_exclude")
             ELSE IF stops("include") # {}
               THEN IF RaisesFirst(s, stops("include"), q.context) THEN Raised
                    ELSE Answer(TRUE, "rule_match_include")
             ELSE Rollout(flag, ComputeBucket(Hash[q.user]))
      BY DEF EvaluateIn, EvaluateRow, Evaluate, stops
    <2>3. EvaluateIn(t, q) =
             IF ~flag.is_enabled THEN Answer(FALSE, "flag_disabled")
             ELSE IF plain("exclude") # {} THEN Answer(FALSE, "rule_match_exclude")
             ELSE IF plain("include") # {} THEN Answer(TRUE, "rule_match_include")
             ELSE Rollout(flag, ComputeBucket(Hash[q.user]))
      BY <2>1 DEF EvaluateIn, EvaluateRow, Evaluate, plain
    <2> QED BY <2>1, <2>2, <2>3
  <1>2. TypeOK => MalformedAnswersStand
    BY <1>1 DEF MalformedAnswersStand, PlainRules
  <1> QED BY <1>2, RolloutTypeCorrect, PTL

(* A request without context never notices the rules on its context. *)
THEOREM BareRequests == Spec => []BareRequestSeesUserRules
  <1> DEFINE userRules == {r \in rules : r.rule_type = "user_id"}
  <1>1. ASSUME TypeOK, NEW q \in Requests, q.context = NoContext,
               NEW s \in Orders(rules), NEW t \in Orders(userRules)
        PROVE  EvaluateIn(s, q) = EvaluateIn(t, q)
    <2>1. /\ \A i \in DOMAIN s : s[i] \in rules
          /\ \A r \in rules : \E i \in DOMAIN s : s[i] = r
          /\ \A i \in DOMAIN t : t[i] \in userRules
          /\ \A r \in userRules : \E i \in DOMAIN t : t[i] = r
      BY DEF Orders, Surjection
    <2>2. /\ NoContext.email = None /\ NoContext.country = None
          /\ NoContext.custom = [k \in Keys |-> None]
      BY DEF NoContext
    <2>3. q.context.custom \in Maps
      BY <1>1, <2>2 DEF Maps
    <2>4. \A r \in rules : ~Raises(r, q.context)
      BY <2>3 DEF Raises
    <2>5. \A r \in rules \ userRules : GetAttribute(r, q.user, q.context) = None
      <3> TAKE r \in rules \ userRules
      <3>1. ValidRule(r) /\ r.rule_type # "user_id"
        BY <1>1, RolloutParameters DEF TypeOK, RolloutParameters
      <3> QED BY <1>1, <2>2, <3>1 DEF ValidRule, GetAttribute
    <2>6. \A r \in rules \ userRules : ~RuleMatches(r, q.user, q.context)
      BY <2>5 DEF RuleMatches
    <2>7. ASSUME NEW effect
          PROVE  /\ Stops(s, effect, q.user, q.context) # {}
                       <=> Stops(t, effect, q.user, q.context) # {}
                 /\ ~RaisesFirst(s, Stops(s, effect, q.user, q.context), q.context)
                 /\ ~RaisesFirst(t, Stops(t, effect, q.user, q.context), q.context)
      <3>1. \A i \in Stops(s, effect, q.user, q.context) :
               \E j \in DOMAIN t : t[j] = s[i] /\ j \in Stops(t, effect, q.user, q.context)
        BY <2>1, <2>4, <2>6 DEF Stops
      <3>2. \A j \in Stops(t, effect, q.user, q.context) :
               \E i \in DOMAIN s : s[i] = t[j] /\ i \in Stops(s, effect, q.user, q.context)
        BY <2>1 DEF Stops
      <3>3. /\ ~RaisesFirst(s, Stops(s, effect, q.user, q.context), q.context)
            /\ ~RaisesFirst(t, Stops(t, effect, q.user, q.context), q.context)
        BY <2>1, <2>4 DEF RaisesFirst, Stops
      <3> QED BY <3>1, <3>2, <3>3
    <2> QED BY <2>7 DEF EvaluateIn, EvaluateRow, Evaluate
  <1>2. TypeOK => BareRequestSeesUserRules
    BY <1>1 DEF BareRequestSeesUserRules
  <1> QED BY <1>2, RolloutTypeCorrect, PTL
=============================================================================
