----------------------- MODULE EvaluateRequestProofs -----------------------
(***************************************************************************)
(* Proofs about EvaluateRequest, for any number of requests, any rules,    *)
(* contexts and hash function.                                             *)
(***************************************************************************)
EXTENDS EvaluateRequest, FlagRolloutProofs

(* Every answer of the engine is an answer, and none of those that are     *)
(* given without it.                                                       *)
LEMMA EngineAnswers ==
  ASSUME NEW row, NEW order, NEW q
  PROVE  /\ EvaluateRow(row, order, q) \in Answers
         /\ EvaluateRow(row, order, q) \notin {NotFound, Refused}
  <1>1. /\ NotFound.reason = "flag_not_found" /\ Refused.reason = "unauthorized"
        /\ Raised.reason = "raised"
    BY DEF NotFound, Refused, Raised, Answer
  <1>2. ASSUME NEW b \in BOOLEAN, NEW reason \in EngineReasons
        PROVE  Answer(b, reason) \in Answers /\ Answer(b, reason).reason = reason
    BY DEF Answer, Answers, Reasons
  <1>3. \E b \in BOOLEAN, reason \in EngineReasons : EvaluateRow(row, order, q) = Answer(b, reason)
    <2>1. Rollout(row, ComputeBucket(Hash[q.user]))
             \in {Answer(FALSE, "rollout_excluded"), Answer(TRUE, "rollout_included")}
      BY DEF Rollout
    <2>2. EvaluateRow(row, order, q)
             \in {Answer(FALSE, "raised"), Answer(FALSE, "flag_disabled"),
                  Answer(FALSE, "rule_match_exclude"), Answer(TRUE, "rule_match_include"),
                  Answer(FALSE, "rollout_excluded"), Answer(TRUE, "rollout_included")}
      BY <2>1 DEF EvaluateRow, Evaluate, Raised
    <2> QED BY <2>2 DEF EngineReasons
  <1>4. PICK b \in BOOLEAN, reason \in EngineReasons : EvaluateRow(row, order, q) = Answer(b, reason)
    BY <1>3
  <1>5. /\ EvaluateRow(row, order, q) \in Answers
        /\ EvaluateRow(row, order, q).reason = reason
    BY <1>2, <1>4
  <1> QED BY <1>1, <1>4, <1>5 DEF EngineReasons

LEMMA OtherAnswers ==
  /\ {NotFound, Accepted, Refused} \subseteq Answers
  /\ Accepted \notin {NotFound, Refused, Raised}
  /\ ~NotFound.enabled /\ ~Accepted.enabled /\ ~Refused.enabled
  <1>1. /\ NotFound.reason = "flag_not_found" /\ Refused.reason = "unauthorized"
        /\ Raised.reason = "raised" /\ Accepted.reason = "accepted"
    BY DEF NotFound, Accepted, Refused, Raised, Answer
  <1>2. /\ Answer(FALSE, "flag_not_found") \in Answers
        /\ Answer(FALSE, "accepted") \in Answers
        /\ Answer(FALSE, "unauthorized") \in Answers
    <2>1. \A b \in BOOLEAN : \A reason \in Reasons : Answer(b, reason) \in Answers
      BY DEF Answer, Answers
    <2>2. FALSE \in BOOLEAN
      OBVIOUS
    <2> QED BY <2>1, <2>2 DEF Reasons
  <1>3. ~NotFound.enabled /\ ~Accepted.enabled /\ ~Refused.enabled
    BY DEF NotFound, Accepted, Refused, Answer
  <1> QED BY <1>1, <1>2, <1>3 DEF NotFound, Accepted, Refused

(***************************************************************************)
(* Types.                                                                  *)
(***************************************************************************)

LEMMA ServeTypeInit == ASSUME ServeInit PROVE ServeTypeOK
  <1>1. TypeOK
    BY TypeInit DEF ServeInit
  <1> QED BY <1>1 DEF ServeInit, ServeTypeOK, At

(* The owner's steps leave the requests alone, but for their history. *)
OwnerStep == Edit \/ ArchiveFlag \/ RevokeKey \/ DeleteProject

LEMMA TurnTypes ==
  ASSUME was \in [Calls -> Found \cup {None}], NEW ways, Turn(ways)
  PROVE  /\ was' \in [Calls -> Found \cup {None}]
         /\ \A c \in Calls : was[c] = None <=> was'[c] = None
         /\ \A c \in Calls : was[c] # None =>
               /\ was'[c].row = was[c].row /\ was'[c].rules = was[c].rules
               /\ was'[c].archived = was[c].archived
               /\ was'[c].key = was[c].key
               /\ was'[c].trend = was[c].trend \cap ways
  <1>1. ASSUME NEW c \in Calls, was[c] # None
        PROVE  /\ was'[c] \in Found
               /\ was'[c].row = was[c].row /\ was'[c].rules = was[c].rules
               /\ was'[c].archived = was[c].archived
               /\ was'[c].key = was[c].key
               /\ was'[c].trend = was[c].trend \cap ways
    <2> DEFINE w == was[c]
    <2>1. w \in Found
      BY <1>1
    <2>2. was'[c] = [w EXCEPT !.trend = w.trend \cap ways]
      BY <1>1 DEF Turn
    <2> HIDE DEF w
    <2>3. /\ was'[c] \in Found
          /\ was'[c].row = w.row /\ was'[c].rules = w.rules
          /\ was'[c].archived = w.archived
          /\ was'[c].key = w.key
          /\ was'[c].trend = w.trend \cap ways
      BY <2>1, <2>2 DEF Found
    <2> QED BY <2>3 DEF w
  <1>2. ASSUME NEW c \in Calls, was[c] = None PROVE was'[c] = None
    BY <1>2 DEF Turn
  <1>3. was' = [c \in Calls |-> was'[c]]
    BY DEF Turn
  <1> QED BY <1>1, <1>2, <1>3, NoneIsNoRecord DEF NoneIsNoRecord

LEMMA OwnerStepHistory ==
  ASSUME ServeTypeOK, OwnerStep
  PROVE  /\ call' = call /\ events' = events
         /\ was' \in [Calls -> Found \cup {None}]
         /\ \A c \in Calls :
               /\ was[c] = None <=> was'[c] = None
               /\ was[c] # None =>
                     /\ was'[c].row = was[c].row /\ was'[c].rules = was[c].rules
                     /\ was'[c].archived = was[c].archived
                     /\ was'[c].key = was[c].key
                     /\ was'[c].trend \subseteq was[c].trend
         /\ archived => archived'
         /\ ~key_active => ~key_active'
         /\ archived' \in BOOLEAN /\ key_active' \in BOOLEAN /\ project_active' \in BOOLEAN
  <1>1. was \in [Calls -> Found \cup {None}]
    BY DEF ServeTypeOK
  <1>2. ASSUME NEW ways, Turn(ways)
        PROVE  /\ was' \in [Calls -> Found \cup {None}]
               /\ \A c \in Calls :
                     /\ was[c] = None <=> was'[c] = None
                     /\ was[c] # None =>
                           /\ was'[c].row = was[c].row /\ was'[c].rules = was[c].rules
                           /\ was'[c].archived = was[c].archived
                           /\ was'[c].key = was[c].key
                           /\ was'[c].trend \subseteq was[c].trend
    BY <1>1, <1>2, TurnTypes
  <1>3. CASE Edit
    BY <1>2, <1>3 DEF Edit, sdk, ServeTypeOK
  <1>4. CASE ArchiveFlag
    BY <1>2, <1>4 DEF ArchiveFlag, sdk, ServeTypeOK
  <1>5. CASE RevokeKey \/ DeleteProject
    <2>1. call' = call /\ events' = events /\ was' = was /\ archived' = archived
      BY <1>5 DEF RevokeKey, DeleteProject
    <2>2. key_active' \in BOOLEAN /\ project_active' \in BOOLEAN
          /\ (~key_active => ~key_active')
      <3>1. CASE RevokeKey
        <4>1. key_active' = FALSE /\ project_active' = project_active
          BY <3>1 DEF RevokeKey
        <4> QED BY <4>1, Zenon DEF ServeTypeOK
      <3>2. CASE DeleteProject
        <4>1. project_active' = FALSE /\ key_active' = key_active
          BY <3>2 DEF DeleteProject
        <4> QED BY <4>1, Zenon DEF ServeTypeOK
      <3> QED BY <1>5, <3>1, <3>2
    <2>3. archived' \in BOOLEAN /\ (archived => archived')
      BY <2>1, Zenon DEF ServeTypeOK
    <2> QED BY <1>1, <2>1, <2>2, <2>3
  <1> QED BY <1>3, <1>4, <1>5 DEF OwnerStep

(* What a step of a request can do to it.                                  *)
LEMMA CallStepFrame ==
  ASSUME ServeTypeOK, NEW c \in Calls, CallStep(c)
  PROVE  /\ UNCHANGED <<vars, archived, key_active, project_active>>
         /\ \A d \in Calls \ {c} : call'[d] = call[d] /\ was'[d] = was[d]
         /\ call' \in [Calls -> Call \cup {None}]
         /\ was' \in [Calls -> Found \cup {None}]
         /\ call'[c] # None /\ was'[c] # None
         /\ At(c, "rules")' => call'[c].row \in Flag
         /\ At(c, "record")' => call'[c].answer \in Answers
         /\ call[c] # None => was' = was /\ call'[c].kind = call[c].kind /\ call'[c].q = call[c].q
         /\ events' \subseteq [call : Calls, kind : Kinds, answer : Answers]
  <1> USE DEF ServeTypeOK, At, Reply, Idle
  <1>1. call \in [Calls -> Call \cup {None}] /\ None \notin Call /\ None \notin Found
    BY NoneIsNoRecord DEF NoneIsNoRecord
  <1>2. ASSUME NEW kind \in Kinds, NEW q \in Requests, Send(c, kind, q)
        PROVE  /\ call'[c] \in Call /\ was'[c] \in Found
               /\ call'[c].at = "key"
    <2>1. call'[c] = [kind |-> kind, q |-> q, at |-> "key", row |-> None, answer |-> None]
      BY <1>1, <1>2 DEF Send
    <2>2. was'[c] = [row |-> flag, rules |-> rules, archived |-> archived, trend |-> Trends,
                     key |-> key_active, project |-> project_active]
      BY <1>2 DEF Send
    <2> QED BY <2>1, <2>2 DEF Call, Found, TypeOK
  <1>3. ASSUME NEW answer \in Answers \cup {None}, NEW next \in {"flag", "rules", "record", "done"},
               call[c] # None, Reply(c, answer, next)
        PROVE  /\ call'[c] \in Call
               /\ call'[c].at = next /\ call'[c].answer = answer /\ call'[c].row = call[c].row
               /\ call'[c].kind = call[c].kind /\ call'[c].q = call[c].q
    BY <1>1, <1>3 DEF Call
  <1>4. CASE \E kind \in Kinds, q \in Requests : Send(c, kind, q)
    <2>1. PICK kind \in Kinds, q \in Requests : Send(c, kind, q)
      BY <1>4
    <2>2. call'[c] \in Call /\ was'[c] \in Found /\ call'[c].at = "key"
      BY <2>1, <1>2
    <2> QED BY <1>1, <2>1, <2>2 DEF Send
  <1>5. CASE ReadKey(c)
    BY <1>1, <1>3, <1>5, OtherAnswers DEF ReadKey
  <1>6. CASE ReadFlag(c)
    <2>1. CASE archived
      <3> DEFINE answer == IF call[c].kind = "evaluate" THEN NotFound ELSE Accepted
      <3>1. answer \in Answers
        BY OtherAnswers
      <3>2. Reply(c, answer, "done")
        BY <1>6, <2>1 DEF ReadFlag
      <3>3. call'[c] \in Call /\ call'[c].at = "done"
            /\ call'[c].kind = call[c].kind /\ call'[c].q = call[c].q
        BY <1>3, <1>6, <3>1, <3>2 DEF ReadFlag
      <3> QED BY <1>1, <1>6, <3>2, <3>3 DEF ReadFlag
    <2>2. CASE ~archived
      <3>1. call' = [call EXCEPT ![c].at = "rules", ![c].row = flag]
        BY <1>6, <2>2 DEF ReadFlag
      <3>2. call[c] \in Call
        BY <1>1, <1>6 DEF ReadFlag
      <3>3. call'[c] = [call[c] EXCEPT !.at = "rules", !.row = flag]
        BY <1>1, <3>1
      <3>4. call'[c] \in Call /\ call'[c].row \in Flag /\ call'[c].at = "rules"
            /\ call'[c].kind = call[c].kind /\ call'[c].q = call[c].q
        BY <3>2, <3>3 DEF Call, TypeOK
      <3> QED BY <1>1, <1>6, <3>1, <3>4 DEF ReadFlag
    <2> QED BY <2>1, <2>2
  <1>7. CASE ReadRules(c)
    <2>1. PICK answer \in Answers, next \in {"record", "done"} : Reply(c, answer, next)
      BY <1>7, EngineAnswers, OtherAnswers DEF ReadRules
    <2>2. call'[c] \in Call /\ call'[c].answer \in Answers /\ call'[c].at \in {"record", "done"}
          /\ call'[c].kind = call[c].kind /\ call'[c].q = call[c].q
      BY <1>3, <1>7, <2>1 DEF ReadRules
    <2> QED BY <1>1, <1>7, <2>1, <2>2 DEF ReadRules
  <1>8. CASE Record(c) \/ LoseRecord(c)
    <2>1. call' = [call EXCEPT ![c].at = "done"] /\ call[c] \in Call /\ call[c].at = "record"
      BY <1>1, <1>8 DEF Record, LoseRecord
    <2>2. call'[c] = [call[c] EXCEPT !.at = "done"]
      BY <1>1, <2>1
    <2>3. call'[c] \in Call /\ call'[c].at = "done"
          /\ call'[c].kind = call[c].kind /\ call'[c].q = call[c].q
      BY <2>1, <2>2 DEF Call
    <2>4. events' \subseteq [call : Calls, kind : Kinds, answer : Answers]
      <3>1. call[c].kind \in Kinds /\ call[c].answer \in Answers
        BY <1>8, <2>1 DEF Call, Record, LoseRecord
      <3> QED BY <1>8, <3>1 DEF Record, LoseRecord
    <2> QED BY <1>1, <1>8, <2>1, <2>3, <2>4 DEF Record, LoseRecord
  <1> QED BY <1>4, <1>5, <1>6, <1>7, <1>8 DEF CallStep

LEMMA ServeTypeNext == ASSUME ServeTypeOK, [ServeNext]_serve_vars PROVE ServeTypeOK'
  <1>1. CASE OwnerStep
    <2>1. TypeOK'
      <3>1. CASE Edit
        BY <3>1, TypeNext DEF Edit, ServeTypeOK
      <3>2. CASE ArchiveFlag \/ RevokeKey \/ DeleteProject
        BY <3>2 DEF ArchiveFlag, RevokeKey, DeleteProject, ServeTypeOK, TypeOK, vars
      <3> QED BY <1>1, <3>1, <3>2 DEF OwnerStep
    <2> QED BY <1>1, <2>1, OwnerStepHistory DEF ServeTypeOK, At
  <1>2. ASSUME NEW c \in Calls, CallStep(c) PROVE ServeTypeOK'
    BY <1>2, CallStepFrame DEF ServeTypeOK, TypeOK, vars, At
  <1>3. CASE UNCHANGED serve_vars
    BY <1>3 DEF serve_vars, vars, sdk, ServeTypeOK, TypeOK, At
  <1> QED BY <1>1, <1>2, <1>3 DEF ServeNext, OwnerStep

(* Requests, events and their history keep their shape.                    *)
THEOREM ServeTypeCorrect == ServeSpec => []ServeTypeOK
  BY ServeTypeInit, ServeTypeNext, PTL DEF ServeSpec

(***************************************************************************)
(* What a request's step does, and what its history says of the present.   *)
(***************************************************************************)

LEMMA CallEffects ==
  ASSUME ServeTypeOK, NEW c \in Calls, CallStep(c)
  PROVE  \/ /\ call[c] = None /\ call'[c].at = "key" /\ call'[c].answer = None
            /\ was'[c] = [row |-> flag, rules |-> rules, archived |-> archived, trend |-> Trends,
                          key |-> key_active, project |-> project_active]
            /\ events' = events
         \/ /\ At(c, "key") /\ key_active /\ call'[c].at = "flag" /\ call'[c].answer = None
            /\ events' = events
         \/ /\ At(c, "key") /\ ~key_active /\ call'[c].at = "done" /\ call'[c].answer = Refused
            /\ events' = events
         \/ /\ At(c, "flag") /\ archived /\ call'[c].at = "done" /\ events' = events
            /\ call'[c].answer = IF call[c].kind = "evaluate" THEN NotFound ELSE Accepted
         \/ /\ At(c, "flag") /\ ~archived /\ call'[c].at = "rules" /\ call'[c].row = flag
            /\ call'[c].answer = call[c].answer /\ events' = events
         \/ /\ At(c, "rules") /\ call[c].kind = "track" /\ call'[c].at = "record"
            /\ call'[c].answer = Accepted /\ events' = events
         \/ /\ At(c, "rules") /\ call[c].kind # "track" /\ events' = events
            /\ call'[c].at = IF call'[c].answer = Raised THEN "done" ELSE "record"
            /\ \E s \in Orders(rules) : call'[c].answer = EvaluateRow(call[c].row, s, call[c].q)
         \/ /\ At(c, "record") /\ call'[c].at = "done" /\ call'[c].answer = call[c].answer
            /\ \/ events' = events \cup
                     {[call |-> c, kind |-> call[c].kind, answer |-> call[c].answer]}
               \/ events' = events
  <1>1. call \in [Calls -> Call \cup {None}] /\ was \in [Calls -> Found \cup {None}]
    BY DEF ServeTypeOK
  <1>2. ASSUME NEW answer, NEW next, call[c] # None, Reply(c, answer, next)
        PROVE  call'[c].at = next /\ call'[c].answer = answer
    BY <1>1, <1>2 DEF Reply, Call
  <1>3. CASE \E kind \in Kinds, q \in Requests : Send(c, kind, q)
    BY <1>1, <1>3 DEF Send
  <1>4. CASE ReadKey(c)
    BY <1>2, <1>4 DEF ReadKey, At
  <1>5. CASE ReadFlag(c)
    <2>1. CASE archived
      BY <1>2, <1>5, <2>1 DEF ReadFlag, At
    <2>2. CASE ~archived
      BY <1>1, <1>5, <2>2 DEF ReadFlag, At, Call
    <2> QED BY <2>1, <2>2
  <1>6. CASE ReadRules(c)
    <2>1. CASE call[c].kind = "track"
      BY <1>2, <1>6, <2>1 DEF ReadRules, At
    <2>2. CASE call[c].kind # "track"
      <3>1. PICK s \in Orders(rules) :
               LET answer == EvaluateRow(call[c].row, s, call[c].q) IN
               Reply(c, answer, IF answer = Raised THEN "done" ELSE "record")
        BY <1>6, <2>2 DEF ReadRules, LoadedRow
      <3> DEFINE answer == EvaluateRow(call[c].row, s, call[c].q)
      <3> HIDE DEF answer
      <3>2. Reply(c, answer, IF answer = Raised THEN "done" ELSE "record")
        BY <3>1 DEF answer
      <3>3. call'[c].answer = answer /\ call'[c].at = IF answer = Raised THEN "done" ELSE "record"
        BY <1>2, <1>6, <3>2 DEF ReadRules, At
      <3> QED BY <1>6, <2>2, <3>3 DEF ReadRules, answer
    <2> QED BY <2>1, <2>2
  <1>7. CASE Record(c) \/ LoseRecord(c)
    BY <1>1, <1>7 DEF Record, LoseRecord, At, Call
  <1> QED BY <1>3, <1>4, <1>5, <1>6, <1>7 DEF CallStep

(* Edits since a request came, archiving and revocation show in the        *)
(* present configuration.                                                  *)
HistoryOf(c) ==
  was[c] # None =>
     /\ was[c].archived => archived
     /\ ~was[c].key => ~key_active
     /\ "narrower" \in was[c].trend =>
           WiderFlag(was[c].row, flag) /\ WiderRules(was[c].rules, rules)
     /\ "wider" \in was[c].trend =>
           /\ WiderFlag(flag, was[c].row) /\ WiderRules(rules, was[c].rules)
           /\ archived => was[c].archived
HistoryHolds == \A c \in Calls : HistoryOf(c)

LEMMA WiderIsOrder ==
  ASSUME NEW f \in Flag, NEW g \in Flag, NEW h \in Flag, NEW rs, NEW ts, NEW us
  PROVE  /\ WiderFlag(f, f) /\ WiderRules(rs, rs)
         /\ WiderFlag(f, g) /\ WiderFlag(g, h) => WiderFlag(f, h)
         /\ WiderRules(rs, ts) /\ WiderRules(ts, us) => WiderRules(rs, us)
  BY DEF WiderFlag, WiderRules, Flag

LEMMA OwnerStepTrend ==
  ASSUME ServeTypeOK, ServeTypeOK', OwnerStep, NEW c \in Calls, was[c] # None
  PROVE  /\ "narrower" \in was'[c].trend => WiderFlag(flag, flag') /\ WiderRules(rules, rules')
         /\ "wider" \in was'[c].trend =>
               WiderFlag(flag', flag) /\ WiderRules(rules', rules) /\ archived' = archived
  <1>1. flag \in Flag /\ flag' \in Flag /\ TypeOK /\ TypeOK'
    BY DEF ServeTypeOK, TypeOK
  <1>2. was \in [Calls -> Found \cup {None}]
    BY DEF ServeTypeOK
  <1>3. CASE Edit
    <2>1. was'[c].trend \subseteq {t \in Trends : (t = "narrower" /\ Narrows) \/ (t = "wider" /\ Widens)}
      BY <1>2, <1>3, TurnTypes DEF Edit
    <2> QED BY <1>1, <1>3, <2>1, WideningEdit, NarrowingEdit DEF Edit
  <1>4. CASE ArchiveFlag
    <2>1. was'[c].trend \subseteq {"narrower"}
      BY <1>2, <1>4, TurnTypes DEF ArchiveFlag
    <2> QED BY <1>1, <1>4, <2>1, WiderIsOrder DEF ArchiveFlag, vars
  <1>5. CASE RevokeKey \/ DeleteProject
    BY <1>1, <1>5, WiderIsOrder DEF RevokeKey, DeleteProject, vars
  <1> QED BY <1>3, <1>4, <1>5 DEF OwnerStep

LEMMA HistoryInit == ASSUME ServeInit PROVE HistoryHolds
  BY DEF ServeInit, HistoryHolds, HistoryOf

LEMMA HistoryNext ==
  ASSUME ServeTypeOK, ServeTypeOK', HistoryHolds, [ServeNext]_serve_vars
  PROVE  HistoryHolds'
  <1>1. CASE OwnerStep
    <2> SUFFICES ASSUME NEW c \in Calls, was'[c] # None PROVE HistoryOf(c)'
      BY DEF HistoryHolds, HistoryOf
    <2>1. was[c] # None
      BY <1>1, OwnerStepHistory
    <2>2. /\ was'[c].row = was[c].row /\ was'[c].rules = was[c].rules
          /\ was'[c].archived = was[c].archived /\ was'[c].key = was[c].key
          /\ was'[c].trend \subseteq was[c].trend
          /\ archived => archived'
          /\ ~key_active => ~key_active'
      BY <1>1, <2>1, OwnerStepHistory
    <2>3. /\ was[c].row \in Flag /\ flag \in Flag /\ flag' \in Flag
      BY <2>1 DEF ServeTypeOK, TypeOK, Found
    <2>4. HistoryOf(c)
      BY DEF HistoryHolds
    <2>5. /\ "narrower" \in was'[c].trend => WiderFlag(flag, flag') /\ WiderRules(rules, rules')
          /\ "wider" \in was'[c].trend =>
                WiderFlag(flag', flag) /\ WiderRules(rules', rules) /\ archived' = archived
      BY <1>1, <2>1, OwnerStepTrend
    <2>6. "narrower" \in was'[c].trend =>
             WiderFlag(was[c].row, flag') /\ WiderRules(was[c].rules, rules')
      BY <2>1, <2>2, <2>3, <2>4, <2>5, WiderIsOrder DEF HistoryOf
    <2>7. "wider" \in was'[c].trend =>
             WiderFlag(flag', was[c].row) /\ WiderRules(rules', was[c].rules)
      BY <2>1, <2>2, <2>3, <2>4, <2>5, WiderIsOrder DEF HistoryOf
    <2> QED BY <2>1, <2>2, <2>4, <2>5, <2>6, <2>7 DEF HistoryOf
  <1>2. ASSUME NEW c \in Calls, CallStep(c) PROVE HistoryHolds'
    <2>1. UNCHANGED <<vars, archived, key_active>> /\ \A d \in Calls \ {c} : was'[d] = was[d]
      BY <1>2, CallStepFrame
    <2>2. \A d \in Calls \ {c} : HistoryOf(d)'
      BY <2>1 DEF HistoryHolds, HistoryOf, vars
    <2>3. HistoryOf(c)'
      <3>1. CASE call[c] = None
        <4>1. was'[c] = [row |-> flag, rules |-> rules, archived |-> archived, trend |-> Trends,
                         key |-> key_active, project |-> project_active]
          BY <1>2, <3>1, CallEffects DEF At
        <4>2. flag \in Flag
          BY DEF ServeTypeOK, TypeOK
        <4> QED BY <2>1, <4>1, <4>2, WiderIsOrder DEF HistoryOf, vars
      <3>2. CASE call[c] # None
        <4>1. was' = was
          BY <1>2, <3>2, CallStepFrame
        <4> QED BY <2>1, <4>1 DEF HistoryHolds, HistoryOf, vars
      <3> QED BY <3>1, <3>2
    <2> QED BY <2>2, <2>3 DEF HistoryHolds
  <1>3. CASE UNCHANGED serve_vars
    BY <1>3 DEF serve_vars, vars, sdk, HistoryHolds, HistoryOf
  <1> QED BY <1>1, <1>2, <1>3 DEF ServeNext, OwnerStep

(***************************************************************************)
(* The inductive invariant: what each request has loaded and answered,     *)
(* against the configuration it found.                                     *)
(***************************************************************************)

Loaded(c) ==
  At(c, "rules") =>
     /\ ~was[c].archived
     /\ "narrower" \in was[c].trend => WiderFlag(was[c].row, call[c].row)
     /\ "wider" \in was[c].trend => WiderFlag(call[c].row, was[c].row)
Recordable(c) ==
  At(c, "record") => ~was[c].archived /\ call[c].answer \notin {NotFound, Raised, Refused}
Keyed(c) ==
  /\ call[c] # None /\ call[c].at \in {"key", "flag", "rules"} => call[c].answer = None
  /\ was[c] # None /\ ~was[c].key =>
        call[c].at \in {"key", "done"} /\ call[c].answer \in {None, Refused}
Follows(c) ==
  Replied(c) /\ call[c].kind = "evaluate" /\ WellFormed(call[c].q) =>
     /\ "narrower" \in was[c].trend /\ call[c].answer.enabled => Says(was[c], call[c].q)
     /\ "wider" \in was[c].trend /\ Says(was[c], call[c].q) => call[c].answer.enabled
CallOf(c) == Loaded(c) /\ Recordable(c) /\ Keyed(c) /\ Follows(c)
CallsHold == \A c \in Calls : CallOf(c)

(* An answer of the engine follows the edits since the request came.       *)
LEMMA EngineFollows ==
  ASSUME ServeTypeOK, HistoryHolds, NEW c \in Calls, At(c, "rules"), Loaded(c),
         WellFormed(call[c].q), NEW s \in Orders(rules)
  PROVE  LET answer == EvaluateRow(call[c].row, s, call[c].q)
         IN  /\ "narrower" \in was[c].trend /\ answer.enabled => Says(was[c], call[c].q)
             /\ "wider" \in was[c].trend /\ Says(was[c], call[c].q) => answer.enabled
  <1>1. /\ call[c].row \in Flag /\ call[c].q \in Requests
        /\ was[c] # None /\ was[c].row \in Flag
    BY NoneIsNoRecord DEF ServeTypeOK, At, Call, Found, NoneIsNoRecord
  <1>2. EvaluateRow(call[c].row, s, call[c].q).enabled
           <=> DecisionOf(call[c].row, rules, call[c].q)
    BY <1>1, EvaluateDecides
  <1>3. HistoryOf(c)
    BY DEF HistoryHolds
  <1>4. "narrower" \in was[c].trend /\ DecisionOf(call[c].row, rules, call[c].q)
           => Says(was[c], call[c].q)
    BY <1>1, <1>3, WiderDecides DEF HistoryOf, Loaded, Says
  <1>5. "wider" \in was[c].trend /\ Says(was[c], call[c].q)
           => DecisionOf(call[c].row, rules, call[c].q)
    BY <1>1, <1>3, WiderDecides DEF HistoryOf, Loaded, Says
  <1> QED BY <1>2, <1>4, <1>5

LEMMA CallsInit == ASSUME ServeInit PROVE CallsHold
  BY DEF ServeInit, CallsHold, CallOf, Loaded, Recordable, Keyed, Follows, Replied, At

LEMMA CallsNext ==
  ASSUME ServeTypeOK, ServeTypeOK', HistoryHolds, CallsHold, [ServeNext]_serve_vars
  PROVE  CallsHold'
  <1>1. CASE OwnerStep
    <2> SUFFICES ASSUME NEW c \in Calls PROVE CallOf(c)'
      BY DEF CallsHold
    <2>1. CallOf(c) /\ call' = call
      BY <1>1, OwnerStepHistory DEF CallsHold
    <2>2. CASE was[c] = None
      <3>1. call[c] = None /\ was'[c] = None
        BY <1>1, <2>2, OwnerStepHistory DEF ServeTypeOK
      <3> QED BY <2>1, <3>1 DEF CallOf, Loaded, Recordable, Keyed, Follows, Replied, At
    <2>3. CASE was[c] # None
      <3>1. /\ was'[c].row = was[c].row /\ was'[c].rules = was[c].rules
            /\ was'[c].archived = was[c].archived /\ was'[c].key = was[c].key
            /\ was'[c].trend \subseteq was[c].trend
        BY <1>1, <2>3, OwnerStepHistory
      <3>2. \A q : Says(was'[c], q) = Says(was[c], q)
        BY <3>1 DEF Says
      <3>3. Loaded(c)' /\ Recordable(c)' /\ Keyed(c)'
        BY <2>1, <2>3, <3>1 DEF CallOf, Loaded, Recordable, Keyed, At
      <3>4. Follows(c)'
        BY <2>1, <3>1, <3>2 DEF CallOf, Follows, Replied, WellFormed
      <3> QED BY <3>3, <3>4 DEF CallOf
    <2> QED BY <2>2, <2>3
  <1>2. ASSUME NEW c \in Calls, CallStep(c) PROVE CallsHold'
    <2>1. ASSUME NEW d \in Calls, d # c PROVE CallOf(d)'
      <3>1. call'[d] = call[d] /\ was'[d] = was[d] /\ CallOf(d)
        BY <1>2, <2>1, CallStepFrame DEF CallsHold
      <3> QED BY <3>1 DEF CallOf, Loaded, Recordable, Keyed, Follows, Replied, At, WellFormed
    <2>2. /\ call'[c] # None /\ was'[c] # None
          /\ call[c] # None => /\ was[c] # None /\ was'[c] = was[c]
                               /\ call'[c].kind = call[c].kind /\ call'[c].q = call[c].q
      BY <1>2, CallStepFrame DEF ServeTypeOK
    <2>3. CallOf(c) /\ HistoryOf(c)
      BY DEF CallsHold, HistoryHolds
    <2>4. Loaded(c)'
      BY <1>2, <2>2, <2>3, CallEffects DEF Loaded, HistoryOf, At
    <2>5. Recordable(c)'
      <3>1. ASSUME NEW s, call'[c].answer = EvaluateRow(call[c].row, s, call[c].q)
            PROVE  call'[c].answer \notin {NotFound, Refused}
        BY <3>1, EngineAnswers
      <3> QED BY <1>2, <2>2, <2>3, <3>1, CallEffects, OtherAnswers
              DEF CallOf, Loaded, Recordable, At
    <2>6. Keyed(c)'
      BY <1>2, <2>2, <2>3, CallEffects DEF CallOf, Keyed, HistoryOf, At
    <2>7. Follows(c)'
      <3> SUFFICES ASSUME Replied(c)', call'[c].kind = "evaluate", WellFormed(call'[c].q)
                   PROVE  /\ "narrower" \in was'[c].trend /\ call'[c].answer.enabled
                                => Says(was'[c], call'[c].q)
                          /\ "wider" \in was'[c].trend /\ Says(was'[c], call'[c].q)
                                => call'[c].answer.enabled
        BY DEF Follows, WellFormed
      <3>1. call[c] # None
        BY <1>2, CallEffects DEF Replied, At
      <3>2. /\ was'[c] = was[c] /\ call'[c].kind = call[c].kind /\ call'[c].q = call[c].q
            /\ was[c] # None
        BY <2>2, <3>1
      <3>3. CASE call'[c].answer = call[c].answer
        BY <2>3, <3>1, <3>2, <3>3 DEF CallOf, Follows, Replied
      <3>4. CASE At(c, "flag") /\ archived /\ call'[c].answer = NotFound
        BY <2>3, <3>2, <3>4, OtherAnswers DEF HistoryOf, Says
      <3>5. CASE At(c, "rules") /\
                 \E s \in Orders(rules) : call'[c].answer = EvaluateRow(call[c].row, s, call[c].q)
        BY <2>3, <3>2, <3>5, EngineFollows DEF CallOf
      <3> QED BY <1>2, <2>3, <3>1, <3>2, <3>3, <3>4, <3>5, CallEffects
              DEF Replied, At, CallOf, Keyed
    <2> QED BY <2>1, <2>4, <2>5, <2>6, <2>7 DEF CallsHold, CallOf
  <1>3. CASE UNCHANGED serve_vars
    BY <1>3 DEF serve_vars, vars, sdk, CallsHold, CallOf, Loaded, Recordable, Keyed, Follows,
                Replied, At, WellFormed
  <1> QED BY <1>1, <1>2, <1>3 DEF ServeNext, OwnerStep

LEMMA EventsInit == ASSUME ServeInit PROVE EventsTellAnswers
  BY DEF ServeInit, EventsTellAnswers

LEMMA EventsNext ==
  ASSUME ServeTypeOK, ServeTypeOK', CallsHold, EventsTellAnswers, [ServeNext]_serve_vars
  PROVE  EventsTellAnswers'
  <1>0. \A e \in events : e.call \in Calls
    BY DEF ServeTypeOK
  <1>1. CASE OwnerStep
    <2>1. call' = call /\ events' = events
      BY <1>1, OwnerStepHistory
    <2>2. \A e \in events : was[e.call] # None /\ was'[e.call].archived = was[e.call].archived
      BY <1>0, <1>1, OwnerStepHistory DEF EventsTellAnswers, ServeTypeOK, At
    <2> QED BY <2>1, <2>2 DEF EventsTellAnswers, At
  <1>2. ASSUME NEW c \in Calls, CallStep(c) PROVE EventsTellAnswers'
    <2> DEFINE new == [call |-> c, kind |-> call[c].kind, answer |-> call[c].answer]
    <2>1. \A e \in events : e.call # c
      BY <1>2, CallEffects DEF EventsTellAnswers, At
    <2>2. \A d \in Calls \ {c} : call'[d] = call[d] /\ was'[d] = was[d]
      BY <1>2, CallStepFrame
    <2>3. ASSUME NEW e \in events
          PROVE  /\ At(e.call, "done")' /\ e.answer = call'[e.call].answer
                 /\ e.kind = call'[e.call].kind
                 /\ e.answer \notin {NotFound, Raised, Refused}
                 /\ ~was'[e.call].archived
      BY <1>0, <2>1, <2>2 DEF EventsTellAnswers, At
    <2>4. CASE events' = events
      BY <2>3, <2>4 DEF EventsTellAnswers
    <2>5. CASE events' # events
      <3>1. At(c, "record") /\ call'[c].at = "done" /\ call'[c].answer = call[c].answer
            /\ events' = events \cup {new}
        BY <1>2, <2>5, CallEffects
      <3>2. /\ call'[c] # None /\ was'[c] = was[c] /\ call'[c].kind = call[c].kind
            /\ ~was[c].archived /\ call[c].answer \notin {NotFound, Raised, Refused}
        BY <1>2, <3>1, CallStepFrame DEF CallsHold, CallOf, Recordable, At
      <3>3. new.call = c /\ new.kind = call[c].kind /\ new.answer = call[c].answer
        OBVIOUS
      <3> HIDE DEF new
      <3> QED BY <2>1, <2>3, <3>1, <3>2, <3>3 DEF EventsTellAnswers, At
    <2> QED BY <2>4, <2>5
  <1>3. CASE UNCHANGED serve_vars
    BY <1>3 DEF serve_vars, sdk, EventsTellAnswers, At
  <1> QED BY <1>1, <1>2, <1>3 DEF ServeNext, OwnerStep

(* Types, history, requests and events together are inductive. *)
ServeInv == ServeTypeOK /\ HistoryHolds /\ CallsHold /\ EventsTellAnswers

LEMMA ServeInvariant == ServeSpec => []ServeInv
  <1>1. ServeInit => ServeInv
    BY ServeTypeInit, HistoryInit, CallsInit, EventsInit DEF ServeInv
  <1>2. ServeInv /\ [ServeNext]_serve_vars => ServeInv'
    BY ServeTypeNext, HistoryNext, CallsNext, EventsNext DEF ServeInv
  <1> QED BY <1>1, <1>2, PTL DEF ServeSpec

(* However edits fall between the two SELECTs of a request: while the      *)
(* owner only narrows nobody new is served, while he only widens nobody is *)
(* turned away.                                                            *)
THEOREM AnswersFollow == ServeSpec => []AnswersFollowEdits
  <1>1. ServeInv => AnswersFollowEdits
    BY DEF ServeInv, CallsHold, CallOf, Follows, AnswersFollowEdits
  <1> QED BY <1>1, ServeInvariant, PTL

(* What is recorded was answered, once, for a flag that was there. *)
THEOREM EventsTell == ServeSpec => []EventsTellAnswers
  <1>1. ServeInv => EventsTellAnswers
    BY DEF ServeInv
  <1> QED BY <1>1, ServeInvariant, PTL

(* A request that comes after the revocation of its key is refused and     *)
(* leaves no event.                                                        *)
THEOREM RevokedKeyShut == ServeSpec => []RevokedKeyOpensNothing
  <1>1. ASSUME ServeInv, NEW c \in Calls, was[c] # None, ~was[c].key
        PROVE  call[c].answer \in {None, Refused} /\ \A e \in events : e.call # c
    <2>1. call[c].answer \in {None, Refused}
      BY <1>1 DEF ServeInv, CallsHold, CallOf, Keyed
    <2>2. \A e \in events : e.answer \in Answers
      BY <1>1 DEF ServeInv, ServeTypeOK
    <2>3. \A e \in events : e.call = c => e.answer = call[c].answer /\ e.answer # Refused
      BY <1>1 DEF ServeInv, EventsTellAnswers
    <2> QED BY <2>1, <2>2, <2>3, NoneIsNoRecord DEF NoneIsNoRecord
  <1>2. ServeInv => RevokedKeyOpensNothing
    BY <1>1 DEF RevokedKeyOpensNothing
  <1> QED BY <1>2, ServeInvariant, PTL
=============================================================================
