----------------------- MODULE MonitoringEngineProofs -----------------------
(***************************************************************************)
(* Theorems about the monitoring engine, for every set of accounts, rules, *)
(* settings and overlapping checks.                                        *)
(***************************************************************************)
EXTENDS MonitoringEngine, TLAPS

----------------------------------------------------------------------------
(* The inductive invariant *)

(* A check under way works on the settings in force, or knows that they have
   been edited since it read the account. *)
CopyIsCurrent ==
    \A c \in Checks :
        Reads(c) /\ "config" \notin check[c].overtaken
            => check[c].config = config[check[c].account]

(* What a check is about to execute is a rule. *)
ActsOnRule == \A c \in Checks : In(c, "acting") => check[c].rule \in AllRules

IInv == TypeOK /\ CopyIsCurrent /\ ActsOnRule

Obeyed == ProductionStands /\ ThresholdKillsObey

----------------------------------------------------------------------------
(* Values *)

(* What the rules say at first is well typed. *)
LEMMA FirstTextsType == FirstTexts \in [AllRules -> RuleType]
  <1> SUFFICES ASSUME NEW r \in AllRules
               PROVE  (IF r \in Rules THEN RuleOf[r] ELSE AgentRule(r)) \in RuleType
    BY DEF FirstTexts
  <1>1. CASE r \in Rules  BY <1>1, EngineConstantsOK
  <1>2. CASE r \notin Rules
    <2>1. AgentTarget[r] \in Services  BY <1>2, EngineConstantsOK DEF AllRules
    <2>2. AgentRule(r) \in RuleType
      BY <2>1 DEF AgentRule, RuleType, KillActions
    <2>3. QED  BY <1>2, <2>2
  <1>3. QED  BY <1>1, <1>2

(* The blank check is well typed and reads no account. *)
LEMMA IdleType ==
    /\ Idle \in CheckType /\ Idle.pc = "idle"
    /\ NoAlert \in Alerts
  <1>1. (CHOOSE a \in Accounts : TRUE) \in Accounts  BY EngineConstantsOK
  <1>2. (CHOOSE k \in Configs : TRUE) \in Configs    BY EngineConstantsOK
  <1>3. NoAlert \in Alerts  BY EngineConstantsOK DEF NoAlert, Alerts
  <1>4. 0 \in 0..AlertCooldown  BY EngineConstantsOK
  <1>5. QED  BY <1>1, <1>2, <1>3, <1>4, FirstTextsType DEF Idle, CheckType

(* The next stage of a check is well typed, executes no rule yet, and keeps the
   copy of the account for as long as the check has use for it. *)
LEMMA StageType ==
    ASSUME NEW k \in CheckType, NEW rules \in SUBSET AllRules
    PROVE  /\ Stage(k, rules) \in CheckType
           /\ Stage(k, rules).pc \in {"rules", "kills", "finish"}
           /\ Stage(k, rules).pc # "finish" =>
                /\ Stage(k, rules).account = k.account
                /\ Stage(k, rules).config = k.config
                /\ Stage(k, rules).overtaken = k.overtaken
  <1>1. CASE rules # {}
    <2>1. Stage(k, rules) = [k EXCEPT !.pc = "rules", !.rules = rules, !.rule = NoRule]
      BY <1>1 DEF Stage
    <2>2. QED  BY <2>1 DEF CheckType
  <1>2. CASE rules = {} /\ Breaches(k.usage) = {}
    <2>1. Stage(k, rules) = [Idle EXCEPT !.pc = "finish", !.account = k.account]
      BY <1>2 DEF Stage, Ending
    <2>2. QED  BY <2>1, IdleType DEF CheckType
  <1>3. CASE rules = {} /\ Breaches(k.usage) # {}
    <2> DEFINE b == Breaches(k.usage)
    <2>1. b \in SUBSET Violations /\ b \in SUBSET Signals
      BY EngineConstantsOK DEF Breaches, CheckType
    <2>2. Stage(k, rules) = [k EXCEPT !.pc = "kills", !.rules = {}, !.rule = NoRule,
                                      !.says = FirstTexts, !.usage = b, !.todo = b]
      BY <1>3 DEF Stage
    <2> HIDE DEF b
    <2> DEFINE first == FirstTexts
    <2>3. first \in [AllRules -> RuleType]  BY FirstTextsType
    <2>4. Stage(k, rules) = [k EXCEPT !.pc = "kills", !.rules = {}, !.rule = NoRule,
                                      !.says = first, !.usage = b, !.todo = b]
      BY <2>2
    <2> DEFINE k1 == [k EXCEPT !.says = first]
    <2> HIDE DEF first
    <2>5. /\ k1 \in CheckType /\ k1.account = k.account /\ k1.config = k.config
          /\ k1.overtaken = k.overtaken
      BY <2>3 DEF CheckType
    <2>6. Stage(k, rules) = [k1 EXCEPT !.pc = "kills", !.rules = {}, !.rule = NoRule,
                                       !.usage = b, !.todo = b]
      BY <2>4 DEF CheckType
    <2> HIDE DEF k1
    <2> DEFINE k2 == [k1 EXCEPT !.pc = "kills", !.rules = {}, !.rule = NoRule]
    <2>7. /\ k2 \in CheckType /\ k2.pc = "kills" /\ k2.account = k1.account
          /\ k2.config = k1.config /\ k2.overtaken = k1.overtaken
      BY <2>5 DEF CheckType
    <2>8. Stage(k, rules) = [k2 EXCEPT !.usage = b, !.todo = b]
      BY <2>5, <2>6 DEF CheckType
    <2> HIDE DEF k2
    <2>9. QED  BY <2>1, <2>5, <2>7, <2>8 DEF CheckType
  <1>4. QED  BY <1>1, <1>2, <1>3

(* What a check has read that a rule says is well typed. *)
LEMMA RuleIsType ==
    ASSUME NEW k \in CheckType, NEW r \in AllRules
    PROVE  k.says[r].action \in KillActions /\ k.says[r].target \in Services
  <1>1. k.says[r] \in RuleType  BY DEF CheckType
  <1>2. QED  BY <1>1 DEF RuleType

(* An age stays below its cap. *)
LEMMA OlderType ==
    ASSUME NEW cap \in Nat, NEW age \in 0..cap
    PROVE  Older(age, cap) \in 0..cap
  BY DEF Older

(* Reading the rules changes nothing else of a check. *)
LEMMA RulesAreRead ==
    ASSUME IInv, NEW c \in Checks
    PROVE  LET k == [check[c] EXCEPT !.says = text] IN
           /\ k \in CheckType /\ k.account = check[c].account
           /\ k.config = check[c].config /\ k.alert = check[c].alert
           /\ k.overtaken = check[c].overtaken /\ k.usage = check[c].usage
  <1>1. check[c] \in CheckType /\ text \in [AllRules -> RuleType]
    BY DEF IInv, TypeOK
  <1>2. QED  BY <1>1 DEF CheckType

(* No service is killed unless the step is a kill. *)
LEMMA NotAKill ==
    ASSUME event' = Quiet \/ event' = [kind |-> "alert"]
    PROVE  event' \notin Kills /\ Obeyed'
  <1>1. event' \notin Kills  BY DEF Kills, Quiet
  <1>2. QED  BY <1>1 DEF Obeyed, ProductionStands, ThresholdKillsObey, Kills

(* What becomes of one check, when the accounts' settings stay: it is well typed,
   keeps its copy or has no more use for it, and executes no rule. *)
LEMMA OneCheck ==
    ASSUME IInv, NEW c \in Checks, NEW k \in CheckType,
           check' = [check EXCEPT ![c] = k], config' = config,
           k.pc = "acting" => k.rule \in AllRules,
           k.pc \in {"loaded", "measured", "rules", "acting", "kills"}
                /\ "config" \notin k.overtaken => k.config = config[k.account]
    PROVE  /\ check' \in [Checks -> CheckType]
           /\ CopyIsCurrent' /\ ActsOnRule'
  <1>1. check \in [Checks -> CheckType]  BY DEF IInv, TypeOK
  <1>2. check'[c] = k /\ \A d \in Checks \ {c} : check'[d] = check[d]  BY <1>1
  <1>3. check' \in [Checks -> CheckType]  BY <1>1
  <1>4. CopyIsCurrent'
    <2> SUFFICES ASSUME NEW d \in Checks, Reads(d)', "config" \notin check'[d].overtaken
                 PROVE  check'[d].config = config'[check'[d].account]
      BY DEF CopyIsCurrent
    <2>1. CASE d = c  BY <2>1, <1>2 DEF Reads
    <2>2. CASE d # c  BY <2>2, <1>2 DEF Reads, IInv, CopyIsCurrent
    <2>3. QED  BY <2>1, <2>2
  <1>5. ActsOnRule'  BY <1>2 DEF ActsOnRule, IInv, In
  <1>6. QED  BY <1>3, <1>4, <1>5

(* The same when other checks only learn that they have been overtaken. *)
LEMMA OthersOvertaken ==
    ASSUME IInv, NEW c \in Checks, NEW k \in CheckType, config' = config,
           NEW x \in AllRules \cup {"alert", "config"}, NEW S \in SUBSET Checks,
           check' = [d \in Checks |->
                IF d = c THEN k
                ELSE IF d \in S THEN [check[d] EXCEPT !.overtaken = @ \cup {x}]
                ELSE check[d]],
           k.pc = "acting" => k.rule \in AllRules,
           k.pc \in {"loaded", "measured", "rules", "acting", "kills"}
                /\ "config" \notin k.overtaken => k.config = config[k.account]
    PROVE  /\ check' \in [Checks -> CheckType]
           /\ CopyIsCurrent' /\ ActsOnRule'
  <1> DEFINE mark(d) == [check[d] EXCEPT !.overtaken = @ \cup {x}]
  <1>1. check \in [Checks -> CheckType]  BY DEF IInv, TypeOK
  <1>2. \A d \in Checks : /\ mark(d) \in CheckType
                          /\ mark(d).pc = check[d].pc /\ mark(d).rule = check[d].rule
                          /\ mark(d).config = check[d].config
                          /\ mark(d).account = check[d].account
                          /\ mark(d).overtaken = check[d].overtaken \cup {x}
    <2> SUFFICES ASSUME NEW d \in Checks
                 PROVE  /\ mark(d) \in CheckType
                        /\ mark(d).pc = check[d].pc /\ mark(d).rule = check[d].rule
                        /\ mark(d).config = check[d].config
                        /\ mark(d).account = check[d].account
                        /\ mark(d).overtaken = check[d].overtaken \cup {x}
      OBVIOUS
    <2>1. check[d] \in CheckType  BY <1>1
    <2>2. QED  BY <2>1 DEF CheckType
  <1> HIDE DEF mark
  <1>3. check'[c] = k
    OBVIOUS
  <1>4. \A d \in Checks \ {c} : check'[d] = check[d] \/ check'[d] = mark(d)
    BY DEF mark
  <1>5. check' \in [Checks -> CheckType]
    <2>1. \A d \in Checks : check'[d] \in CheckType  BY <1>1, <1>2, <1>3, <1>4
    <2>2. QED  BY <2>1
  <1>6. CopyIsCurrent'
    <2> SUFFICES ASSUME NEW d \in Checks, Reads(d)', "config" \notin check'[d].overtaken
                 PROVE  check'[d].config = config'[check'[d].account]
      BY DEF CopyIsCurrent
    <2>1. CASE d = c  BY <2>1, <1>3 DEF Reads
    <2>2. CASE d # c  BY <2>2, <1>2, <1>4 DEF Reads, IInv, CopyIsCurrent
    <2>3. QED  BY <2>1, <2>2
  <1>7. ActsOnRule'
    <2> SUFFICES ASSUME NEW d \in Checks, In(d, "acting")'
                 PROVE  check'[d].rule \in AllRules
      BY DEF ActsOnRule
    <2>1. CASE d = c  BY <2>1, <1>3 DEF In
    <2>2. CASE d # c  BY <2>2, <1>2, <1>4 DEF In, IInv, ActsOnRule
    <2>3. QED  BY <2>1, <2>2
  <1>8. QED  BY <1>5, <1>6, <1>7

----------------------------------------------------------------------------
(* The steps of a check *)

LEMMA LoadSafe ==
    ASSUME IInv, NEW c \in Checks, NEW a \in Accounts, Load(c, a)
    PROVE  IInv' /\ Obeyed'
  <1> DEFINE late == {x \in {"alert"} : \E d \in Checks : In(d, "persist") /\ check[d].account = a}
             k == [Idle EXCEPT !.pc = "loaded", !.account = a, !.config = config[a],
                               !.alert = lastAlert[a], !.overtaken = late]
  <1>1. config[a] \in Configs /\ lastAlert[a] \in Alerts  BY DEF IInv, TypeOK
  <1>2. late \in SUBSET (AllRules \cup {"alert", "config"})  OBVIOUS
  <1>3. check' = [check EXCEPT ![c] = k]  BY DEF Load
  <1> HIDE DEF late
  <1>4. k \in CheckType /\ k.pc = "loaded" /\ k.config = config[k.account]
    BY <1>1, <1>2, IdleType DEF CheckType
  <1> HIDE DEF k
  <1>5. check' \in [Checks -> CheckType] /\ CopyIsCurrent' /\ ActsOnRule'
    BY <1>3, <1>4, OneCheck DEF Load, accountVars
  <1>6. event' = Quiet  BY DEF Load
  <1>7. TypeOK'
    BY <1>5, <1>6 DEF IInv, TypeOK, Load, accountVars, ruleVars, externalVars,
                      boundVars, Quiet
  <1>8. QED  BY <1>5, <1>6, <1>7, NotAKill DEF IInv

LEMMA CheckUsageSafe ==
    ASSUME IInv, NEW c \in Checks, CheckUsage(c)
    PROVE  IInv' /\ Obeyed'
  <1> DEFINE a == check[c].account
  <1>0. check[c] \in CheckType /\ a \in Accounts  BY DEF IInv, TypeOK, CheckType
  <1>1. event' = Quiet /\ config' = config  BY DEF CheckUsage
  <1>2. /\ check' \in [Checks -> CheckType] /\ CopyIsCurrent' /\ ActsOnRule'
        /\ checkAge' \in [Accounts -> 0..Interval]
    <2>1. CASE check' = [check EXCEPT ![c].pc = "measured", ![c].usage = usage[a]]
                 /\ In(c, "loaded") /\ UNCHANGED checkAge
      <3> DEFINE k == [check[c] EXCEPT !.pc = "measured", !.usage = usage[a]]
      <3>1. usage[a] \in SUBSET Signals  BY <1>0 DEF IInv, TypeOK
      <3>2. check' = [check EXCEPT ![c] = k]  BY <2>1, <1>0 DEF IInv, TypeOK
      <3>3. /\ k \in CheckType /\ k.pc = "measured" /\ k.config = check[c].config
            /\ k.account = check[c].account /\ k.overtaken = check[c].overtaken
        BY <1>0, <3>1 DEF CheckType
      <3> HIDE DEF k
      <3>4. "config" \notin k.overtaken => k.config = config[k.account]
        BY <3>3, <2>1 DEF IInv, CopyIsCurrent, Reads, In
      <3>5. /\ k.pc = "acting" => k.rule \in AllRules
            /\ k.pc \in {"loaded", "measured", "rules", "acting", "kills"}
                  /\ "config" \notin k.overtaken => k.config = config[k.account]
        BY <3>3, <3>4
      <3>6. check' \in [Checks -> CheckType] /\ CopyIsCurrent' /\ ActsOnRule'
        BY <1>1, <3>2, <3>3, <3>5, OneCheck
      <3>7. QED  BY <2>1, <3>6 DEF IInv, TypeOK
    <2>2. CASE check' = [check EXCEPT ![c] = Idle]
                 /\ checkAge' = [checkAge EXCEPT ![a] = 0]
      <3>1. checkAge' \in [Accounts -> 0..Interval]
        BY <2>2, <1>0, EngineConstantsOK DEF IInv, TypeOK
      <3>2. QED  BY <1>1, <2>2, <3>1, IdleType, OneCheck
    <2>3. QED  BY <2>1, <2>2 DEF CheckUsage
  <1>3. TypeOK'
    BY <1>1, <1>2 DEF IInv, TypeOK, CheckUsage, ruleVars, externalVars, boundVars, Quiet
  <1>4. QED  BY <1>1, <1>2, <1>3, NotAKill DEF IInv

LEMMA EvaluateSafe ==
    ASSUME IInv, NEW c \in Checks, Evaluate(c)
    PROVE  IInv' /\ Obeyed'
  <1> DEFINE rules == Triggered(check[c].usage)
             read == [check[c] EXCEPT !.says = text]
             k == Stage(read, rules)
  <1>1. /\ read \in CheckType /\ rules \in SUBSET AllRules
        /\ read.account = check[c].account /\ read.config = check[c].config
        /\ read.overtaken = check[c].overtaken
    BY RulesAreRead DEF Triggered
  <1>2. event' = Quiet /\ config' = config /\ check' = [check EXCEPT ![c] = k]
    BY DEF Evaluate, accountVars, IInv, TypeOK
  <1> HIDE DEF rules, read
  <1>3. /\ k \in CheckType /\ k.pc # "acting" /\ k.pc \in {"rules", "kills", "finish"}
        /\ k.pc # "finish" => k.account = check[c].account /\ k.config = check[c].config
                              /\ k.overtaken = check[c].overtaken
    BY <1>1, StageType
  <1> HIDE DEF k
  <1>4. k.pc # "finish" /\ "config" \notin k.overtaken => k.config = config[k.account]
    BY <1>3 DEF Evaluate, IInv, CopyIsCurrent, Reads, In
  <1>5. check' \in [Checks -> CheckType] /\ CopyIsCurrent' /\ ActsOnRule'
    BY <1>2, <1>3, <1>4, OneCheck
  <1>6. TypeOK'
    BY <1>2, <1>5 DEF IInv, TypeOK, Evaluate, accountVars, ruleVars, externalVars,
                      boundVars, Quiet
  <1>7. QED  BY <1>2, <1>5, <1>6, NotAKill DEF IInv

LEMMA FireSafe ==
    ASSUME IInv, NEW c \in Checks, NEW r \in AllRules, Fire(c, r)
    PROVE  IInv' /\ Obeyed'
  <1> DEFINE k == [check[c] EXCEPT !.pc = "acting", !.rule = r, !.rules = @ \ {r}]
             S == {d \in Checks : r \in check[d].rules}
  <1>1. check[c] \in CheckType  BY DEF IInv, TypeOK
  <1>2. /\ event' = Quiet /\ config' = config
        /\ check' = [d \in Checks |->
                IF d = c THEN k
                ELSE IF d \in S THEN [check[d] EXCEPT !.overtaken = @ \cup {r}]
                ELSE check[d]]
    BY DEF Fire, accountVars
  <1>3. /\ k \in CheckType /\ k.pc = "acting" /\ k.rule = r
        /\ k.account = check[c].account /\ k.config = check[c].config
        /\ k.overtaken = check[c].overtaken
    BY <1>1 DEF CheckType
  <1>4. S \in SUBSET Checks  OBVIOUS
  <1> HIDE DEF k, S
  <1>5. "config" \notin k.overtaken => k.config = config[k.account]
    BY <1>3 DEF Fire, IInv, CopyIsCurrent, Reads, In
  <1>6. check' \in [Checks -> CheckType] /\ CopyIsCurrent' /\ ActsOnRule'
    <2>1. /\ k.pc = "acting" => k.rule \in AllRules
          /\ k.pc \in {"loaded", "measured", "rules", "acting", "kills"}
                /\ "config" \notin k.overtaken => k.config = config[k.account]
          /\ r \in AllRules \cup {"alert", "config"}
      BY <1>3, <1>5
    <2>2. QED  BY <1>2, <1>3, <1>4, <2>1, OthersOvertaken, ZenonT(30)
  <1>7. firedAge' \in [AllRules -> 0..RuleCooldown]
    BY EngineConstantsOK DEF Fire, IInv, TypeOK
  <1>8. TypeOK'
    BY <1>2, <1>6, <1>7 DEF IInv, TypeOK, Fire, accountVars, externalVars, boundVars, Quiet
  <1>9. QED  BY <1>2, <1>6, <1>8, NotAKill DEF IInv

(* A kill says which account, service and rule it is of. *)
LEMMA KillSays ==
    ASSUME NEW c \in Checks, NEW service, NEW action
    PROVE  /\ Kill(c, service, action).account = check[c].account
           /\ Kill(c, service, action).service = service
           /\ Kill(c, service, action).action = action
           /\ Kill(c, service, action).rule = check[c].rule
           /\ Kill(c, service, action).edited = ("config" \in check[c].overtaken)
  BY DEF Kill

LEMMA RuleActsSafe ==
    ASSUME IInv, NEW c \in Checks, RuleActs(c)
    PROVE  IInv' /\ Obeyed'
  <1> DEFINE r == check[c].says[check[c].rule]
             health == IF r.approval THEN check[c].health ELSE Health(c)
             probed == [check[c] EXCEPT !.health = health]
             k == Stage(probed, probed.rules)
             spared == r.approval \/ Health(c) = "degraded" \/ ProtectedDestructive(c, r.action)
             kill == Kill(c, r.target, r.action)
  <1>1. /\ check[c] \in CheckType /\ check[c].rules \in SUBSET AllRules
        /\ check[c].account \in Accounts
    BY DEF IInv, TypeOK, CheckType
  <1>2. /\ In(c, "acting") /\ config' = config
        /\ check' = [check EXCEPT ![c] = k]
        /\ event' = IF spared THEN Quiet ELSE kill
    BY DEF RuleActs, accountVars, IInv, TypeOK
  <1>3. check[c].rule \in AllRules /\ r.action \in KillActions /\ r.target \in Services
    BY <1>1, <1>2, RuleIsType DEF IInv, ActsOnRule
  <1>4. check[c].rule # NoRule
    BY <1>3, EngineConstantsOK DEF NoRule, AllRules
  <1>5. "config" \notin check[c].overtaken => check[c].config = config[check[c].account]
    BY <1>2 DEF IInv, CopyIsCurrent, Reads, In
  <1>6. /\ k \in CheckType /\ k.pc \in {"rules", "kills", "finish"}
        /\ k.pc # "finish" => k.account = check[c].account /\ k.config = check[c].config
                              /\ k.overtaken = check[c].overtaken
    <2>1. health \in {"unknown", "healthy", "degraded"}
      BY <1>1 DEF Health, CheckType
    <2> HIDE DEF health
    <2>2. /\ probed \in CheckType /\ probed.rules \in SUBSET AllRules
          /\ probed.account = check[c].account /\ probed.config = check[c].config
          /\ probed.overtaken = check[c].overtaken
      BY <1>1, <2>1 DEF CheckType
    <2> HIDE DEF probed
    <2>3. QED  BY <2>2, StageType
  <1> HIDE DEF k
  <1>7. check' \in [Checks -> CheckType] /\ CopyIsCurrent' /\ ActsOnRule'
    <2>1. /\ k.pc = "acting" => k.rule \in AllRules
          /\ k.pc \in {"loaded", "measured", "rules", "acting", "kills"}
                /\ "config" \notin k.overtaken => k.config = config[k.account]
      BY <1>5, <1>6
    <2>2. QED  BY <1>2, <1>6, <2>1, OneCheck
  <1>8. event' \in Kills \/ event' = Quiet
    <2>1. kill \in Kills
      BY <1>1, <1>3 DEF Kill, Kills
    <2>2. QED  BY <1>2, <2>1
  <1>9. TypeOK'
    <2>1. event' \in Kills \/ event'.kind \in {"none", "alert"}
      BY <1>8 DEF Quiet
    <2>2. QED  BY <1>7, <2>1 DEF IInv, TypeOK, RuleActs, accountVars, ruleVars,
                                 externalVars, boundVars
  <1>10. Obeyed'
    <2>1. CASE spared  BY <2>1, <1>2, NotAKill
    <2>2. CASE ~spared
      <3>1. event' = kill /\ event'.rule # NoRule
        BY <2>2, <1>2, <1>4, KillSays
      <3>2. ThresholdKillsObey'  BY <3>1 DEF ThresholdKillsObey
      <3>3. ProductionStands'
        <4> SUFFICES ASSUME event'.account \in Managed, event'.action \in Destructive,
                            ~event'.edited, config'[event'.account].productionProtected
                     PROVE  FALSE
          BY DEF ProductionStands
        <4>0. /\ kill.account = check[c].account /\ kill.action = r.action
              /\ kill.edited = ("config" \in check[c].overtaken)
          BY KillSays
        <4>1. /\ event'.account = check[c].account /\ event'.action = r.action
              /\ "config" \notin check[c].overtaken
          BY <3>1, <4>0
        <4>2. check[c].config.productionProtected  BY <4>1, <1>2, <1>5
        <4>3. ProtectedDestructive(c, r.action)
          BY <4>1, <4>2 DEF ProtectedDestructive
        <4>4. QED  BY <4>3, <2>2
      <3>4. QED  BY <3>2, <3>3 DEF Obeyed
    <2>3. QED  BY <2>1, <2>2
  <1>11. QED  BY <1>7, <1>9, <1>10 DEF IInv

LEMMA ThresholdStepSafe ==
    ASSUME IInv, NEW c \in Checks, NEW v \in Violations, ThresholdStep(c, v)
    PROVE  IInv' /\ Obeyed'
  <1> DEFINE actions == {x \in ThresholdAction(c, v) : ~ProtectedDestructive(c, x)}
             action == CHOOSE x \in actions : TRUE
             k == [check[c] EXCEPT !.todo = @ \ {v}, !.health = Health(c)]
             spared == Health(c) = "degraded" \/ ~Killable(c, v) \/ actions = {}
             kill == Kill(c, ServiceOf[v], action)
  <1>1. check[c] \in CheckType /\ check[c].account \in Accounts
    BY DEF IInv, TypeOK, CheckType
  <1>2. /\ In(c, "kills") /\ config' = config
        /\ check' = [check EXCEPT ![c] = k]
        /\ event' = IF spared THEN Quiet ELSE kill
    BY DEF ThresholdStep, accountVars, IInv, TypeOK
  <1>3. "config" \notin check[c].overtaken => check[c].config = config[check[c].account]
    BY <1>2 DEF IInv, CopyIsCurrent, Reads, In
  <1>4. actions # {} => /\ action \in KillActions
                        /\ ~ProtectedDestructive(c, action)
                        /\ IF action = "delete" THEN check[c].config.autoDelete
                           ELSE check[c].config.autoDisconnect
    <2> SUFFICES ASSUME actions # {}
                 PROVE  /\ action \in KillActions
                        /\ ~ProtectedDestructive(c, action)
                        /\ IF action = "delete" THEN check[c].config.autoDelete
                           ELSE check[c].config.autoDisconnect
      OBVIOUS
    <2>1. action \in actions  OBVIOUS
    <2> HIDE DEF action
    <2>2. QED  BY <2>1 DEF ThresholdAction, KillActions
  <1> HIDE DEF action
  <1>5. /\ k \in CheckType /\ k.pc = "kills" /\ k.account = check[c].account
        /\ k.config = check[c].config /\ k.overtaken = check[c].overtaken
    <2>1. Health(c) \in {"unknown", "healthy", "degraded"}
      BY <1>1 DEF Health, CheckType
    <2>2. QED  BY <1>1, <1>2, <2>1 DEF CheckType, In
  <1> HIDE DEF k
  <1>6. check' \in [Checks -> CheckType] /\ CopyIsCurrent' /\ ActsOnRule'
    <2>1. /\ k.pc = "acting" => k.rule \in AllRules
          /\ k.pc \in {"loaded", "measured", "rules", "acting", "kills"}
                /\ "config" \notin k.overtaken => k.config = config[k.account]
      BY <1>3, <1>5
    <2>2. QED  BY <1>2, <1>5, <2>1, OneCheck
  <1>7. event' \in Kills \/ event' = Quiet
    <2>1. actions # {} => kill \in Kills
      BY <1>1, <1>4, EngineConstantsOK DEF Kill, Kills, CheckType
    <2>2. QED  BY <1>2, <2>1
  <1>8. TypeOK'
    <2>1. event' \in Kills \/ event'.kind \in {"none", "alert"}
      BY <1>7 DEF Quiet
    <2>2. QED  BY <1>6, <2>1 DEF IInv, TypeOK, ThresholdStep, accountVars, ruleVars,
                                 externalVars, boundVars
  <1>9. Obeyed'
    <2>1. CASE spared  BY <2>1, <1>2, NotAKill
    <2>2. CASE ~spared
      <3>1. event' = kill /\ actions # {} /\ Killable(c, v)
        BY <2>2, <1>2
      <3>2. /\ event'.account = check[c].account /\ event'.service = ServiceOf[v]
            /\ event'.action = action /\ event'.edited = ("config" \in check[c].overtaken)
        BY <3>1, KillSays
      <3>3. ~event'.edited => check[c].config = config'[event'.account]
        BY <3>2, <1>2, <1>3
      <3>4. ProductionStands'
        BY <3>1, <3>2, <3>3, <1>4 DEF ProductionStands, ProtectedDestructive
      <3>5. ThresholdKillsObey'
        BY <3>1, <3>2, <3>3, <1>4 DEF ThresholdKillsObey, Killable
      <3>6. QED  BY <3>4, <3>5 DEF Obeyed
    <2>3. QED  BY <2>1, <2>2
  <1>10. QED  BY <1>6, <1>8, <1>9 DEF IInv

LEMMA AlertSafe ==
    ASSUME IInv, NEW c \in Checks, Alert(c)
    PROVE  IInv' /\ Obeyed'
  <1> DEFINE a == check[c].account
             S == {d \in Checks : Reads(d) /\ check[d].account = a}
             said == [violations |-> Breached(c), age |-> 0, kept |-> FALSE,
                      reached |-> channels = "heard"]
  <1>1. check[c] \in CheckType /\ a \in Accounts /\ check[c].usage \in SUBSET Signals
    BY DEF IInv, TypeOK, CheckType
  <1>2. config' = config  BY DEF Alert, accountVars
  <1>3. /\ check' \in [Checks -> CheckType] /\ CopyIsCurrent' /\ ActsOnRule'
        /\ sent' \in [Accounts -> SentType]
        /\ event' = Quiet \/ event' = [kind |-> "alert"]
    <2>1. CASE channels = "none" \/ AlreadyAlerted(c)
      <3>1. /\ check' = [check EXCEPT ![c] = Ending(check[c])]
            /\ event' = Quiet /\ sent' = sent
        BY <2>1 DEF Alert, IInv, TypeOK
      <3>2. Ending(check[c]) \in CheckType /\ Ending(check[c]).pc = "finish"
        BY <1>1, IdleType DEF Ending, CheckType
      <3>3. check' \in [Checks -> CheckType] /\ CopyIsCurrent' /\ ActsOnRule'
        BY <1>2, <3>1, <3>2, OneCheck
      <3>4. QED  BY <3>1, <3>3 DEF IInv, TypeOK
    <2>2. CASE ~(channels = "none" \/ AlreadyAlerted(c))
      <3> DEFINE k == Sending(check[c])
      <3>1. /\ check' = [d \in Checks |->
                    IF d = c THEN k
                    ELSE IF d \in S THEN [check[d] EXCEPT !.overtaken = @ \cup {"alert"}]
                    ELSE check[d]]
            /\ event' = [kind |-> "alert"] /\ sent' = [sent EXCEPT ![a] = said]
        BY <2>2 DEF Alert
      <3>2. k \in CheckType /\ k.pc = "persist"
        BY <1>1, IdleType DEF Sending, CheckType
      <3>3. S \in SUBSET Checks  OBVIOUS
      <3> HIDE DEF k, S
      <3>4. check' \in [Checks -> CheckType] /\ CopyIsCurrent' /\ ActsOnRule'
        BY <1>2, <3>1, <3>2, <3>3, OthersOvertaken
      <3>5. said \in SentType
        BY EngineConstantsOK DEF SentType, Breached, Breaches
      <3> HIDE DEF said
      <3>6. sent' \in [Accounts -> SentType]
        BY <3>1, <3>5 DEF IInv, TypeOK
      <3>7. QED  BY <3>1, <3>4, <3>6
    <2>3. QED  BY <2>1, <2>2
  <1>4. TypeOK'
    <2>1. event'.kind \in {"none", "alert"}  BY <1>3 DEF Quiet
    <2>2. QED  BY <1>3, <2>1 DEF IInv, TypeOK, Alert, accountVars, ruleVars,
                                 externalVars, boundVars
  <1>5. QED  BY <1>3, <1>4, NotAKill DEF IInv

LEMMA PersistSafe ==
    ASSUME IInv, NEW c \in Checks, Persist(c)
    PROVE  IInv' /\ Obeyed'
  <1> DEFINE a == check[c].account
             alert == [violations |-> Breached(c), age |-> check[c].sendAge]
  <1>1. check[c] \in CheckType /\ a \in Accounts  BY DEF IInv, TypeOK, CheckType
  <1>2. /\ check' = [check EXCEPT ![c] = Ending(check[c])]
        /\ event' = Quiet /\ config' = config
        /\ lastAlert' = [lastAlert EXCEPT ![a] = alert]
        /\ sent' = [sent EXCEPT ![a].kept = Keeps(c)]
    BY DEF Persist, IInv, TypeOK
  <1>3. Ending(check[c]) \in CheckType /\ Ending(check[c]).pc = "finish"
    BY <1>1, IdleType DEF Ending, CheckType
  <1>4. check' \in [Checks -> CheckType] /\ CopyIsCurrent' /\ ActsOnRule'
    BY <1>2, <1>3, OneCheck
  <1>5. lastAlert' \in [Accounts -> Alerts]
    <2>1. alert \in Alerts
      BY <1>1 DEF Alerts, Breached, Breaches, CheckType
    <2>2. QED  BY <1>2, <2>1 DEF IInv, TypeOK
  <1>6. sent' \in [Accounts -> SentType]
    <2>1. Keeps(c) \in BOOLEAN  BY DEF Keeps
    <2>2. QED  BY <1>1, <1>2, <2>1 DEF IInv, TypeOK, SentType
  <1>7. TypeOK'
    BY <1>2, <1>4, <1>5, <1>6 DEF IInv, TypeOK, Persist, ruleVars, externalVars,
                                  boundVars, Quiet
  <1>8. QED  BY <1>2, <1>4, <1>7, NotAKill DEF IInv

(* Finishing and dying leave the check blank. *)
LEMMA EndsSafe ==
    ASSUME IInv, NEW c \in Checks, Finish(c) \/ Crash(c)
    PROVE  IInv' /\ Obeyed'
  <1>1. check[c].account \in Accounts  BY DEF IInv, TypeOK, CheckType
  <1>2. check' = [check EXCEPT ![c] = Idle] /\ event' = Quiet /\ config' = config
    BY DEF Finish, Crash, accountVars
  <1>3. check' \in [Checks -> CheckType] /\ CopyIsCurrent' /\ ActsOnRule'
    BY <1>2, IdleType, OneCheck
  <1>4. checkAge' \in [Accounts -> 0..Interval]
    BY <1>1, EngineConstantsOK DEF Finish, Crash, accountVars, IInv, TypeOK
  <1>5. crashes' \in 0..MaxCrashes
    BY EngineConstantsOK DEF Finish, Crash, boundVars, IInv, TypeOK
  <1>6. TypeOK'
    BY <1>2, <1>3, <1>4, <1>5 DEF IInv, TypeOK, Finish, Crash, accountVars, ruleVars,
                                  externalVars, boundVars, Quiet
  <1>7. QED  BY <1>2, <1>3, <1>6, NotAKill DEF IInv

----------------------------------------------------------------------------
(* Operators and the outside *)

LEMMA EditSafe ==
    ASSUME IInv, NEW a \in Accounts, NEW k \in Configs, Edit(a, k)
    PROVE  IInv' /\ Obeyed'
  <1> DEFINE mark(d) == [check[d] EXCEPT !.overtaken = @ \cup {"config"}]
  <1>1. event' = Quiet  BY DEF Edit, Operator
  <1>2. /\ config' \in [Accounts -> Configs]
        /\ \A b \in Accounts \ {a} : config'[b] = config[b]
    BY DEF Edit, IInv, TypeOK
  <1>3. \A d \in Checks :
            /\ check[d] \in CheckType /\ check[d].account \in Accounts
            /\ mark(d) \in CheckType /\ "config" \in mark(d).overtaken
            /\ mark(d).pc = check[d].pc /\ mark(d).rule = check[d].rule
            /\ check'[d] = IF Reads(d) /\ check[d].account = a THEN mark(d) ELSE check[d]
    <2> SUFFICES ASSUME NEW d \in Checks
                 PROVE  /\ check[d] \in CheckType /\ check[d].account \in Accounts
                        /\ mark(d) \in CheckType /\ "config" \in mark(d).overtaken
                        /\ mark(d).pc = check[d].pc /\ mark(d).rule = check[d].rule
                        /\ check'[d] = IF Reads(d) /\ check[d].account = a
                                       THEN mark(d) ELSE check[d]
      OBVIOUS
    <2>1. check[d] \in CheckType  BY DEF IInv, TypeOK
    <2>2. check'[d] = IF Reads(d) /\ check[d].account = a THEN mark(d) ELSE check[d]
      BY DEF Edit
    <2>3. QED  BY <2>1, <2>2 DEF CheckType
  <1> HIDE DEF mark
  <1>4. check' \in [Checks -> CheckType]
    <2>1. \A d \in Checks : check'[d] \in CheckType  BY <1>3
    <2>2. check' = [d \in Checks |-> check'[d]]      BY DEF Edit
    <2>3. QED  BY <2>1, <2>2
  <1>5. CopyIsCurrent'
    <2> SUFFICES ASSUME NEW d \in Checks, Reads(d)', "config" \notin check'[d].overtaken
                 PROVE  check'[d].config = config'[check'[d].account]
      BY DEF CopyIsCurrent
    <2>1. CASE Reads(d) /\ check[d].account = a  BY <2>1, <1>3
    <2>2. CASE ~(Reads(d) /\ check[d].account = a)
      <3>1. check'[d] = check[d]  BY <2>2, <1>3
      <3>2. Reads(d) /\ check[d].account # a  BY <3>1, <2>2 DEF Reads
      <3>3. QED  BY <3>1, <3>2, <1>2, <1>3 DEF IInv, CopyIsCurrent
    <2>3. QED  BY <2>1, <2>2
  <1>6. ActsOnRule'  BY <1>3 DEF ActsOnRule, IInv, In
  <1>7. edits' \in 0..MaxEdits
    BY EngineConstantsOK DEF Edit, Operator, IInv, TypeOK
  <1>8. TypeOK'
    BY <1>1, <1>2, <1>4, <1>7 DEF IInv, TypeOK, Edit, Operator, ruleVars, externalVars, Quiet
  <1>9. QED  BY <1>1, <1>5, <1>6, <1>8, NotAKill DEF IInv

(* A step that leaves the checks and the settings alone. *)
LEMMA ChecksAlone ==
    ASSUME IInv, check' = check, config' = config, event' = Quiet, TypeOK'
    PROVE  IInv' /\ Obeyed'
  <1>1. CopyIsCurrent' /\ ActsOnRule'
    BY DEF IInv, CopyIsCurrent, ActsOnRule, Reads, In
  <1>2. QED  BY <1>1, NotAKill DEF IInv

(* What an operator changes, a check learns at most that it was changed. *)
LEMMA OperatorsMark ==
    ASSUME IInv, Operates, NEW d \in Checks
    PROVE  \/ check'[d] = check[d]
           \/ \E x \in AllRules \cup {"config"} :
                check'[d] = [check[d] EXCEPT !.overtaken = @ \cup {x}]
  <1>1. CASE \E a \in Accounts, k \in Configs : Edit(a, k)
    BY <1>1 DEF Edit
  <1>2. CASE \E r \in AllRules, t \in Texts, age \in 0..RuleCooldown : PutRule(r, t, age)
    BY <1>2 DEF PutRule
  <1>3. CASE check' = check  BY <1>3
  <1>4. QED  BY <1>1, <1>2, <1>3 DEF Operates, SetStatus, Toggle, AgentTrigger

LEMMA PutRuleSafe ==
    ASSUME IInv, NEW r \in AllRules, NEW t \in Texts, NEW age \in 0..RuleCooldown,
           PutRule(r, t, age)
    PROVE  IInv' /\ Obeyed'
  <1>1. event' = Quiet /\ config' = config  BY DEF PutRule, Operator
  <1>2. ASSUME NEW d \in Checks
        PROVE  /\ check'[d] \in CheckType
               /\ check'[d].pc = check[d].pc /\ check'[d].rule = check[d].rule
               /\ check'[d].config = check[d].config
               /\ check'[d].account = check[d].account
               /\ check[d].overtaken \subseteq check'[d].overtaken
    <2>1. check[d] \in CheckType  BY DEF IInv, TypeOK
    <2>2. check'[d] = IF r \in check[d].rules
                      THEN [check[d] EXCEPT !.overtaken = @ \cup {r}] ELSE check[d]
      BY DEF PutRule
    <2>3. QED  BY <2>1, <2>2 DEF CheckType
  <1>3. check' \in [Checks -> CheckType]
    <2>1. check' = [d \in Checks |-> check'[d]]  BY DEF PutRule
    <2>2. QED  BY <1>2, <2>1
  <1>4. CopyIsCurrent' /\ ActsOnRule'
    BY <1>1, <1>2 DEF IInv, CopyIsCurrent, ActsOnRule, Reads, In
  <1>5. /\ text' \in [AllRules -> RuleType] /\ firedAge' \in [AllRules -> 0..RuleCooldown]
        /\ edits' \in 0..MaxEdits
    BY EngineConstantsOK DEF PutRule, Operator, IInv, TypeOK
  <1>6. TypeOK'
    BY <1>1, <1>3, <1>5 DEF IInv, TypeOK, PutRule, Operator, externalVars, Quiet
  <1>7. QED  BY <1>1, <1>4, <1>6, NotAKill DEF IInv

LEMMA OperatesSafe ==
    ASSUME IInv, Operates
    PROVE  IInv' /\ Obeyed'
  <1>1. CASE \E a \in Accounts, k \in Configs : Edit(a, k)
    BY <1>1, EditSafe
  <1>2. CASE \E a \in Accounts, s \in {"active", "paused", "deleted"} : SetStatus(a, s)
    <2>1. PICK a \in Accounts, s \in {"active", "paused", "deleted"} : SetStatus(a, s)
      BY <1>2
    <2>2. status' \in [Accounts -> {"active", "paused", "deleted"}]
      BY <2>1 DEF SetStatus, IInv, TypeOK
    <2>3. edits' \in 0..MaxEdits
      BY <2>1, EngineConstantsOK DEF SetStatus, Operator, IInv, TypeOK
    <2>4. TypeOK'
      BY <2>1, <2>2, <2>3 DEF IInv, TypeOK, SetStatus, Operator, ruleVars, externalVars, Quiet
    <2>5. QED  BY <2>1, <2>4, ChecksAlone DEF SetStatus, Operator
  <1>3. CASE \E r \in AllRules : Toggle(r) \/ AgentTrigger(r)
    <2>1. PICK r \in AllRules : Toggle(r) \/ AgentTrigger(r)  BY <1>3
    <2>2. ruleState' \in [AllRules -> {"absent", "enabled", "disabled"}]
      BY <2>1 DEF Toggle, AgentTrigger, IInv, TypeOK
    <2>3. edits' \in 0..MaxEdits
      BY <2>1, EngineConstantsOK DEF Toggle, AgentTrigger, Operator, IInv, TypeOK
    <2>4. TypeOK'
      BY <2>1, <2>2, <2>3
         DEF IInv, TypeOK, Toggle, AgentTrigger, Operator, externalVars, Quiet
    <2>5. QED  BY <2>1, <2>4, ChecksAlone DEF Toggle, AgentTrigger, Operator
  <1>4. CASE \E r \in AllRules, t \in Texts, age \in 0..RuleCooldown : PutRule(r, t, age)
    BY <1>4, PutRuleSafe
  <1>5. QED  BY <1>1, <1>2, <1>3, <1>4 DEF Operates

LEMMA TickSafe ==
    ASSUME IInv, Tick
    PROVE  IInv' /\ Obeyed'
  <1> DEFINE k(c) == [check[c] EXCEPT
                !.alert.age = IF Reads(c) THEN Older(@, AlertCooldown) ELSE @,
                !.sendAge   = IF In(c, "persist") THEN Older(@, AlertCooldown) ELSE @]
  <1>1. event' = Quiet /\ config' = config  BY DEF Tick
  <1>2. \A c \in Checks :
            /\ k(c) \in CheckType /\ k(c).pc = check[c].pc /\ k(c).rule = check[c].rule
            /\ k(c).account = check[c].account /\ k(c).config = check[c].config
            /\ k(c).overtaken = check[c].overtaken
    <2> SUFFICES ASSUME NEW c \in Checks
                 PROVE  /\ k(c) \in CheckType /\ k(c).pc = check[c].pc
                        /\ k(c).rule = check[c].rule
                        /\ k(c).account = check[c].account /\ k(c).config = check[c].config
                        /\ k(c).overtaken = check[c].overtaken
      OBVIOUS
    <2> DEFINE age  == IF Reads(c) THEN Older(check[c].alert.age, AlertCooldown)
                       ELSE check[c].alert.age
               send == IF In(c, "persist") THEN Older(check[c].sendAge, AlertCooldown)
                       ELSE check[c].sendAge
               alert == [check[c].alert EXCEPT !.age = age]
    <2>1. check[c] \in CheckType  BY DEF IInv, TypeOK
    <2>2. age \in 0..AlertCooldown /\ send \in 0..AlertCooldown
      BY <2>1, EngineConstantsOK, OlderType DEF CheckType, Alerts
    <2> HIDE DEF age, send
    <2>3. alert \in Alerts  BY <2>1, <2>2 DEF CheckType, Alerts
    <2>4. k(c) = [check[c] EXCEPT !.alert = alert, !.sendAge = send]
      BY <2>1 DEF CheckType, Alerts, age, send
    <2> HIDE DEF alert
    <2>5. QED  BY <2>1, <2>2, <2>3, <2>4 DEF CheckType
  <1>3. check' = [c \in Checks |-> k(c)]  BY DEF Tick
  <1> HIDE DEF k
  <1>4. check' \in [Checks -> CheckType] /\ CopyIsCurrent' /\ ActsOnRule'
    BY <1>1, <1>2, <1>3 DEF IInv, CopyIsCurrent, ActsOnRule, Reads, In
  <1>5. /\ lastAlert' \in [Accounts -> Alerts]
        /\ sent' \in [Accounts -> SentType]
    <2>1. \A a \in Accounts : [lastAlert[a] EXCEPT !.age = Older(@, AlertCooldown)] \in Alerts
      BY EngineConstantsOK, OlderType DEF IInv, TypeOK, Alerts
    <2>2. ASSUME NEW a \in Accounts
          PROVE  [sent[a] EXCEPT !.age = Older(@, AlertCooldown)] \in SentType
      <3>1. sent[a] \in SentType  BY DEF IInv, TypeOK
      <3>2. Older(sent[a].age, AlertCooldown) \in 0..AlertCooldown
        BY <3>1, EngineConstantsOK, OlderType DEF SentType
      <3>3. QED  BY <3>1, <3>2 DEF SentType
    <2>3. QED  BY <2>1, <2>2 DEF Tick
  <1>6. /\ checkAge' \in [Accounts -> 0..Interval]
        /\ firedAge' \in [AllRules -> 0..RuleCooldown]
    <2>1. RuleCooldown \in Nat /\ Interval \in Nat  BY EngineConstantsOK
    <2>2. QED  BY <2>1, OlderType DEF Tick, IInv, TypeOK
  <1>7. TypeOK'
    <2>1. /\ UNCHANGED <<status, config, ruleState, text>>
          /\ UNCHANGED <<usage, degraded, channels>>
          /\ UNCHANGED <<crashes, edits>>
      BY DEF Tick, externalVars, boundVars
    <2>2. event'.kind = "none"  BY <1>1 DEF Quiet
    <2>3. QED  BY <1>4, <1>5, <1>6, <2>1, <2>2 DEF IInv, TypeOK
  <1>8. QED  BY <1>1, <1>4, <1>7, NotAKill DEF IInv

LEMMA OutsideSafe ==
    ASSUME IInv, Outside
    PROVE  IInv' /\ Obeyed'
  <1>1. CASE \E a \in Accounts : HealthChanges(a)
    <2>1. PICK a \in Accounts : HealthChanges(a)  BY <1>1
    <2>2. TypeOK'
      BY <2>1 DEF HealthChanges, IInv, TypeOK, accountVars, ruleVars, boundVars, Quiet
    <2>3. QED  BY <2>1, <2>2, ChecksAlone DEF HealthChanges, accountVars
  <1>2. CASE \E a \in Accounts, u \in UsageLevels : UsageChanges(a, u)
    <2>1. PICK a \in Accounts, u \in UsageLevels : UsageChanges(a, u)  BY <1>2
    <2>2. u \in SUBSET Signals  BY EngineConstantsOK
    <2>3. TypeOK'
      BY <2>1, <2>2 DEF UsageChanges, IInv, TypeOK, accountVars, ruleVars, boundVars, Quiet
    <2>4. QED  BY <2>1, <2>3, ChecksAlone DEF UsageChanges, accountVars
  <1>3. CASE \E x \in ChannelStates : ChannelsChange(x)
    <2>1. PICK x \in ChannelStates : ChannelsChange(x)  BY <1>3
    <2>2. TypeOK'
      BY <2>1 DEF ChannelsChange, IInv, TypeOK, accountVars, ruleVars, boundVars, Quiet
    <2>3. QED  BY <2>1, <2>2, ChecksAlone DEF ChannelsChange, accountVars
  <1>4. CASE Tick  BY <1>4, TickSafe
  <1>5. QED  BY <1>1, <1>2, <1>3, <1>4 DEF Outside

----------------------------------------------------------------------------
(* The theorems *)

LEMMA InitSafe ==
    ASSUME Init
    PROVE  IInv /\ Obeyed
  <1>1. TypeOK
    <2>1. usage \in [Accounts -> SUBSET Signals]  BY EngineConstantsOK DEF Init
    <2>2. check \in [Checks -> CheckType]         BY IdleType DEF Init
    <2>3. lastAlert \in [Accounts -> Alerts]      BY IdleType DEF Init
    <2>4. sent \in [Accounts -> SentType]
      BY EngineConstantsOK DEF Init, SentType
    <2>5. text \in [AllRules -> RuleType]        BY FirstTextsType DEF Init
    <2>6. /\ checkAge \in [Accounts -> 0..Interval]
          /\ firedAge \in [AllRules -> 0..RuleCooldown]
          /\ crashes \in 0..MaxCrashes /\ edits \in 0..MaxEdits
      BY EngineConstantsOK DEF Init
    <2>7. /\ status \in [Accounts -> {"active", "paused", "deleted"}]
          /\ ruleState \in [AllRules -> {"absent", "enabled", "disabled"}]
          /\ degraded \in [Accounts -> BOOLEAN] /\ config \in [Accounts -> Configs]
          /\ channels \in ChannelStates /\ event.kind = "none"
      BY DEF Init, Quiet
    <2>8. QED  BY <2>1, <2>2, <2>3, <2>4, <2>5, <2>6, <2>7 DEF TypeOK
  <1>2. CopyIsCurrent /\ ActsOnRule
    BY IdleType DEF Init, CopyIsCurrent, ActsOnRule, Reads, In
  <1>3. Obeyed
    BY DEF Init, Quiet, Kills, Obeyed, ProductionStands, ThresholdKillsObey
  <1>4. QED  BY <1>1, <1>2, <1>3 DEF IInv

(* Every step keeps the invariant, and what it does obeys the settings. *)
LEMMA NextSafe ==
    ASSUME IInv, Next
    PROVE  IInv' /\ Obeyed'
  <1>1. CASE \E c \in Checks : (\E a \in Accounts : Load(c, a)) \/ CheckSteps(c) \/ Crash(c)
    <2>1. PICK c \in Checks :
              (\E a \in Accounts : Load(c, a)) \/ CheckSteps(c) \/ Crash(c)
      BY <1>1
    <2>2. CASE \E a \in Accounts : Load(c, a)  BY <2>2, LoadSafe
    <2>3. CASE Crash(c)                        BY <2>3, EndsSafe
    <2>4. CASE CheckSteps(c)
      <3>1. CASE CheckUsage(c)                             BY <3>1, CheckUsageSafe
      <3>2. CASE Evaluate(c)                               BY <3>2, EvaluateSafe
      <3>3. CASE \E r \in AllRules : Fire(c, r)            BY <3>3, FireSafe
      <3>4. CASE RuleActs(c)                               BY <3>4, RuleActsSafe
      <3>5. CASE \E v \in Violations : ThresholdStep(c, v) BY <3>5, ThresholdStepSafe
      <3>6. CASE Alert(c)                                  BY <3>6, AlertSafe
      <3>7. CASE Persist(c)                                BY <3>7, PersistSafe
      <3>8. CASE Finish(c)                                 BY <3>8, EndsSafe
      <3>9. QED
        BY <2>4, <3>1, <3>2, <3>3, <3>4, <3>5, <3>6, <3>7, <3>8 DEF CheckSteps
    <2>5. QED  BY <2>1, <2>2, <2>3, <2>4
  <1>2. CASE Operates  BY <1>2, OperatesSafe
  <1>3. CASE Outside   BY <1>3, OutsideSafe
  <1>4. QED  BY <1>1, <1>2, <1>3 DEF Next

LEMMA StutterSafe ==
    ASSUME IInv, Obeyed, UNCHANGED vars
    PROVE  IInv' /\ Obeyed'
  <1>1. TypeOK'
    BY DEF IInv, TypeOK, vars, accountVars, ruleVars, externalVars, boundVars
  <1>2. CopyIsCurrent' /\ ActsOnRule'
    BY DEF IInv, CopyIsCurrent, ActsOnRule, Reads, In, vars, accountVars
  <1>3. Obeyed'
    BY DEF Obeyed, ProductionStands, ThresholdKillsObey, vars, accountVars
  <1>4. QED  BY <1>1, <1>2, <1>3 DEF IInv

(* The engine's state stays well typed, every check works on the settings in
   force or knows they were edited, and every kill obeys them. *)
THEOREM EngineInvariant == Spec => [](IInv /\ Obeyed)
  <1>1. Init => IInv /\ Obeyed  BY InitSafe
  <1>2. IInv /\ Obeyed /\ [Next]_vars => (IInv /\ Obeyed)'
    BY NextSafe, StutterSafe
  <1>3. QED  BY <1>1, <1>2, PTL DEF Spec

(* The account, rule and check records of the engine stay well typed. *)
THEOREM EngineTypes == Spec => []TypeOK
  <1>1. IInv /\ Obeyed => TypeOK  BY DEF IInv
  <1>2. QED  BY <1>1, EngineInvariant, PTL

(* "irreversible/outage-causing actions on managed databases ... are NEVER
   auto-executed", whatever rule or threshold asks for them. *)
THEOREM ProtectionHolds == Spec => []ProductionStands
  <1>1. IInv /\ Obeyed => ProductionStands  BY DEF Obeyed
  <1>2. QED  BY <1>1, EngineInvariant, PTL

(* The threshold loop of checkSingleAccount kills only what the settings let it
   kill. *)
THEOREM ThresholdsObey == Spec => []ThresholdKillsObey
  <1>1. IInv /\ Obeyed => ThresholdKillsObey  BY DEF Obeyed
  <1>2. QED  BY <1>1, EngineInvariant, PTL
----------------------------------------------------------------------------
(* Cooldowns.  A check fires what was ripe when it evaluated the rules; whoever
   has fired one of them since has marked it as overtaken. *)

Ripe(r) == ~(firedAge[r] < RuleCooldown)
RulesRipe ==
    \A c \in Checks :
        /\ In(c, "rules") => check[c].rule = NoRule
        /\ \A r \in check[c].rules : Ripe(r) \/ r \in check[c].overtaken
CoolInv == IInv /\ RulesRipe

(* A check forgets its rules, or has no more of them and knows no less. *)
GoesOn(d) ==
    \/ check'[d].rules = {} /\ check'[d].rule = NoRule
    \/ /\ check'[d].rules \subseteq check[d].rules
       /\ check[d].overtaken \subseteq check'[d].overtaken
       /\ \/ check'[d].rule = NoRule
          \/ check'[d].rule = check[d].rule /\ (In(d, "rules")' => In(d, "rules"))
NobodyFires ==
    /\ \A d \in Checks : GoesOn(d)
    /\ \A r \in AllRules : Ripe(r) => Ripe(r)'

LEMMA NobodyFiresCool ==
    ASSUME CoolInv, TypeOK', NobodyFires
    PROVE  RulesRipe'
  <1> SUFFICES ASSUME NEW c \in Checks
               PROVE  /\ In(c, "rules")' => check'[c].rule = NoRule
                      /\ \A r \in check'[c].rules : Ripe(r)' \/ r \in check'[c].overtaken
    BY DEF RulesRipe
  <1>1. check[c] \in CheckType  BY DEF CoolInv, IInv, TypeOK
  <1>2. check[c].rules \subseteq AllRules  BY <1>1 DEF CheckType
  <1>3. QED  BY <1>2 DEF CoolInv, RulesRipe, NobodyFires, GoesOn, In

LEMMA BlankIsCool == Idle.rules = {} /\ Idle.rule = NoRule
  BY DEF Idle

LEMMA StageIsCool ==
    ASSUME NEW k \in CheckType, NEW rules \in SUBSET AllRules
    PROVE  /\ Stage(k, rules).rule = NoRule
           /\ Stage(k, rules).rules = {} \/ (/\ Stage(k, rules).rules = rules
                                             /\ Stage(k, rules).overtaken = k.overtaken)
  <1>1. CASE rules # {}
    <2>1. Stage(k, rules) = [k EXCEPT !.pc = "rules", !.rules = rules, !.rule = NoRule]
      BY <1>1 DEF Stage
    <2>2. QED  BY <2>1 DEF CheckType
  <1>2. CASE rules = {} /\ Breaches(k.usage) = {}
    <2>1. Stage(k, rules) = [Idle EXCEPT !.pc = "finish", !.account = k.account]
      BY <1>2 DEF Stage, Ending
    <2>2. QED  BY <2>1, BlankIsCool, IdleType DEF CheckType
  <1>3. CASE rules = {} /\ Breaches(k.usage) # {}
    <2> DEFINE b == Breaches(k.usage)
    <2>1. Stage(k, rules) = [k EXCEPT !.pc = "kills", !.rules = {}, !.rule = NoRule,
                                      !.says = FirstTexts, !.usage = b, !.todo = b]
      BY <1>3 DEF Stage
    <2> HIDE DEF b
    <2>2. QED  BY <2>1 DEF CheckType
  <1>4. QED  BY <1>1, <1>2, <1>3

(* One check steps, and fires nothing. *)
LEMMA OneGoesOn ==
    ASSUME IInv, NEW c \in Checks, NEW k, check' = [check EXCEPT ![c] = k], firedAge' = firedAge,
           \/ k.rules = {} /\ k.rule = NoRule
           \/ /\ k.rules \subseteq check[c].rules /\ check[c].overtaken \subseteq k.overtaken
              /\ k.rule = NoRule \/ (k.rule = check[c].rule /\ k.pc # "rules")
    PROVE  NobodyFires
  <1>1. check'[c] = k /\ \A d \in Checks \ {c} : check'[d] = check[d]
    BY DEF IInv, TypeOK
  <1>2. ASSUME NEW d \in Checks PROVE GoesOn(d)
    <2>1. CASE d = c  BY <1>1, <2>1 DEF GoesOn, In
    <2>2. CASE d # c  BY <1>1, <2>2 DEF GoesOn, In
    <2>3. QED  BY <2>1, <2>2
  <1>3. QED  BY <1>2 DEF NobodyFires, Ripe

LEMMA CheckStepsCool ==
    ASSUME CoolInv, NEW c \in Checks,
           \/ \E a \in Accounts : Load(c, a)
           \/ CheckUsage(c) \/ RuleActs(c) \/ (\E v \in Violations : ThresholdStep(c, v))
           \/ Persist(c) \/ Finish(c) \/ Crash(c)
    PROVE  NobodyFires
  <1> USE DEF CoolInv, accountVars, ruleVars
  <1>1. check[c] \in CheckType /\ check[c].rules \in SUBSET AllRules
    BY DEF IInv, TypeOK, CheckType
  <1>2. CASE \E a \in Accounts : Load(c, a)
    <2>0. PICK a \in Accounts : Load(c, a)  BY <1>2
    <2>1. PICK late : check' = [check EXCEPT ![c] = [Idle EXCEPT
                !.pc = "loaded", !.account = a, !.config = config[a],
                !.alert = lastAlert[a], !.overtaken = late]]
      BY <2>0 DEF Load
    <2> DEFINE k == [Idle EXCEPT !.pc = "loaded", !.account = a, !.config = config[a],
                                 !.alert = lastAlert[a], !.overtaken = late]
    <2>2. k.rules = {} /\ k.rule = NoRule  BY BlankIsCool DEF Idle
    <2>3. firedAge' = firedAge  BY <2>0 DEF Load
    <2> HIDE DEF k
    <2>4. check' = [check EXCEPT ![c] = k]  BY <2>1 DEF k
    <2>5. QED  BY <2>2, <2>3, <2>4, OneGoesOn
  <1>3. CASE CheckUsage(c)
    <2> DEFINE k == [check[c] EXCEPT !.pc = "measured", !.usage = usage[check[c].account]]
    <2>1. check' = [check EXCEPT ![c] = k] \/ check' = [check EXCEPT ![c] = Idle]
      BY <1>3 DEF CheckUsage, IInv, TypeOK
    <2>2. /\ k.rules = check[c].rules /\ k.overtaken = check[c].overtaken
          /\ k.rule = check[c].rule /\ k.pc = "measured"
      BY <1>1 DEF CheckType
    <2>3. firedAge' = firedAge  BY <1>3 DEF CheckUsage
    <2> HIDE DEF k
    <2>4. QED  BY <2>1, <2>2, <2>3, BlankIsCool, OneGoesOn
  <1>4. CASE RuleActs(c)
    <2>1. PICK h \in {"unknown", "healthy", "degraded"} :
             check' = [check EXCEPT ![c] = Stage([check[c] EXCEPT !.health = h],
                                                 [check[c] EXCEPT !.health = h].rules)]
      BY <1>1, <1>4 DEF RuleActs, Health, CheckType
    <2> DEFINE probed == [check[c] EXCEPT !.health = h]
    <2>2. /\ probed \in CheckType /\ probed.rules = check[c].rules
          /\ probed.overtaken = check[c].overtaken
      BY <1>1 DEF CheckType
    <2> DEFINE k == Stage(probed, probed.rules)
    <2>3. check' = [check EXCEPT ![c] = k]  BY <2>1
    <2> HIDE DEF probed
    <2>4. /\ k.rule = NoRule
          /\ k.rules = {} \/ (k.rules = check[c].rules /\ k.overtaken = check[c].overtaken)
      BY <1>1, <2>2, StageIsCool
    <2>5. firedAge' = firedAge  BY <1>4 DEF RuleActs
    <2> HIDE DEF k
    <2>6. QED  BY <2>3, <2>4, <2>5, OneGoesOn
  <1>5. CASE \E v \in Violations : ThresholdStep(c, v)
    <2>1. PICK v \in Violations : ThresholdStep(c, v)  BY <1>5
    <2> DEFINE k == [check[c] EXCEPT !.todo = @ \ {v}, !.health = Health(c)]
    <2>2. check' = [check EXCEPT ![c] = k] /\ firedAge' = firedAge
      BY <2>1 DEF ThresholdStep, IInv, TypeOK
    <2>3. /\ k.rules = check[c].rules /\ k.overtaken = check[c].overtaken
          /\ k.rule = check[c].rule /\ k.pc # "rules"
      BY <1>1, <2>1 DEF CheckType, ThresholdStep, In
    <2> HIDE DEF k
    <2>4. QED  BY <2>2, <2>3, OneGoesOn
  <1>6. CASE Persist(c) \/ Finish(c) \/ Crash(c)
    <2>1. check' = [check EXCEPT ![c] = Ending(check[c])] \/ check' = [check EXCEPT ![c] = Idle]
      BY <1>6 DEF Persist, Finish, Crash
    <2>2. Ending(check[c]).rules = {} /\ Ending(check[c]).rule = NoRule
      BY BlankIsCool DEF Ending, Idle
    <2>3. firedAge' = firedAge  BY <1>6 DEF Persist, Finish, Crash
    <2>4. QED  BY <2>1, <2>2, <2>3, BlankIsCool, OneGoesOn
  <1>7. QED  BY <1>2, <1>3, <1>4, <1>5, <1>6
(* What the evaluation triggers is not cooling down. *)
LEMMA EvaluateCool ==
    ASSUME CoolInv, NEW c \in Checks, Evaluate(c)
    PROVE  RulesRipe' /\ check'[c].rule = NoRule
  <1> USE DEF CoolInv
  <1> DEFINE rules == Triggered(check[c].usage)
             read == [check[c] EXCEPT !.says = text]
             k == Stage(read, rules)
  <1>1. read \in CheckType /\ rules \in SUBSET AllRules
    BY RulesAreRead DEF Triggered
  <1>2. check' = [check EXCEPT ![c] = k] /\ firedAge' = firedAge
    BY DEF Evaluate, ruleVars, IInv, TypeOK
  <1>3. \A r \in rules : Ripe(r)  BY DEF Triggered, Cooling, Ripe
  <1> HIDE DEF rules, read
  <1>4. k.rule = NoRule /\ (k.rules = {} \/ k.rules = rules)
    BY <1>1, StageIsCool
  <1> HIDE DEF k
  <1>5. check'[c] = k /\ \A d \in Checks \ {c} : check'[d] = check[d]
    BY <1>2 DEF IInv, TypeOK
  <1>6. QED  BY <1>2, <1>3, <1>4, <1>5 DEF RulesRipe, Ripe, In

(* Who fires a rule tells everybody who has it still to fire. *)
LEMMA FireCool ==
    ASSUME CoolInv, NEW c \in Checks, NEW r \in AllRules, Fire(c, r)
    PROVE  /\ RulesRipe'
           /\ check'[c].rule = r /\ (Ripe(r) \/ r \in check[c].overtaken)
           /\ \A d \in Checks \ {c} : check'[d].rule = check[d].rule
  <1> USE DEF CoolInv
  <1>1. \A d \in Checks : check[d] \in CheckType  BY DEF IInv, TypeOK
  <1>2. /\ check'[c].pc = "acting" /\ check'[c].rule = r /\ check'[c].rules = check[c].rules \ {r}
        /\ check'[c].overtaken = check[c].overtaken
    BY <1>1 DEF Fire, CheckType
  <1>3. ASSUME NEW d \in Checks \ {c}
        PROVE  /\ check'[d].pc = check[d].pc /\ check'[d].rule = check[d].rule
               /\ check'[d].rules = check[d].rules
               /\ check[d].overtaken \subseteq check'[d].overtaken
               /\ r \in check[d].rules => r \in check'[d].overtaken
    <2>1. check[d] \in CheckType  BY <1>1
    <2>2. check'[d] = IF r \in check[d].rules THEN [check[d] EXCEPT !.overtaken = @ \cup {r}]
                      ELSE check[d]
      BY <1>3 DEF Fire
    <2>3. QED  BY <2>1, <2>2 DEF CheckType
  <1>4. \A x \in AllRules : x # r => (Ripe(x) => Ripe(x)')
    BY DEF Fire, Ripe, IInv, TypeOK
  <1>5. RulesRipe'
    <2> SUFFICES ASSUME NEW d \in Checks
                 PROVE  /\ In(d, "rules")' => check'[d].rule = NoRule
                        /\ \A x \in check'[d].rules : Ripe(x)' \/ x \in check'[d].overtaken
      BY DEF RulesRipe
    <2>1. check[d].rules \subseteq AllRules  BY <1>1 DEF CheckType
    <2>2. CASE d = c  BY <1>2, <1>4, <2>1, <2>2 DEF RulesRipe, In
    <2>3. CASE d # c  BY <1>3, <1>4, <2>1, <2>3 DEF RulesRipe, In
    <2>4. QED  BY <2>2, <2>3
  <1>6. QED  BY <1>2, <1>3, <1>5 DEF Fire, RulesRipe

(* Checks that only learn that they were overtaken. *)
LEMMA AlertCool ==
    ASSUME CoolInv, NEW c \in Checks, Alert(c)
    PROVE  NobodyFires
  <1> USE DEF CoolInv
  <1>1. \A d \in Checks : check[d] \in CheckType  BY DEF IInv, TypeOK
  <1>2. firedAge' = firedAge  BY DEF Alert, ruleVars
  <1>3. Ending(check[c]).rules = {} /\ Ending(check[c]).rule = NoRule
        /\ Sending(check[c]).rules = {} /\ Sending(check[c]).rule = NoRule
    BY BlankIsCool DEF Ending, Sending, Idle
  <1>4. CASE check' = [check EXCEPT ![c] = Ending(@)]
    <2>1. check' = [check EXCEPT ![c] = Ending(check[c])]  BY <1>4 DEF IInv, TypeOK
    <2>2. QED  BY <1>2, <1>3, <2>1, OneGoesOn
  <1>5. CASE ~(channels = "none" \/ AlreadyAlerted(c))
    <2>1. ASSUME NEW d \in Checks PROVE GoesOn(d)
      <3>1. CASE d = c  BY <1>3, <1>5, <3>1 DEF Alert, GoesOn
      <3>2. CASE d # c
        <4>1. check'[d] = check[d] \/ check'[d] = [check[d] EXCEPT !.overtaken = @ \cup {"alert"}]
          BY <1>5, <3>2 DEF Alert
        <4>2. check[d] \in CheckType  BY <1>1
        <4>3. QED  BY <4>1, <4>2 DEF GoesOn, In, CheckType
      <3>3. QED  BY <3>1, <3>2
    <2>2. QED  BY <1>2, <2>1 DEF NobodyFires, Ripe
  <1>6. QED  BY <1>4, <1>5 DEF Alert

(* A PUT of a rule tells everybody who has it still to fire. *)
LEMMA PutCool ==
    ASSUME CoolInv, NEW r \in AllRules, NEW t, NEW age, PutRule(r, t, age)
    PROVE  RulesRipe' /\ \A d \in Checks : check'[d].rule = check[d].rule
  <1> USE DEF CoolInv
  <1>1. ASSUME NEW d \in Checks
        PROVE  /\ check'[d].pc = check[d].pc /\ check'[d].rule = check[d].rule
               /\ check'[d].rules = check[d].rules /\ check[d].rules \subseteq AllRules
               /\ check[d].overtaken \subseteq check'[d].overtaken
               /\ r \in check[d].rules => r \in check'[d].overtaken
    <2>1. check[d] \in CheckType  BY DEF IInv, TypeOK
    <2>2. check'[d] = IF r \in check[d].rules
                      THEN [check[d] EXCEPT !.overtaken = @ \cup {r}] ELSE check[d]
      BY DEF PutRule
    <2>3. QED  BY <2>1, <2>2 DEF CheckType
  <1>2. \A x \in AllRules : x # r => (Ripe(x) => Ripe(x)')
    BY DEF PutRule, Ripe, IInv, TypeOK
  <1>3. RulesRipe'  BY <1>1, <1>2 DEF RulesRipe, In
  <1>4. QED  BY <1>1, <1>3

LEMMA OperatesCool ==
    ASSUME CoolInv, Operates
    PROVE  \/ NobodyFires
           \/ \E r \in AllRules, t \in Texts, age \in 0..RuleCooldown : PutRule(r, t, age)
  <1> USE DEF CoolInv
  <1> SUFFICES ASSUME ~\E r \in AllRules, t \in Texts, age \in 0..RuleCooldown :
                          PutRule(r, t, age)
               PROVE  NobodyFires
    OBVIOUS
  <1>1. firedAge' = firedAge
    BY DEF Operates, Edit, SetStatus, Toggle, AgentTrigger, ruleVars
  <1>2. ASSUME NEW d \in Checks PROVE GoesOn(d)
    <2>1. check[d] \in CheckType  BY DEF IInv, TypeOK
    <2>2. \/ check'[d] = check[d]
          \/ \E x \in AllRules \cup {"config"} :
               check'[d] = [check[d] EXCEPT !.overtaken = @ \cup {x}]
      BY OperatorsMark
    <2>3. CASE check'[d] = check[d]  BY <2>3 DEF GoesOn, In
    <2>4. ASSUME NEW x \in AllRules \cup {"config"},
                 check'[d] = [check[d] EXCEPT !.overtaken = @ \cup {x}]
          PROVE  GoesOn(d)
      <3>1. /\ check'[d].rules = check[d].rules /\ check'[d].rule = check[d].rule
            /\ check'[d].pc = check[d].pc
            /\ check[d].overtaken \subseteq check'[d].overtaken
        BY <2>1, <2>4 DEF CheckType
      <3>2. QED  BY <3>1 DEF GoesOn, In
    <2>5. QED  BY <2>2, <2>3, <2>4
  <1>3. QED  BY <1>1, <1>2 DEF NobodyFires, Ripe

LEMMA OutsideCool ==
    ASSUME CoolInv, Outside
    PROVE  NobodyFires
  <1> USE DEF CoolInv
  <1>1. CASE \/ \E a \in Accounts : HealthChanges(a) \/ \E u \in UsageLevels : UsageChanges(a, u)
             \/ \E x \in ChannelStates : ChannelsChange(x)
    <2>1. check' = check /\ firedAge' = firedAge
      BY <1>1 DEF HealthChanges, UsageChanges, ChannelsChange, ruleVars
    <2>2. QED  BY <2>1 DEF NobodyFires, GoesOn, Ripe, In
  <1>2. CASE Tick
    <2>1. ASSUME NEW r \in AllRules, Ripe(r) PROVE Ripe(r)'
      <3>1. firedAge[r] \in 0..RuleCooldown /\ firedAge'[r] = Older(firedAge[r], RuleCooldown)
        BY <1>2 DEF Tick, IInv, TypeOK
      <3>2. QED  BY <2>1, <3>1, EngineConstantsOK DEF Ripe, Older
    <2>2. ASSUME NEW d \in Checks PROVE GoesOn(d)
      <3>1. check[d] \in CheckType  BY DEF IInv, TypeOK
      <3>2. PICK x, y : check'[d] = [check[d] EXCEPT !.alert.age = x, !.sendAge = y]
        BY <1>2 DEF Tick
      <3>3. /\ check'[d].pc = check[d].pc /\ check'[d].rules = check[d].rules
            /\ check'[d].rule = check[d].rule /\ check'[d].overtaken = check[d].overtaken
        BY <3>1, <3>2 DEF CheckType
      <3>4. QED  BY <3>3 DEF GoesOn, In
    <2>3. QED  BY <2>1, <2>2 DEF NobodyFires
  <1>3. QED  BY <1>1, <1>2 DEF Outside

(* Every step is one of these: an evaluation, a firing, a PUT, or none of them. *)
LEMMA EveryStep ==
    ASSUME CoolInv, Next
    PROVE  \/ \E c \in Checks : Evaluate(c)
           \/ \E c \in Checks, r \in AllRules : Fire(c, r)
           \/ \E r \in AllRules, t \in Texts, age \in 0..RuleCooldown : PutRule(r, t, age)
           \/ NobodyFires
  <1>1. CASE \E c \in Checks : (\E a \in Accounts : Load(c, a)) \/ CheckSteps(c) \/ Crash(c)
    <2>1. PICK c \in Checks :
              (\E a \in Accounts : Load(c, a)) \/ CheckSteps(c) \/ Crash(c)
      BY <1>1
    <2>2. QED  BY <2>1, CheckStepsCool, AlertCool DEF CheckSteps
  <1>2. CASE Operates  BY <1>2, OperatesCool
  <1>3. CASE Outside   BY <1>3, OutsideCool
  <1>4. QED  BY <1>1, <1>2, <1>3 DEF Next

LEMMA NextCool == CoolInv /\ [Next]_vars => CoolInv'
  <1> SUFFICES ASSUME CoolInv, [Next]_vars PROVE CoolInv'
    OBVIOUS
  <1>1. CASE Next
    <2>1. IInv' /\ TypeOK'  BY <1>1, NextSafe DEF CoolInv, IInv
    <2>2. RulesRipe'  BY <1>1, <2>1, EveryStep, EvaluateCool, FireCool, PutCool, NobodyFiresCool
    <2>3. QED  BY <2>1, <2>2 DEF CoolInv
  <1>2. CASE UNCHANGED vars
    <2>1. IInv'
      BY <1>2 DEF CoolInv, IInv, TypeOK, CopyIsCurrent, ActsOnRule, Reads, In, vars, accountVars,
         ruleVars, externalVars, boundVars
    <2>2. RulesRipe'
      BY <1>2 DEF CoolInv, RulesRipe, Ripe, In, vars, ruleVars
    <2>3. QED  BY <2>1, <2>2 DEF CoolInv
  <1>3. QED  BY <1>1, <1>2

(* A rule is fired within its cooldown only by a check that evaluated it before
   another fired it or a PUT wrote its lastFiredAt: for any number of overlapping checks, of one account or of
   several. *)
THEOREM CooldownHolds == Spec => RuleCooldownInTurn
  <1>1. Init => CoolInv
    <2>1. Init => IInv  BY InitSafe
    <2>2. Init => RulesRipe  BY BlankIsCool, IdleType DEF Init, RulesRipe, In
    <2>3. QED  BY <2>1, <2>2 DEF CoolInv
  <1>2. CoolInv /\ [Next]_vars =>
            [\A c \in Checks, r \in AllRules :
                In(c, "rules") /\ check'[c].rule = r =>
                    ~(firedAge[r] < RuleCooldown) \/ r \in check[c].overtaken]_vars
    <2> SUFFICES ASSUME CoolInv, Next, NEW c \in Checks, NEW r \in AllRules,
                        In(c, "rules"), check'[c].rule = r
                 PROVE  ~(firedAge[r] < RuleCooldown) \/ r \in check[c].overtaken
      OBVIOUS
    <2>1. r # NoRule  BY EngineConstantsOK DEF NoRule, AllRules
    <2>2. check[c].rule = NoRule  BY DEF CoolInv, RulesRipe
    <2>3. ASSUME NEW d \in Checks, Evaluate(d) PROVE FALSE
      <3>1. CASE d = c  BY <2>1, <2>3, <3>1, EvaluateCool
      <3>2. CASE d # c  BY <2>1, <2>2, <2>3, <3>2 DEF Evaluate, CoolInv, IInv, TypeOK
      <3>3. QED  BY <3>1, <3>2
    <2>4. ASSUME NEW d \in Checks, NEW x \in AllRules, Fire(d, x)
          PROVE  Ripe(r) \/ r \in check[c].overtaken
      <3>1. CASE d = c  BY <2>4, <3>1, FireCool
      <3>2. CASE d # c  BY <2>1, <2>2, <2>4, <3>2, FireCool
      <3>3. QED  BY <3>1, <3>2
    <2>5. ASSUME NobodyFires PROVE FALSE
      BY <2>1, <2>2, <2>5, BlankIsCool DEF NobodyFires, GoesOn
    <2>6. ASSUME NEW x \in AllRules, NEW t, NEW age, PutRule(x, t, age) PROVE FALSE
      BY <2>1, <2>2, <2>6, PutCool
    <2>7. QED  BY <2>3, <2>4, <2>5, <2>6, EveryStep DEF Ripe
  <1>3. QED  BY <1>1, <1>2, NextCool, PTL DEF Spec, RuleCooldownInTurn

----------------------------------------------------------------------------
(* Alerts.  What an account stores is the last alert sent, once that has been
   recorded; a check that no other has alerted beside holds a copy of it, and
   nobody is about to record another. *)

Said(x, a) == x.violations = sent[a].violations /\ x.age = sent[a].age
Unaware(c) == Reads(c) /\ "alert" \notin check[c].overtaken
AlertMemory ==
    /\ \A a \in Accounts : sent[a].kept => Said(lastAlert[a], a)
    /\ \A c \in Checks : Unaware(c) =>
         /\ sent[check[c].account].kept => Said(check[c].alert, check[c].account)
         /\ \A d \in Checks : In(d, "persist") => check[d].account # check[c].account
AlertInv == IInv /\ AlertMemory

(* A check forgets the account, or keeps its copy and knows no less. *)
Retains(d) ==
    /\ Reads(d)' => /\ Reads(d)
                    /\ check'[d].alert = check[d].alert
                    /\ check'[d].account = check[d].account
                    /\ check[d].overtaken \subseteq check'[d].overtaken
    /\ In(d, "persist")' => In(d, "persist") /\ check'[d].account = check[d].account
NobodyAlerts ==
    /\ \A d \in Checks : Retains(d)
    /\ sent' = sent /\ lastAlert' = lastAlert

LEMMA NobodyAlertsKept ==
    ASSUME AlertInv, NobodyAlerts
    PROVE  AlertMemory'
  <1>1. ASSUME NEW a \in Accounts, sent'[a].kept PROVE Said(lastAlert[a], a)'
    BY <1>1 DEF AlertInv, AlertMemory, NobodyAlerts, Said
  <1>2. ASSUME NEW c \in Checks, Unaware(c)'
        PROVE  /\ sent'[check'[c].account].kept => Said(check[c].alert, check[c].account)'
               /\ \A d \in Checks : In(d, "persist")' => check'[d].account # check'[c].account
    <2>1. /\ Unaware(c) /\ check'[c].alert = check[c].alert
          /\ check'[c].account = check[c].account
      BY <1>2 DEF NobodyAlerts, Retains, Unaware
    <2>2. QED
      BY <2>1 DEF AlertInv, AlertMemory, NobodyAlerts, Retains, Said
  <1>3. QED  BY <1>1, <1>2 DEF AlertMemory

(* The next stage of a check keeps its copy of the last alert. *)
LEMMA StageKeepsAlert ==
    ASSUME NEW k \in CheckType, NEW rules \in SUBSET AllRules
    PROVE  Stage(k, rules).pc # "finish" => Stage(k, rules).alert = k.alert
  <1>1. CASE rules # {}
    <2>1. Stage(k, rules) = [k EXCEPT !.pc = "rules", !.rules = rules, !.rule = NoRule]
      BY <1>1 DEF Stage
    <2>2. QED  BY <2>1 DEF CheckType
  <1>2. CASE rules = {} /\ Breaches(k.usage) = {}
    <2>1. Stage(k, rules) = [Idle EXCEPT !.pc = "finish", !.account = k.account]
      BY <1>2 DEF Stage, Ending
    <2>2. QED  BY <2>1, IdleType DEF CheckType
  <1>3. CASE rules = {} /\ Breaches(k.usage) # {}
    <2> DEFINE b == Breaches(k.usage)
    <2>1. Stage(k, rules) = [k EXCEPT !.pc = "kills", !.rules = {}, !.rule = NoRule,
                                      !.says = FirstTexts, !.usage = b, !.todo = b]
      BY <1>3 DEF Stage
    <2> HIDE DEF b
    <2>2. QED  BY <2>1 DEF CheckType
  <1>4. QED  BY <1>1, <1>2, <1>3

(* One check steps, and alerts nobody. *)
LEMMA OneRetains ==
    ASSUME IInv, NEW c \in Checks, NEW k, check' = [check EXCEPT ![c] = k],
           sent' = sent, lastAlert' = lastAlert,
           \/ k.pc \in {"idle", "finish"}
           \/ /\ Reads(c) /\ k.pc # "persist"
              /\ k.alert = check[c].alert /\ k.account = check[c].account
              /\ k.overtaken = check[c].overtaken
    PROVE  NobodyAlerts
  <1>1. check'[c] = k /\ \A d \in Checks \ {c} : check'[d] = check[d]
    BY DEF IInv, TypeOK
  <1>2. ASSUME NEW d \in Checks PROVE Retains(d)
    <2>1. CASE d = c  BY <1>1, <2>1 DEF Retains, In, Reads
    <2>2. CASE d # c  BY <1>1, <2>2 DEF Retains, In, Reads
    <2>3. QED  BY <2>1, <2>2
  <1>3. QED  BY <1>2 DEF NobodyAlerts

LEMMA BlankEnds ==
    ASSUME NEW k
    PROVE  Idle.pc = "idle" /\ Ending(k).pc = "finish" /\ Sending(k).pc = "persist"
           /\ Ending(k).rules = {}
  BY DEF Idle, Ending, Sending

(* Steps of a check that neither read nor record nor send an alert. *)
LEMMA CheckStepsRetain ==
    ASSUME IInv, NEW c \in Checks,
           \/ CheckUsage(c) \/ Evaluate(c) \/ RuleActs(c)
           \/ (\E v \in Violations : ThresholdStep(c, v))
           \/ Finish(c) \/ Crash(c)
    PROVE  NobodyAlerts
  <1>1. check[c] \in CheckType /\ check[c].rules \in SUBSET AllRules
    BY DEF IInv, TypeOK, CheckType
  <1>2. CASE CheckUsage(c)
    <2> DEFINE k == [check[c] EXCEPT !.pc = "measured", !.usage = usage[check[c].account]]
    <2>1. check' = [check EXCEPT ![c] = k] \/ check' = [check EXCEPT ![c] = Idle]
      BY <1>2 DEF CheckUsage, IInv, TypeOK
    <2>2. /\ k.alert = check[c].alert /\ k.overtaken = check[c].overtaken
          /\ k.account = check[c].account /\ k.pc = "measured"
      BY <1>1 DEF CheckType
    <2>3. sent' = sent /\ lastAlert' = lastAlert /\ Reads(c)
      BY <1>2 DEF CheckUsage, Reads, In
    <2> HIDE DEF k
    <2>4. QED  BY <2>1, <2>2, <2>3, BlankEnds, OneRetains
  <1>3. CASE Evaluate(c)
    <2> DEFINE rules == Triggered(check[c].usage)
               read == [check[c] EXCEPT !.says = text]
               k == Stage(read, rules)
    <2>1. /\ rules \in SUBSET AllRules /\ read \in CheckType
          /\ read.account = check[c].account /\ read.alert = check[c].alert
          /\ read.overtaken = check[c].overtaken
      BY RulesAreRead DEF Triggered
    <2>2. check' = [check EXCEPT ![c] = k]  BY <1>3 DEF Evaluate, IInv, TypeOK
    <2>3. sent' = sent /\ lastAlert' = lastAlert /\ Reads(c)
      BY <1>3 DEF Evaluate, Reads, In, accountVars
    <2> HIDE DEF rules, read
    <2>4. /\ k.pc \in {"rules", "kills", "finish"}
          /\ k.pc # "finish" => k.account = check[c].account /\ k.alert = check[c].alert
                                /\ k.overtaken = check[c].overtaken
      BY <1>1, <2>1, StageType, StageKeepsAlert
    <2> HIDE DEF k
    <2>5. QED  BY <2>2, <2>3, <2>4, OneRetains
  <1>4. CASE RuleActs(c)
    <2>1. PICK h \in {"unknown", "healthy", "degraded"} :
             check' = [check EXCEPT ![c] = Stage([check[c] EXCEPT !.health = h],
                                                 [check[c] EXCEPT !.health = h].rules)]
      BY <1>1, <1>4 DEF RuleActs, Health, CheckType
    <2> DEFINE probed == [check[c] EXCEPT !.health = h]
    <2>2. /\ probed \in CheckType /\ probed.rules \in SUBSET AllRules
          /\ probed.overtaken = check[c].overtaken /\ probed.alert = check[c].alert
          /\ probed.account = check[c].account
      BY <1>1 DEF CheckType
    <2> DEFINE k == Stage(probed, probed.rules)
    <2>3. check' = [check EXCEPT ![c] = k]  BY <2>1
    <2> HIDE DEF probed
    <2>4. /\ k.pc \in {"rules", "kills", "finish"}
          /\ k.pc # "finish" => k.account = check[c].account /\ k.alert = check[c].alert
                                /\ k.overtaken = check[c].overtaken
      BY <1>1, <2>2, StageType, StageKeepsAlert
    <2>5. sent' = sent /\ lastAlert' = lastAlert /\ Reads(c)
      BY <1>4 DEF RuleActs, Reads, In, accountVars
    <2> HIDE DEF k
    <2>6. QED  BY <2>3, <2>4, <2>5, OneRetains
  <1>5. CASE \E v \in Violations : ThresholdStep(c, v)
    <2>1. PICK v \in Violations : ThresholdStep(c, v)  BY <1>5
    <2> DEFINE k == [check[c] EXCEPT !.todo = @ \ {v}, !.health = Health(c)]
    <2>2. check' = [check EXCEPT ![c] = k]
      <3>1. check' = [check EXCEPT ![c].todo = @ \ {v}, ![c].health = Health(c)]
        BY <2>1, Zenon DEF ThresholdStep
      <3>2. QED  BY <3>1 DEF IInv, TypeOK
    <2>5. sent' = sent /\ lastAlert' = lastAlert /\ Reads(c)
      BY <2>1 DEF ThresholdStep, Reads, In, accountVars
    <2>3. /\ k.alert = check[c].alert /\ k.overtaken = check[c].overtaken
          /\ k.account = check[c].account /\ k.pc = "kills"
      BY <1>1, <2>1 DEF CheckType, ThresholdStep, In
    <2> HIDE DEF k
    <2>4. QED  BY <2>2, <2>3, <2>5, OneRetains
  <1>6. CASE Finish(c) \/ Crash(c)
    <2>1. check' = [check EXCEPT ![c] = Idle] /\ sent' = sent /\ lastAlert' = lastAlert
      BY <1>6 DEF Finish, Crash, accountVars
    <2>2. QED  BY <2>1, BlankEnds, OneRetains
  <1>7. QED  BY <1>2, <1>3, <1>4, <1>5, <1>6

(* Firing a rule tells other checks of it, and changes no copy. *)
LEMMA FireRetains ==
    ASSUME IInv, NEW c \in Checks, NEW r \in AllRules, Fire(c, r)
    PROVE  NobodyAlerts
  <1>1. sent' = sent /\ lastAlert' = lastAlert  BY DEF Fire, accountVars
  <1>2. ASSUME NEW d \in Checks PROVE Retains(d)
    <2>1. check[d] \in CheckType  BY DEF IInv, TypeOK
    <2>2. CASE d = c
      <3>1. check'[d] = [check[d] EXCEPT !.pc = "acting", !.rule = r, !.rules = @ \ {r}]
        BY <2>2 DEF Fire
      <3>2. QED  BY <2>1, <2>2, <3>1 DEF Fire, Retains, Reads, In, CheckType
    <2>3. CASE d # c
      <3>1. check'[d] = check[d] \/ check'[d] = [check[d] EXCEPT !.overtaken = @ \cup {r}]
        BY <2>3 DEF Fire
      <3>2. QED  BY <2>1, <3>1 DEF Retains, Reads, In, CheckType
    <2>4. QED  BY <2>2, <2>3
  <1>3. QED  BY <1>1, <1>2 DEF NobodyAlerts

LEMMA OperatesRetains ==
    ASSUME IInv, Operates
    PROVE  NobodyAlerts
  <1>1. sent' = sent /\ lastAlert' = lastAlert
    BY DEF Operates, Edit, SetStatus, Toggle, PutRule, AgentTrigger, Operator
  <1>2. ASSUME NEW d \in Checks PROVE Retains(d)
    <2>1. check[d] \in CheckType  BY DEF IInv, TypeOK
    <2>2. \/ check'[d] = check[d]
          \/ \E x \in AllRules \cup {"config"} :
               check'[d] = [check[d] EXCEPT !.overtaken = @ \cup {x}]
      BY OperatorsMark
    <2>3. QED  BY <2>1, <2>2 DEF Retains, Reads, In, CheckType
  <1>3. QED  BY <1>1, <1>2 DEF NobodyAlerts

(* A check reads what the account stores, and learns of an alert that is on its
   way to be stored. *)
LEMMA LoadRemembers ==
    ASSUME AlertInv, NEW c \in Checks, NEW a \in Accounts, Load(c, a)
    PROVE  AlertMemory'
  <1> DEFINE late == {x \in {"alert"} : \E d \in Checks : In(d, "persist") /\ check[d].account = a}
             k == [Idle EXCEPT !.pc = "loaded", !.account = a, !.config = config[a],
                               !.alert = lastAlert[a], !.overtaken = late]
  <1>1. check' = [check EXCEPT ![c] = k] /\ sent' = sent /\ lastAlert' = lastAlert
    BY DEF Load, accountVars
  <1>2. "alert" \notin late => \A d \in Checks : In(d, "persist") => check[d].account # a
    OBVIOUS
  <1> HIDE DEF late
  <1>3. k.pc = "loaded" /\ k.account = a /\ k.alert = lastAlert[a] /\ k.overtaken = late
    BY DEF Idle
  <1> HIDE DEF k
  <1>4. check'[c] = k /\ \A d \in Checks \ {c} : check'[d] = check[d]
    BY <1>1 DEF AlertInv, IInv, TypeOK
  <1>5. ASSUME NEW d \in Checks, In(d, "persist")'
        PROVE  d # c /\ In(d, "persist") /\ check'[d].account = check[d].account
    BY <1>3, <1>4, <1>5 DEF In
  <1>6. ASSUME NEW d \in Checks, Unaware(d)'
        PROVE  /\ sent[check'[d].account].kept => Said(check[d].alert, check[d].account)'
               /\ \A e \in Checks : In(e, "persist")' => check'[e].account # check'[d].account
    <2>1. CASE d = c
      BY <1>1, <1>2, <1>3, <1>4, <1>5, <1>6, <2>1 DEF AlertInv, AlertMemory, Unaware, Said
    <2>2. CASE d # c
      BY <1>1, <1>4, <1>5, <1>6, <2>2 DEF AlertInv, AlertMemory, Unaware, Reads, Said
    <2>3. QED  BY <2>1, <2>2
  <1>7. QED  BY <1>1, <1>6 DEF AlertInv, AlertMemory, Said

(* Sending an alert is known at once to every check of the account. *)
LEMMA AlertRemembers ==
    ASSUME AlertInv, NEW c \in Checks, Alert(c)
    PROVE  AlertMemory'
  <1> DEFINE a == check[c].account
  <1>0. \A d \in Checks : check[d] \in CheckType  BY DEF AlertInv, IInv, TypeOK
  <1>1. a \in Accounts  BY <1>0 DEF CheckType
  <1>2. CASE channels = "none" \/ AlreadyAlerted(c)
    <2>1. check' = [check EXCEPT ![c] = Ending(check[c])] /\ sent' = sent /\ lastAlert' = lastAlert
      BY <1>2 DEF Alert, accountVars, AlertInv, IInv, TypeOK
    <2>2. NobodyAlerts  BY <2>1, BlankEnds, OneRetains DEF AlertInv
    <2>3. QED  BY <2>2, NobodyAlertsKept
  <1>3. CASE ~(channels = "none" \/ AlreadyAlerted(c))
    <2>1. /\ lastAlert' = lastAlert
          /\ sent' = [sent EXCEPT ![a] = [violations |-> Breached(c), age |-> 0, kept |-> FALSE,
                                     reached |-> channels = "heard"]]
      BY <1>3 DEF Alert, accountVars
    <2>2. ~sent'[a].kept /\ \A b \in Accounts : b # a => sent'[b] = sent[b]
      BY <1>1, <2>1 DEF AlertInv, IInv, TypeOK
    <2>3. check'[c] = Sending(check[c]) /\ Sending(check[c]).pc = "persist"
          /\ Sending(check[c]).account = a
      <3>1. check' = [d \in Checks |->
                    IF d = c THEN Sending(check[c])
                    ELSE IF Reads(d) /\ check[d].account = a
                         THEN [check[d] EXCEPT !.overtaken = @ \cup {"alert"}]
                    ELSE check[d]]
        BY <1>3, Zenon DEF Alert
      <3>2. Sending(check[c]).pc = "persist" /\ Sending(check[c]).account = a
        BY DEF Sending, Idle
      <3>3. QED  BY <3>1, <3>2
    <2>4. ASSUME NEW d \in Checks, d # c
          PROVE  /\ check'[d].pc = check[d].pc /\ check'[d].account = check[d].account
                 /\ check'[d].alert = check[d].alert
                 /\ check[d].overtaken \subseteq check'[d].overtaken
                 /\ Reads(d) /\ check[d].account = a => "alert" \in check'[d].overtaken
      <3>1. check'[d] = IF Reads(d) /\ check[d].account = a
                        THEN [check[d] EXCEPT !.overtaken = @ \cup {"alert"}] ELSE check[d]
        BY <1>3, <2>4 DEF Alert
      <3>2. check[d] \in CheckType  BY <1>0
      <3>3. QED  BY <3>1, <3>2 DEF CheckType
    <2> HIDE DEF a
    <2>5. ASSUME NEW d \in Checks, Unaware(d)'
          PROVE  /\ sent'[check'[d].account].kept => Said(check[d].alert, check[d].account)'
                 /\ \A e \in Checks : In(e, "persist")' => check'[e].account # check'[d].account
      <3>1. d # c  BY <2>3, <2>5 DEF Unaware, Reads
      <3>2. /\ Unaware(d) /\ check'[d].account = check[d].account
            /\ check'[d].alert = check[d].alert /\ check[d].account # a
        BY <2>4, <2>5, <3>1 DEF Unaware, Reads
      <3>3. sent'[check[d].account] = sent[check[d].account]
        BY <1>0, <2>2, <3>2 DEF CheckType
      <3>4. Said(check[d].alert, check[d].account)' <=> Said(check[d].alert, check[d].account)
        BY <3>2, <3>3 DEF Said
      <3>5. ASSUME NEW e \in Checks, In(e, "persist")'
            PROVE  check'[e].account # check'[d].account
        <4>1. CASE e = c  BY <2>3, <3>2, <4>1
        <4>2. CASE e # c  BY <2>4, <3>2, <3>5, <4>2 DEF AlertInv, AlertMemory, In
        <4>3. QED  BY <4>1, <4>2
      <3>6. QED  BY <3>2, <3>3, <3>4, <3>5 DEF AlertInv, AlertMemory
    <2>6. ASSUME NEW b \in Accounts, sent'[b].kept PROVE Said(lastAlert[b], b)'
      BY <2>1, <2>2, <2>6 DEF AlertInv, AlertMemory, Said
    <2>7. QED  BY <2>5, <2>6 DEF AlertMemory
  <1>4. QED  BY <1>2, <1>3

(* What is stored is kept when it is the last alert sent; whoever read the
   account before knows of it. *)
LEMMA PersistRemembers ==
    ASSUME AlertInv, NEW c \in Checks, Persist(c)
    PROVE  AlertMemory'
  <1> DEFINE a == check[c].account
             x == [violations |-> Breached(c), age |-> check[c].sendAge]
  <1>0. \A d \in Checks : check[d] \in CheckType  BY DEF AlertInv, IInv, TypeOK
  <1>1. a \in Accounts  BY <1>0 DEF CheckType
  <1>2. lastAlert'[a] = x /\ \A b \in Accounts : b # a => lastAlert'[b] = lastAlert[b]
    BY <1>1 DEF Persist, AlertInv, IInv, TypeOK
  <1>3. /\ \A b \in Accounts : sent'[b].violations = sent[b].violations /\ sent'[b].age = sent[b].age
        /\ sent'[a].kept => Keeps(c)
        /\ \A b \in Accounts : b # a => sent'[b] = sent[b]
    <2>1. sent' = [sent EXCEPT ![a].kept = Keeps(c)]  BY DEF Persist
    <2>2. sent \in [Accounts -> SentType]
      BY DEF AlertInv, IInv, TypeOK
    <2>3. QED  BY <1>1, <2>1, <2>2
  <1>4. Keeps(c) => x.violations = sent[a].violations /\ x.age = sent[a].age
    BY DEF Keeps
  <1>5. check'[c] = Ending(check[c]) /\ \A d \in Checks \ {c} : check'[d] = check[d]
    BY DEF Persist, AlertInv, IInv, TypeOK
  <1>6. In(c, "persist")  BY DEF Persist
  <1> HIDE DEF a, x
  <1>7. ASSUME NEW d \in Checks, Unaware(d)'
        PROVE  /\ sent'[check'[d].account].kept => Said(check[d].alert, check[d].account)'
               /\ \A e \in Checks : In(e, "persist")' => check'[e].account # check'[d].account
    <2>1. d # c  BY <1>5, <1>7, BlankEnds DEF Unaware, Reads
    <2>2. check'[d] = check[d] /\ Unaware(d)  BY <1>5, <1>7, <2>1 DEF Unaware, Reads
    <2>3. check[d].account # a  BY <1>6, <2>2 DEF AlertInv, AlertMemory, a
    <2>4. sent'[check[d].account] = sent[check[d].account]
      BY <1>0, <1>3, <2>3 DEF CheckType
    <2>5. ASSUME NEW e \in Checks, In(e, "persist")' PROVE e # c /\ In(e, "persist")
      BY <1>5, <2>5, BlankEnds DEF In
    <2>6. QED  BY <1>5, <2>2, <2>4, <2>5 DEF AlertInv, AlertMemory, Said
  <1>8. ASSUME NEW b \in Accounts, sent'[b].kept PROVE Said(lastAlert[b], b)'
    <2>1. CASE b = a  BY <1>2, <1>3, <1>4, <1>8, <2>1 DEF Said
    <2>2. CASE b # a  BY <1>2, <1>3, <1>8, <2>2 DEF AlertInv, AlertMemory, Said
    <2>3. QED  BY <2>1, <2>2
  <1>9. QED  BY <1>7, <1>8 DEF AlertMemory

(* A tick ages a check's copy, and changes nothing else of it that matters here. *)
LEMMA TickOne ==
    ASSUME IInv, Tick, NEW d \in Checks
    PROVE  /\ check'[d].pc = check[d].pc /\ check'[d].account = check[d].account
           /\ check'[d].overtaken = check[d].overtaken
           /\ Reads(d) => /\ check'[d].alert.violations = check[d].alert.violations
                          /\ check'[d].alert.age = Older(check[d].alert.age, AlertCooldown)
  <1> DEFINE k(c) == [check[c] EXCEPT
                !.alert.age = IF Reads(c) THEN Older(@, AlertCooldown) ELSE @,
                !.sendAge   = IF In(c, "persist") THEN Older(@, AlertCooldown) ELSE @]
  <1>1. check' = [c \in Checks |-> k(c)]
    <2>1. check' = [c \in Checks |->
            [check[c] EXCEPT
                !.alert.age = IF Reads(c) THEN Older(@, AlertCooldown) ELSE @,
                !.sendAge   = IF In(c, "persist") THEN Older(@, AlertCooldown) ELSE @]]
      BY Zenon DEF Tick
    <2>2. QED  BY <2>1, Zenon
  <1> HIDE DEF k
  <1>2. check'[d] = k(d)  BY <1>1
  <1> DEFINE age  == IF Reads(d) THEN Older(check[d].alert.age, AlertCooldown)
                     ELSE check[d].alert.age
             send == IF In(d, "persist") THEN Older(check[d].sendAge, AlertCooldown)
                     ELSE check[d].sendAge
             alert == [check[d].alert EXCEPT !.age = age]
  <1>3. check[d] \in CheckType /\ check[d].alert \in Alerts  BY DEF IInv, TypeOK, CheckType
  <1>4. k(d) = [check[d] EXCEPT !.alert = alert, !.sendAge = send]
    BY <1>3 DEF CheckType, Alerts, k
  <1>5. Reads(d) => age = Older(check[d].alert.age, AlertCooldown)  OBVIOUS
  <1> HIDE DEF age, send
  <1>6. alert.violations = check[d].alert.violations /\ alert.age = age
    BY <1>3 DEF Alerts
  <1> HIDE DEF alert
  <1>7. QED  BY <1>2, <1>3, <1>4, <1>5, <1>6 DEF CheckType

(* Time passes for the copies as for what they are copies of. *)
LEMMA TickRemembers ==
    ASSUME AlertInv, Tick
    PROVE  AlertMemory'
  <1>1. ASSUME NEW d \in Checks
        PROVE  /\ check'[d].pc = check[d].pc /\ check'[d].account = check[d].account
               /\ check'[d].overtaken = check[d].overtaken
               /\ Reads(d) => /\ check'[d].alert.violations = check[d].alert.violations
                              /\ check'[d].alert.age = Older(check[d].alert.age, AlertCooldown)
    BY TickOne DEF AlertInv
  <1>2. ASSUME NEW b \in Accounts
        PROVE  /\ sent'[b].violations = sent[b].violations /\ sent'[b].kept = sent[b].kept
               /\ sent'[b].age = Older(sent[b].age, AlertCooldown)
               /\ lastAlert'[b].violations = lastAlert[b].violations
               /\ lastAlert'[b].age = Older(lastAlert[b].age, AlertCooldown)
    <2>1. /\ sent'[b] = [sent[b] EXCEPT !.age = Older(@, AlertCooldown)]
          /\ lastAlert'[b] = [lastAlert[b] EXCEPT !.age = Older(@, AlertCooldown)]
      <3>1. /\ sent' = [a \in Accounts |-> [sent[a] EXCEPT !.age = Older(@, AlertCooldown)]]
            /\ lastAlert' = [a \in Accounts |-> [lastAlert[a] EXCEPT !.age = Older(@, AlertCooldown)]]
        BY Zenon DEF Tick
      <3>2. QED  BY <3>1
    <2>2. lastAlert[b] \in Alerts
          /\ sent[b] \in SentType
      BY DEF AlertInv, IInv, TypeOK
    <2>3. QED  BY <2>1, <2>2, SMTT(30) DEF Alerts
  <1>3. ASSUME NEW d \in Checks, Unaware(d)'
        PROVE  /\ sent'[check'[d].account].kept => Said(check[d].alert, check[d].account)'
               /\ \A e \in Checks : In(e, "persist")' => check'[e].account # check'[d].account
    <2>1. Unaware(d) /\ Reads(d)  BY <1>1, <1>3 DEF Unaware, Reads
    <2>2. check[d].account \in Accounts  BY DEF AlertInv, IInv, TypeOK, CheckType
    <2>3. QED  BY <1>1, <1>2, <2>1, <2>2 DEF AlertInv, AlertMemory, Said, In
  <1>4. ASSUME NEW b \in Accounts, sent'[b].kept PROVE Said(lastAlert[b], b)'
    BY <1>2, <1>4 DEF AlertInv, AlertMemory, Said
  <1>5. QED  BY <1>3, <1>4 DEF AlertMemory

LEMMA NextRemembers == AlertInv /\ [Next]_vars => AlertInv'
  <1> SUFFICES ASSUME AlertInv, [Next]_vars PROVE AlertInv'
    OBVIOUS
  <1>1. ASSUME NEW c \in Checks,
               (\E a \in Accounts : Load(c, a)) \/ CheckSteps(c) \/ Crash(c)
        PROVE  AlertMemory'
    BY <1>1, LoadRemembers, CheckStepsRetain, FireRetains, AlertRemembers, PersistRemembers,
       NobodyAlertsKept DEF CheckSteps, AlertInv
  <1>2. ASSUME Operates PROVE AlertMemory'
    BY <1>2, OperatesRetains, NobodyAlertsKept DEF AlertInv
  <1>3. ASSUME Outside PROVE AlertMemory'
    <2>1. CASE Tick  BY <2>1, TickRemembers
    <2>2. CASE ~Tick
      <3>1. check' = check /\ sent' = sent /\ lastAlert' = lastAlert
        BY <1>3, <2>2 DEF Outside, HealthChanges, UsageChanges, ChannelsChange, accountVars
      <3>2. NobodyAlerts  BY <3>1 DEF NobodyAlerts, Retains, Reads, In
      <3>3. QED  BY <3>2, NobodyAlertsKept
    <2>3. QED  BY <2>1, <2>2
  <1>4. CASE Next
    <2>1. IInv'  BY <1>4, NextSafe DEF AlertInv
    <2>2. AlertMemory'  BY <1>1, <1>2, <1>3, <1>4 DEF Next
    <2>3. QED  BY <2>1, <2>2 DEF AlertInv
  <1>5. CASE UNCHANGED vars
    <2>1. IInv'
      BY <1>5 DEF AlertInv, IInv, TypeOK, CopyIsCurrent, ActsOnRule, Reads, In, vars, accountVars,
         ruleVars, externalVars, boundVars
    <2>2. NobodyAlerts  BY <1>5 DEF NobodyAlerts, Retains, Reads, In, vars, accountVars
    <2>3. QED  BY <2>1, <2>2, NobodyAlertsKept DEF AlertInv
  <1>6. QED  BY <1>4, <1>5

LEMMA InitRemembers == Init => AlertInv
  <1> SUFFICES ASSUME Init PROVE AlertInv
    OBVIOUS
  <1>1. IInv  BY InitSafe
  <1>2. \A c \in Checks : check[c].pc = "idle"  BY IdleType DEF Init
  <1>3. \A a \in Accounts : Said(lastAlert[a], a)  BY DEF Init, Said, NoAlert
  <1>4. QED  BY <1>1, <1>2, <1>3 DEF AlertInv, AlertMemory, Unaware, Reads

(* A step of one check leaves every other where it is. *)
LEMMA OthersKeepTheirPlace ==
    ASSUME IInv, NEW c \in Checks, NEW d \in Checks, d # c,
           (\E a \in Accounts : Load(d, a)) \/ CheckSteps(d) \/ Crash(d)
    PROVE  check'[c].pc = check[c].pc
  <1>0. check \in [Checks -> CheckType] /\ check[c] \in CheckType  BY DEF IInv, TypeOK
  <1>1. CASE \E r \in AllRules : Fire(d, r)
    <2>1. PICK r \in AllRules : Fire(d, r)  BY <1>1
    <2>2. check'[c] = check[c] \/ check'[c] = [check[c] EXCEPT !.overtaken = @ \cup {r}]
      BY <2>1 DEF Fire
    <2>3. QED  BY <1>0, <2>2 DEF CheckType
  <1>2. CASE Alert(d)
    <2>1. check'[c] = check[c] \/ check'[c] = [check[c] EXCEPT !.overtaken = @ \cup {"alert"}]
      BY <1>0, <1>2 DEF Alert
    <2>2. QED  BY <1>0, <2>1 DEF CheckType
  <1>3. CASE \/ \E a \in Accounts : Load(d, a)
             \/ CheckUsage(d) \/ Evaluate(d) \/ RuleActs(d) \/ Persist(d) \/ Finish(d) \/ Crash(d)
             \/ \E v \in Violations : ThresholdStep(d, v)
    <2>1. CASE \E a \in Accounts : Load(d, a)
      <3>1. PICK a \in Accounts : Load(d, a)  BY <2>1
      <3>2. PICK k : check' = [check EXCEPT ![d] = k]  BY <3>1, Zenon DEF Load
      <3>3. QED  BY <1>0, <3>2
    <2>2. CASE CheckUsage(d) \/ Evaluate(d)
      BY <1>0, <2>2 DEF CheckUsage, Evaluate
    <2>3. CASE RuleActs(d)
      BY <1>0, <2>3 DEF RuleActs
    <2>4. CASE Persist(d) \/ Finish(d) \/ Crash(d)
      BY <1>0, <2>4 DEF Persist, Finish, Crash
    <2>5. CASE \E v \in Violations : ThresholdStep(d, v)
      BY <1>0, <2>5 DEF ThresholdStep
    <2>6. QED  BY <1>3, <2>1, <2>2, <2>3, <2>4, <2>5
  <1>4. QED  BY <1>1, <1>2, <1>3 DEF CheckSteps

(* So do operators, the provider and time. *)
LEMMA WorldKeepsPlaces ==
    ASSUME IInv, NEW c \in Checks, Operates \/ Outside
    PROVE  check'[c].pc = check[c].pc
  <1>0. check[c] \in CheckType  BY DEF IInv, TypeOK
  <1>1. CASE Operates
    <2>1. \/ check'[c] = check[c]
          \/ \E x \in AllRules \cup {"config"} :
               check'[c] = [check[c] EXCEPT !.overtaken = @ \cup {x}]
      BY <1>1, OperatorsMark
    <2>2. QED  BY <1>0, <2>1 DEF CheckType, In
  <1>2. CASE Tick
    BY <1>2, TickOne DEF In
  <1>3. CASE Outside /\ ~Tick
    BY <1>3 DEF Outside, HealthChanges, UsageChanges, ChannelsChange, In
  <1>4. QED  BY <1>1, <1>2, <1>3

(* A check leaves the threshold kills by alerting, by staying silent, or by
   dying. *)
LEMMA OnlyAlertLeaves ==
    ASSUME IInv, Next, NEW c \in Checks, In(c, "kills"), check'[c].pc \in {"persist", "finish"}
    PROVE  Alert(c) /\ (check'[c].pc = "finish" <=> channels = "none" \/ AlreadyAlerted(c))
  <1>0. check \in [Checks -> CheckType] /\ check[c] \in CheckType  BY DEF IInv, TypeOK
  <1>1. ASSUME NEW d \in Checks, d # c,
               (\E a \in Accounts : Load(d, a)) \/ CheckSteps(d) \/ Crash(d)
        PROVE  FALSE
    BY <1>1, OthersKeepTheirPlace DEF In
  <1>2. ASSUME (\E a \in Accounts : Load(c, a)) \/ CheckSteps(c) \/ Crash(c)
        PROVE  Alert(c)
    <2>1. ~\E a \in Accounts : Load(c, a)  BY DEF Load, In
    <2>2. ~CheckUsage(c) /\ ~Evaluate(c) /\ ~RuleActs(c) /\ ~Persist(c) /\ ~Finish(c)
          /\ ~\E r \in AllRules : Fire(c, r)
      BY DEF CheckUsage, Evaluate, RuleActs, Persist, Finish, Fire, In
    <2>3. ~Crash(c)  BY <1>0, BlankEnds DEF Crash
    <2>4. ASSUME NEW v \in Violations, ThresholdStep(c, v) PROVE FALSE
      <3>1. check'[c].pc = "kills"  BY <1>0, <2>4 DEF ThresholdStep, In, CheckType
      <3>2. QED  BY <3>1
    <2>5. QED  BY <1>2, <2>1, <2>2, <2>3, <2>4 DEF CheckSteps
  <1>3. ASSUME Operates \/ Outside PROVE FALSE
    BY <1>3, WorldKeepsPlaces DEF In
  <1>4. Alert(c)  BY <1>1, <1>2, <1>3 DEF Next, In
  <1>5. CASE channels = "none" \/ AlreadyAlerted(c)
    BY <1>0, <1>4, <1>5, BlankEnds DEF Alert
  <1>6. CASE ~(channels = "none" \/ AlreadyAlerted(c))
    BY <1>0, <1>4, <1>6, BlankEnds DEF Alert
  <1>7. QED  BY <1>4, <1>5, <1>6

(* For a check that nobody alerted beside, its copy tells what was sent last. *)
LEMMA CopyTells ==
    ASSUME AlertInv, NEW c \in Checks, In(c, "kills"), Undisturbed(c)
    PROVE  AlreadyAlerted(c) <=> LastSent(c)
  <1>1. Said(check[c].alert, check[c].account)
    BY DEF AlertInv, AlertMemory, Unaware, Undisturbed, Reads, In
  <1>2. QED  BY <1>1 DEF Said, AlreadyAlerted, LastSent

(* An alert is repeated within its cooldown only after a crash that lost the
   record of it, or when another check alerted beside. *)
THEOREM AlertsOnce == Spec => AlertsNotRepeated
  <1>1. AlertInv /\ [Next]_vars =>
            [\A c \in Checks : Alerting(c) /\ Undisturbed(c) => ~LastSent(c)]_vars
    <2> SUFFICES ASSUME AlertInv, Next, NEW c \in Checks, Alerting(c), Undisturbed(c)
                 PROVE  ~LastSent(c)
      OBVIOUS
    <2>1. ~AlreadyAlerted(c)  BY OnlyAlertLeaves DEF Alerting, AlertInv
    <2>2. QED  BY <2>1, CopyTells DEF Alerting
  <1>2. QED  BY <1>1, InitRemembers, NextRemembers, PTL DEF Spec, AlertsNotRepeated

(* A check that found a breach ends without giving the channels an alert only if
   there are none, or if the last one said the same less than a cooldown ago. *)
THEOREM SilenceIsRepetition == Spec => NoSilentBreach
  <1>1. AlertInv /\ [Next]_vars =>
            [\A c \in Checks : In(c, "kills") /\ check'[c].pc = "finish" /\ Undisturbed(c)
                => channels = "none" \/ LastSent(c)]_vars
    <2> SUFFICES ASSUME AlertInv, Next, NEW c \in Checks, In(c, "kills"),
                        check'[c].pc = "finish", Undisturbed(c)
                 PROVE  channels = "none" \/ LastSent(c)
      OBVIOUS
    <2>1. channels = "none" \/ AlreadyAlerted(c)  BY OnlyAlertLeaves DEF AlertInv
    <2>2. QED  BY <2>1, CopyTells
  <1>2. QED  BY <1>1, InitRemembers, NextRemembers, PTL DEF Spec, NoSilentBreach

(* A check that has its usage goes on by evaluating the rules. *)
LEMMA OnlyEvaluateLeaves ==
    ASSUME IInv, Next, NEW c \in Checks, In(c, "measured"), check'[c].pc \notin {"idle", "measured"}
    PROVE  Evaluate(c)
  <1>0. check \in [Checks -> CheckType] /\ check[c] \in CheckType  BY DEF IInv, TypeOK
  <1>1. ASSUME NEW d \in Checks, d # c,
               (\E a \in Accounts : Load(d, a)) \/ CheckSteps(d) \/ Crash(d)
        PROVE  FALSE
    BY <1>1, OthersKeepTheirPlace DEF In
  <1>2. ASSUME (\E a \in Accounts : Load(c, a)) \/ CheckSteps(c) \/ Crash(c)
        PROVE  Evaluate(c)
    <2>1. ~\E a \in Accounts : Load(c, a)  BY DEF Load, In
    <2>2. ~Alert(c) /\ ~RuleActs(c) /\ ~Persist(c) /\ ~Finish(c)
          /\ (~\E r \in AllRules : Fire(c, r)) /\ ~\E v \in Violations : ThresholdStep(c, v)
      BY DEF Alert, ThresholdStep, RuleActs, Persist, Finish, Fire, In
    <2>3. ~Crash(c)  BY <1>0, BlankEnds DEF Crash
    <2>4. ~CheckUsage(c)  BY DEF CheckUsage, In
    <2>5. QED  BY <1>2, <2>1, <2>2, <2>3, <2>4 DEF CheckSteps
  <1>3. ASSUME Operates \/ Outside PROVE FALSE
    BY <1>3, WorldKeepsPlaces DEF In
  <1>4. QED  BY <1>1, <1>2, <1>3 DEF Next

(* The rules a check is left to fire are those it was given. *)
LEMMA StageRules ==
    ASSUME NEW k \in CheckType, NEW rules \in SUBSET AllRules
    PROVE  Stage(k, rules).rules = rules
  <1>1. CASE rules # {}
    <2>1. Stage(k, rules) = [k EXCEPT !.pc = "rules", !.rules = rules, !.rule = NoRule]
      BY <1>1 DEF Stage
    <2>2. QED  BY <2>1 DEF CheckType
  <1>2. CASE rules = {}
    BY <1>2, StageIsCool
  <1>3. QED  BY <1>1, <1>2

(* Of a rule that is enabled, has conditions and needs no approval, the preflight and the
   check that evaluates it on the same usage say the same. *)
THEOREM PreflightAgrees == Spec => PreflightForetells
  <1>1. ASSUME IInv, Next, NEW c \in Checks, NEW r \in AllRules, In(c, "measured"),
               check'[c].pc \notin {"idle", "measured"},
               check[c].usage = usage[check[c].account], status[check[c].account] = "active",
               ~degraded[check[c].account], ruleState[r] = "enabled", ~text[r].approval,
               text[r].conditions # {}
        PROVE  WouldFire(check[c].account, r) <=> r \in check'[c].rules
    <2> DEFINE rules == Triggered(check[c].usage)
               read == [check[c] EXCEPT !.says = text]
    <2>1. read \in CheckType /\ rules \in SUBSET AllRules
      BY <1>1, RulesAreRead DEF Triggered
    <2>2. check'[c] = Stage(read, rules)
      BY <1>1, OnlyEvaluateLeaves DEF Evaluate, IInv, TypeOK
    <2>3. r \in rules <=> ~Cooling(r) /\ Matches(r, usage[check[c].account])
      BY <1>1 DEF Triggered, AllRules
    <2>5. WouldFire(check[c].account, r)
            <=> ~Cooling(r) /\ Matches(r, usage[check[c].account])
      BY <1>1 DEF WouldFire
    <2> HIDE DEF rules, read
    <2>6. check'[c].rules = rules  BY <2>1, <2>2, StageRules
    <2>7. QED  BY <2>3, <2>5, <2>6
  <1>2. IInv /\ Obeyed /\ [Next]_vars =>
            [\A c \in Checks, r \in AllRules :
                LET a == check[c].account IN
                /\ In(c, "measured") /\ check'[c].pc \notin {"idle", "measured"}
                /\ check[c].usage = usage[a] /\ status[a] = "active" /\ ~degraded[a]
                /\ ruleState[r] = "enabled" /\ ~text[r].approval /\ text[r].conditions # {}
                => (WouldFire(a, r) <=> r \in check'[c].rules)]_vars
    BY <1>1
  <1>3. QED  BY <1>2, EngineInvariant, PTL DEF Spec, PreflightForetells
=============================================================================
