--------------------------- MODULE MonitoringEngine ---------------------------
(***************************************************************************)
(* The monitoring engine of packages/api over the cloud accounts and kill  *)
(* rules of one organisation.  Checks come from the cron cycles and from   *)
(* the manual endpoints, and nothing keeps them apart: each works on a     *)
(* copy of the account read when its cycle began, evaluates the rules as   *)
(* they were read once, probes the provider's health at most once, and     *)
(* kills, alerts and writes back between the steps of the others.          *)
(*                                                                         *)
(* Times are kept as ages: ticks since the time the code stores, up to the *)
(* interval it is compared with.  An age at its cap stands for a time that *)
(* is long past or not set; the code treats the two alike.                 *)
(***************************************************************************)
EXTENDS Integers, FiniteSets

CONSTANTS
    Accounts,       \* cloud accounts of the organisation
    Managed,        \* those on a managed-database provider
    Services,       \* services of an account
    Signals,        \* what a usage result may show
    Violations,     \* the signals that are breaches of a threshold
    UsageLevels,    \* bound: what the accounts' usage may look like
    ServiceOf,      \* the service a violation is of
    Category,       \* its category
    Critical,       \* the violations of critical severity
    Configs,        \* the settings an operator may give an account
    Rules,          \* rules saved through POST /rules
    RuleOf,         \* what each of them says then
    Texts,          \* what PUT /rules/:ruleId may make a rule say
    AgentRules,     \* rules POST /rules/agent/trigger creates
    AgentTarget,    \* the service each of those names
    Crons,          \* checks of cron cycles that may be in progress together
    Manuals,        \* checks started by hand
    Interval,       \* checkIntervalMinutes, in ticks
    RuleCooldown,   \* cooldownMinutes, in ticks
    AlertCooldown,  \* ALERT_COOLDOWN_MS, in ticks
    ChannelStates,  \* bound: what may become of the organisation's channels
    MayDegrade,     \* bound: the provider's API may become unwell
    MaxCrashes,     \* bound: checks that die with their instance
    MaxEdits        \* bound: actions of operators

Checks      == Crons \cup Manuals
AllRules    == Rules \cup AgentRules
KillActions == {"disconnect", "pause-cluster", "delete"}
Destructive == {"pause-cluster", "delete"}

(* The settings of a cloud account that the engine reads. *)
ConfigType ==
    [protected  : SUBSET Services,      \* protectedServices
     categories : SUBSET {Category[v] : v \in Violations},  \* autoKillCategories
     autoDisconnect : BOOLEAN, autoDelete : BOOLEAN, productionProtected : BOOLEAN]

(* What a rule says.  POST /rules refuses one without conditions; PUT does not. *)
RuleType ==
    [conditions : SUBSET Signals, logic : {"any", "all"},
     action : KillActions, target : Services, approval : BOOLEAN]

(* "none": no channel is configured.  "mute": none is enabled, or none of their
   services takes what it is sent, which the code does not notice. *)
ChannelType == {"none", "mute", "heard"}

ASSUME EngineConstantsOK ==
    /\ Accounts # {} /\ Managed \subseteq Accounts
    /\ UsageLevels \subseteq SUBSET Signals
    /\ Violations \subseteq Signals /\ Critical \subseteq Violations
    /\ ServiceOf \in [Violations -> Services]
    /\ Configs # {} /\ Configs \subseteq ConfigType
    /\ RuleOf \in [Rules -> RuleType] /\ Texts \subseteq RuleType
    /\ \A r \in Rules : RuleOf[r].conditions # {}
    /\ ChannelStates # {} /\ ChannelStates \subseteq ChannelType
    /\ AgentTarget \in [AgentRules -> Services]
    /\ Rules \cap AgentRules = {} /\ "none" \notin Rules \cup AgentRules
    /\ Crons \cap Manuals = {}
    /\ Interval \in Nat /\ RuleCooldown \in Nat \ {0} /\ AlertCooldown \in Nat
    /\ MayDegrade \in BOOLEAN /\ MaxCrashes \in Nat /\ MaxEdits \in Nat

VARIABLES
    status,     \* status of each account; "deleted" when the document is gone
    config,     \* its settings
    lastAlert,  \* lastAlertHash and the age of lastAlertedAt
    checkAge,   \* age of lastCheckAt
    ruleState,  \* what became of each rule
    firedAge,   \* age of each rule's lastFiredAt
    text,       \* what each rule says
    usage,      \* external: what the provider would report
    degraded,   \* external: the provider's API is unwell
    channels,   \* external: alertChannels and the services behind them
    check,      \* the checks in progress
    crashes, edits,     \* counters of the bounds
    sent,       \* history: the last alert of each account given to the channels
    event       \* history: what the last step did to the outside

accountVars  == <<status, config, lastAlert, checkAge>>
ruleVars     == <<ruleState, firedAge, text>>
externalVars == <<usage, degraded, channels>>
boundVars    == <<crashes, edits>>
vars == <<accountVars, ruleVars, externalVars, check, boundVars, sent, event>>

----------------------------------------------------------------------------
(* Types *)

NoRule  == "none"
Alerts  == [violations : SUBSET Violations, age : 0..AlertCooldown]
NoAlert == [violations |-> {}, age |-> AlertCooldown]
Quiet   == [kind |-> "none"]
Kills   == [kind : {"kill"}, account : Accounts, service : Services,
            action : KillActions, rule : AllRules \cup {NoRule},
            edited : BOOLEAN]   \* the settings changed since the check read them

CheckType ==
    [pc        : {"idle", "loaded", "measured", "rules", "acting", "kills",
                  "persist", "finish"},
     account   : Accounts,
     config    : Configs,               \* the copy: settings
     alert     : Alerts,                \* the copy: lastAlertHash, lastAlertedAt
     usage     : SUBSET Signals,
     health    : {"unknown", "healthy", "degraded"},    \* cachedHealth
     rules     : SUBSET AllRules,       \* triggered, not yet fired
     rule      : AllRules \cup {NoRule},
     says      : [AllRules -> RuleType],    \* the copy: the rules
     todo      : SUBSET Violations,     \* not yet looked at
     sendAge   : 0..AlertCooldown,      \* age of the `now` of the alert
     overtaken : SUBSET (AllRules \cup {"alert", "config"})] \* history

SentType ==
    [violations : SUBSET Violations, age : 0..AlertCooldown,
     kept : BOOLEAN, reached : BOOLEAN]     \* recorded; taken by some service

TypeOK ==
    /\ status \in [Accounts -> {"active", "paused", "deleted"}]
    /\ config \in [Accounts -> Configs]
    /\ lastAlert \in [Accounts -> Alerts]
    /\ checkAge \in [Accounts -> 0..Interval]
    /\ ruleState \in [AllRules -> {"absent", "enabled", "disabled"}]
    /\ firedAge \in [AllRules -> 0..RuleCooldown]
    /\ text \in [AllRules -> RuleType]
    /\ channels \in ChannelStates
    /\ usage \in [Accounts -> SUBSET Signals]
    /\ degraded \in [Accounts -> BOOLEAN]
    /\ check \in [Checks -> CheckType]
    /\ crashes \in 0..MaxCrashes /\ edits \in 0..MaxEdits
    /\ sent \in [Accounts -> SentType]
    /\ event \in Kills \/ event.kind \in {"none", "alert"}

(* What POST /rules/agent/trigger saves when it is told to execute. *)
AgentRule(r) ==
    [conditions |-> {}, logic |-> "any", action |-> "disconnect",
     target |-> AgentTarget[r], approval |-> FALSE]

FirstTexts == [r \in AllRules |-> IF r \in Rules THEN RuleOf[r] ELSE AgentRule(r)]

Idle == [pc |-> "idle", account |-> CHOOSE a \in Accounts : TRUE,
         config |-> CHOOSE k \in Configs : TRUE, alert |-> NoAlert, usage |-> {},
         health |-> "unknown", rules |-> {}, rule |-> NoRule,
         says |-> FirstTexts, todo |-> {}, sendAge |-> 0, overtaken |-> {}]

(* New accounts have one setting or another, and the saved rules are enabled. *)
Init ==
    /\ status = [a \in Accounts |-> "active"]
    /\ config \in [Accounts -> Configs]
    /\ lastAlert = [a \in Accounts |-> NoAlert]
    /\ checkAge = [a \in Accounts |-> Interval]
    /\ ruleState = [r \in AllRules |-> IF r \in Rules THEN "enabled" ELSE "absent"]
    /\ firedAge = [r \in AllRules |-> RuleCooldown]
    /\ text = FirstTexts
    /\ channels \in ChannelStates
    /\ usage \in [Accounts -> UsageLevels]
    /\ degraded = [a \in Accounts |-> FALSE]
    /\ check = [c \in Checks |-> Idle]
    /\ crashes = 0 /\ edits = 0
    /\ sent = [a \in Accounts |-> [violations |-> {}, age |-> AlertCooldown,
                                   kept |-> TRUE, reached |-> TRUE]]
    /\ event = Quiet

----------------------------------------------------------------------------
(* The rule engine *)

(* Mutant: a rule is evaluated whether or not it is cooling down. *)
NeverCools(r) == FALSE

Cooling(r) == firedAge[r] < RuleCooldown

Matches(r, u) ==
    IF text[r].logic = "all" THEN text[r].conditions \subseteq u
    ELSE text[r].conditions \cap u # {}

Triggered(u) ==
    {r \in AllRules : ruleState[r] = "enabled" /\ ~Cooling(r) /\ Matches(r, u)}

(* POST /rules/preflight: would the rule, as saved, act on this account if a
   check came now?  A disabled rule is taken as enabled, one without conditions
   is refused.
   Mutant: the preflight forgets that the rule may be cooling down. *)
WouldFireCooling(a, r) ==
    /\ status[a] = "active" /\ text[r].conditions # {} /\ Matches(r, usage[a])
    /\ ~degraded[a] /\ ~text[r].approval

WouldFire(a, r) ==
    /\ status[a] = "active" /\ text[r].conditions # {} /\ Matches(r, usage[a])
    /\ ~degraded[a] /\ ~Cooling(r) /\ ~text[r].approval

----------------------------------------------------------------------------
(* Checks *)

In(c, where) == check[c].pc = where

(* Mutant: productionProtected covers the thresholds only. *)
ProtectedUnlessRule(c, action) ==
    /\ check[c].config.productionProtected
    /\ check[c].rule = NoRule
    /\ check[c].account \in Managed
    /\ action \in Destructive

ProtectedDestructive(c, action) ==
    /\ check[c].config.productionProtected
    /\ check[c].account \in Managed
    /\ action \in Destructive

Kill(c, service, action) ==
    [kind |-> "kill", account |-> check[c].account, service |-> service,
     action |-> action, rule |-> check[c].rule,
     edited |-> "config" \in check[c].overtaken]

Due(a) == status[a] = "active" /\ checkAge[a] >= Interval

(* A check that has still to use its copy of the account. *)
Reads(c) == check[c].pc \in {"loaded", "measured", "rules", "acting", "kills"}

(* A cycle reads its accounts; a check may start long after. *)
Load(c, a) ==
    /\ In(c, "idle")
    /\ status[a] # "deleted"
    /\ c \in Crons => Due(a)
    /\ check' = [check EXCEPT ![c] = [Idle EXCEPT
            !.pc = "loaded", !.account = a, !.config = config[a],
            !.alert = lastAlert[a],
            !.overtaken = {x \in {"alert"} :
                \E d \in Checks : In(d, "persist") /\ check[d].account = a}]]
    /\ event' = Quiet
    /\ UNCHANGED <<accountVars, ruleVars, externalVars, boundVars, sent>>

(* provider.checkUsage; without a credential, or when it throws, the check
   ends in error. *)
CheckUsage(c) ==
    LET a == check[c].account IN
    /\ In(c, "loaded")
    /\ \/ /\ status[a] # "deleted"
          /\ check' = [check EXCEPT ![c].pc = "measured", ![c].usage = usage[a]]
          /\ UNCHANGED checkAge
       \/ /\ degraded[a] \/ status[a] = "deleted"
          /\ check' = [check EXCEPT ![c] = Idle]
          /\ checkAge' = [checkAge EXCEPT ![a] = 0]
    /\ event' = Quiet
    /\ UNCHANGED <<status, config, lastAlert, ruleVars, externalVars, boundVars, sent>>

Breaches(u) == u \cap Violations

(* What a check that only has to write its result still knows. *)
Ending(k) == [Idle EXCEPT !.pc = "finish", !.account = k.account]

(* Where a check goes when these rules are left to fire: to the rules, then to
   the breached thresholds, then to its end. *)
Stage(k, rules) ==
    IF rules # {} THEN [k EXCEPT !.pc = "rules", !.rules = rules, !.rule = NoRule]
    ELSE IF Breaches(k.usage) = {} THEN Ending(k)
    ELSE [k EXCEPT !.pc = "kills", !.rules = {}, !.rule = NoRule, !.says = FirstTexts,
                   !.usage = Breaches(@), !.todo = Breaches(k.usage)]

(* Mutant: lastFiredAt is set for every enabled rule that is evaluated. *)
EvaluateTouches(c) ==
    /\ In(c, "measured")
    /\ check' = [check EXCEPT ![c] = Stage([@ EXCEPT !.says = text], Triggered(@.usage))]
    /\ firedAge' = [r \in AllRules |-> IF ruleState[r] = "enabled" THEN 0 ELSE firedAge[r]]
    /\ event' = Quiet
    /\ UNCHANGED <<accountVars, ruleState, text, externalVars, boundVars, sent>>

(* The rules are read and evaluated once. *)
Evaluate(c) ==
    /\ In(c, "measured")
    /\ check' = [check EXCEPT ![c] = Stage([@ EXCEPT !.says = text], Triggered(@.usage))]
    /\ event' = Quiet
    /\ UNCHANGED <<accountVars, ruleVars, externalVars, boundVars, sent>>

(* A triggered rule is marked as fired, before its action. *)
Fire(c, r) ==
    /\ In(c, "rules") /\ r \in check[c].rules
    /\ firedAge' = [firedAge EXCEPT ![r] = 0]
    /\ check' = [d \in Checks |->
            IF d = c THEN [check[c] EXCEPT !.pc = "acting", !.rule = r, !.rules = @ \ {r}]
            ELSE IF r \in check[d].rules
                 THEN [check[d] EXCEPT !.overtaken = @ \cup {r}]
            ELSE check[d]]
    /\ event' = Quiet
    /\ UNCHANGED <<accountVars, ruleState, text, externalVars, boundVars, sent>>

(* getHealth: probed at the first kill site of a check, then remembered. *)
Health(c) ==
    IF check[c].health # "unknown" THEN check[c].health
    ELSE IF degraded[check[c].account] THEN "degraded" ELSE "healthy"

(* The action of a rule that has fired. *)
RuleActs(c) ==
    LET r == check[c].says[check[c].rule] IN
    /\ In(c, "acting")
    /\ event' = IF \/ r.approval
                   \/ Health(c) = "degraded"
                   \/ ProtectedDestructive(c, r.action)
                THEN Quiet ELSE Kill(c, r.target, r.action)
    /\ LET probed == [check[c] EXCEPT !.health = IF r.approval THEN @ ELSE Health(c)] IN
       check' = [check EXCEPT ![c] = Stage(probed, probed.rules)]
    /\ UNCHANGED <<accountVars, ruleVars, externalVars, boundVars, sent>>

Breached(c) == Breaches(check[c].usage)

(* Mutant: with autoDelete set, nothing but a critical breach is acted on. *)
DeleteOrNothing(c, v) ==
    IF check[c].config.autoDelete THEN (IF v \in Critical THEN {"delete"} ELSE {})
    ELSE IF check[c].config.autoDisconnect THEN {"disconnect"} ELSE {}

(* The action a breach calls for, if any: delete, or the provider's default,
   which is none of DESTRUCTIVE_DB_ACTIONS. *)
ThresholdAction(c, v) ==
    IF check[c].config.autoDelete /\ v \in Critical THEN {"delete"}
    ELSE IF check[c].config.autoDisconnect THEN {"disconnect"} ELSE {}

Killable(c, v) ==
    /\ ServiceOf[v] \notin check[c].config.protected
    /\ Category[v] \in check[c].config.categories

(* One violation of the loop over the breached thresholds. *)
ThresholdStep(c, v) ==
    /\ In(c, "kills") /\ v \in check[c].todo
    /\ LET actions == {x \in ThresholdAction(c, v) : ~ProtectedDestructive(c, x)} IN
       event' = IF Health(c) = "degraded" \/ ~Killable(c, v) \/ actions = {}
                THEN Quiet ELSE Kill(c, ServiceOf[v], CHOOSE x \in actions : TRUE)
    /\ check' = [check EXCEPT ![c].todo = @ \ {v}, ![c].health = Health(c)]
    /\ UNCHANGED <<accountVars, ruleVars, externalVars, boundVars, sent>>

Sending(k) ==
    [Idle EXCEPT !.pc = "persist", !.account = k.account, !.usage = k.usage]

(* Same violations as in the copy, within the cooldown.
   Mutant: what was said once is never said again. *)
SaidBefore(c) == check[c].alert.violations = Breached(c)
AlreadyAlerted(c) ==
    /\ check[c].alert.violations = Breached(c)
    /\ check[c].alert.age < AlertCooldown

(* Where there is a channel the alert is given to sendAlerts, unless the copy says
   it was.  sendAlerts returns all the same when no channel is enabled and when
   no service takes the alert. *)
Alert(c) ==
    LET a == check[c].account IN
    /\ In(c, "kills") /\ check[c].todo = {}
    /\ IF channels = "none" \/ AlreadyAlerted(c)
       THEN /\ check' = [check EXCEPT ![c] = Ending(@)]
            /\ event' = Quiet
            /\ UNCHANGED sent
       ELSE /\ check' = [d \in Checks |->
                    IF d = c THEN Sending(check[c])
                    ELSE IF Reads(d) /\ check[d].account = a
                         THEN [check[d] EXCEPT !.overtaken = @ \cup {"alert"}]
                    ELSE check[d]]
            /\ event' = [kind |-> "alert"]
            /\ sent' = [sent EXCEPT ![a] = [violations |-> Breached(c), age |-> 0,
                    kept |-> FALSE, reached |-> channels = "heard"]]
    /\ UNCHANGED <<accountVars, ruleVars, externalVars, boundVars>>

(* History: is what is stored then the last alert that was given away? *)
Keeps(c) ==
    LET s == sent[check[c].account] IN
    s.violations = Breached(c) /\ s.age = check[c].sendAge

(* Mutants: the state of the deduplication is not stored; the cooldown counts
   from the end of the sending. *)
PersistNothing(c) ==
    LET a == check[c].account IN
    /\ In(c, "persist")
    /\ sent' = [sent EXCEPT ![a].kept = Keeps(c)]
    /\ check' = [check EXCEPT ![c] = Ending(@)]
    /\ event' = Quiet
    /\ UNCHANGED <<accountVars, ruleVars, externalVars, boundVars>>
PersistLater(c) ==
    LET a == check[c].account IN
    /\ In(c, "persist")
    /\ lastAlert' = [lastAlert EXCEPT ![a] = [violations |-> Breached(c), age |-> 0]]
    /\ sent' = [sent EXCEPT ![a].kept = Keeps(c)]
    /\ check' = [check EXCEPT ![c] = Ending(@)]
    /\ event' = Quiet
    /\ UNCHANGED <<status, config, checkAge, ruleVars, externalVars, boundVars>>

(* Only then is the state of the deduplication stored. *)
Persist(c) ==
    LET a == check[c].account IN
    /\ In(c, "persist")
    /\ lastAlert' = [lastAlert EXCEPT ![a] =
            [violations |-> Breached(c), age |-> check[c].sendAge]]
    /\ sent' = [sent EXCEPT ![a].kept = Keeps(c)]
    /\ check' = [check EXCEPT ![c] = Ending(@)]
    /\ event' = Quiet
    /\ UNCHANGED <<status, config, checkAge, ruleVars, externalVars, boundVars>>

(* The result is written to the account. *)
Finish(c) ==
    /\ In(c, "finish")
    /\ checkAge' = [checkAge EXCEPT ![check[c].account] = 0]
    /\ check' = [check EXCEPT ![c] = Idle]
    /\ event' = Quiet
    /\ UNCHANGED <<status, config, lastAlert, ruleVars, externalVars, boundVars, sent>>

(* The instance dies in the middle of a check. *)
Crash(c) ==
    /\ ~In(c, "idle") /\ crashes < MaxCrashes
    /\ crashes' = crashes + 1
    /\ check' = [check EXCEPT ![c] = Idle]
    /\ event' = Quiet
    /\ UNCHANGED <<accountVars, ruleVars, externalVars, edits, sent>>

----------------------------------------------------------------------------
(* Operators: PUT /cloud-accounts/:id, PATCH .../credentials and DELETE, the
   rules' toggle, PUT /rules/:ruleId, and POST /rules/agent/trigger with
   autoExecute. *)

Operator ==
    /\ edits < MaxEdits
    /\ edits' = edits + 1
    /\ event' = Quiet
    /\ UNCHANGED <<lastAlert, checkAge, externalVars, crashes, sent>>

Edit(a, k) ==
    /\ Operator
    /\ status[a] # "deleted" /\ config[a] # k
    /\ config' = [config EXCEPT ![a] = k]
    /\ check' = [d \in Checks |->
            IF Reads(d) /\ check[d].account = a
            THEN [check[d] EXCEPT !.overtaken = @ \cup {"config"}] ELSE check[d]]
    /\ UNCHANGED <<status, ruleVars>>

SetStatus(a, s) ==
    /\ Operator
    /\ status[a] # "deleted" /\ status[a] # s
    /\ status' = [status EXCEPT ![a] = s]
    /\ UNCHANGED <<config, ruleVars, check>>

Toggle(r) ==
    /\ Operator
    /\ ruleState[r] # "absent"
    /\ ruleState' = [ruleState EXCEPT ![r] = IF @ = "enabled" THEN "disabled" ELSE "enabled"]
    /\ UNCHANGED <<status, config, firedAge, text, check>>

(* The rule is replaced by what the request holds, lastFiredAt included: any
   time, or none. *)
PutRule(r, t, age) ==
    /\ Operator
    /\ ruleState[r] # "absent"
    /\ text' = [text EXCEPT ![r] = t]
    /\ firedAge' = [firedAge EXCEPT ![r] = age]
    /\ check' = [d \in Checks |->
            IF r \in check[d].rules
            THEN [check[d] EXCEPT !.overtaken = @ \cup {r}] ELSE check[d]]
    /\ UNCHANGED <<status, config, ruleState>>

AgentTrigger(r) ==
    /\ Operator
    /\ r \in AgentRules /\ ruleState[r] = "absent"
    /\ ruleState' = [ruleState EXCEPT ![r] = "enabled"]
    /\ UNCHANGED <<status, config, firedAge, text, check>>

----------------------------------------------------------------------------
(* The provider's side, the alert channels, and time. *)

UsageChanges(a, u) ==
    /\ usage' = [usage EXCEPT ![a] = u]
    /\ event' = Quiet
    /\ UNCHANGED <<accountVars, ruleVars, degraded, channels, check, boundVars, sent>>

HealthChanges(a) ==
    /\ MayDegrade
    /\ degraded' = [degraded EXCEPT ![a] = ~@]
    /\ event' = Quiet
    /\ UNCHANGED <<accountVars, ruleVars, usage, channels, check, boundVars, sent>>

(* PUT /alerts/channels, and the services behind the channels. *)
ChannelsChange(x) ==
    /\ channels' = x
    /\ event' = Quiet
    /\ UNCHANGED <<accountVars, ruleVars, usage, degraded, check, boundVars, sent>>

Older(age, cap) == IF age < cap THEN age + 1 ELSE age

Tick ==
    /\ lastAlert' = [a \in Accounts |->
            [lastAlert[a] EXCEPT !.age = Older(@, AlertCooldown)]]
    /\ checkAge' = [a \in Accounts |-> Older(checkAge[a], Interval)]
    /\ firedAge' = [r \in AllRules |-> Older(firedAge[r], RuleCooldown)]
    /\ check' = [c \in Checks |-> 
            [check[c] EXCEPT
                !.alert.age = IF Reads(c) THEN Older(@, AlertCooldown) ELSE @,
                !.sendAge   = IF In(c, "persist") THEN Older(@, AlertCooldown) ELSE @]]
    /\ sent' = [a \in Accounts |-> [sent[a] EXCEPT !.age = Older(@, AlertCooldown)]]
    /\ event' = Quiet
    /\ UNCHANGED <<status, config, ruleState, text, externalVars, boundVars>>

CheckSteps(c) ==
    \/ CheckUsage(c) \/ Evaluate(c) \/ (\E r \in AllRules : Fire(c, r))
    \/ RuleActs(c)
    \/ (\E v \in Violations : ThresholdStep(c, v))
    \/ Alert(c) \/ Persist(c) \/ Finish(c)

Operates ==
    \/ \E a \in Accounts, k \in Configs : Edit(a, k)
    \/ \E a \in Accounts, s \in {"active", "paused", "deleted"} : SetStatus(a, s)
    \/ \E r \in AllRules : Toggle(r) \/ AgentTrigger(r)
    \/ \E r \in AllRules, t \in Texts, age \in 0..RuleCooldown : PutRule(r, t, age)

Outside ==
    \/ \E a \in Accounts : HealthChanges(a) \/ \E u \in UsageLevels : UsageChanges(a, u)
    \/ \E x \in ChannelStates : ChannelsChange(x)
    \/ Tick

Next ==
    \/ \E c \in Checks :
        (\E a \in Accounts : Load(c, a)) \/ CheckSteps(c) \/ Crash(c)
    \/ Operates
    \/ Outside

Spec == Init /\ [][Next]_vars

(* node-cron starts the cycles, the checks they began go on, and time passes. *)
Fairness ==
    /\ WF_vars(Tick)
    /\ \A c \in Checks : WF_vars(CheckSteps(c))
    /\ \A c \in Crons : WF_vars(\E a \in Accounts : Load(c, a))

FairSpec == Spec /\ Fairness

----------------------------------------------------------------------------
(* Properties *)

(* "Cooldown periods (don't re-fire within N minutes)": a rule fires within the
   cooldown of its lastFiredAt only if another check fired it, or a PUT wrote
   that time, after this one evaluated it. *)
RuleCooldownInTurn ==
    [][\A c \in Checks, r \in AllRules :
        In(c, "rules") /\ check'[c].rule = r =>
            ~(firedAge[r] < RuleCooldown) \/ r \in check[c].overtaken]_vars

(* An alert with the same violations as the last one of the account is given to
   the channels again within the cooldown only after a crash that lost the record of it, or
   when another check alerted after this one read the account. *)
Alerting(c) == In(c, "kills") /\ check'[c].pc = "persist"
Undisturbed(c) ==
    sent[check[c].account].kept /\ "alert" \notin check[c].overtaken
LastSent(c) ==
    LET s == sent[check[c].account] IN
    s.violations = Breached(c) /\ s.age < AlertCooldown
AlertsNotRepeated ==
    [][\A c \in Checks : Alerting(c) /\ Undisturbed(c) => ~LastSent(c)]_vars

(* And a check that breached gives the channels nothing only if there is none, or
   if the last alert they were given said the same, less than a cooldown ago.
   That one may have reached nobody: the code records it as sent all the same. *)
NoSilentBreach ==
    [][\A c \in Checks :
        In(c, "kills") /\ check'[c].pc = "finish" /\ Undisturbed(c)
        => channels = "none" \/ LastSent(c)]_vars

(* What was lost is made up for: while a breach lasts, and the channels are heard
   from some time on, somebody is told of it again and again. *)
Told(a) ==
    /\ \E c \in Checks : In(c, "persist") /\ check[c].account = a
    /\ sent[a].reached
BreachIsReported ==
    \A a \in Accounts :
        <>[](/\ status[a] = "active" /\ ~degraded[a]
             /\ Breaches(usage[a]) # {} /\ channels = "heard")
        => []<>Told(a)

(* "would the rule, *as saved*, actually fire right now?": for a rule that is
   enabled and has conditions, the preflight and a check that evaluates it on the
   same usage agree, for as long as the provider is well and no approval is asked
   for.  (One whose conditions a PUT took away the preflight refuses, while a
   check fires it whenever it joins them by "all".) *)
PreflightForetells ==
    [][\A c \in Checks, r \in AllRules :
        LET a == check[c].account IN
        /\ In(c, "measured") /\ check'[c].pc \notin {"idle", "measured"}
        /\ check[c].usage = usage[a] /\ status[a] = "active" /\ ~degraded[a]
        /\ ruleState[r] = "enabled" /\ ~text[r].approval /\ text[r].conditions # {}
        => (WouldFire(a, r) <=> r \in check'[c].rules)]_vars

(* "irreversible/outage-causing actions on managed databases ... are NEVER
   auto-executed - not by a threshold kill, and not by an explicit rule", unless
   the settings were changed while the check ran. *)
ProductionStands ==
    event \in Kills /\ event.account \in Managed /\ event.action \in Destructive
        /\ ~event.edited
    => ~config[event.account].productionProtected

(* A threshold kills what the operator's settings let it kill. *)
ThresholdKillsObey ==
    event \in Kills /\ event.rule = NoRule /\ ~event.edited =>
        LET k == config[event.account] IN
        /\ event.service \notin k.protected
        /\ \E v \in Violations : ServiceOf[v] = event.service /\ Category[v] \in k.categories
        /\ IF event.action = "delete" THEN k.autoDelete ELSE k.autoDisconnect

(* A breach the settings let the engine kill is acted on again and again for as
   long as it lasts and the provider is well. *)
Calls(a, v) ==
    /\ status[a] = "active" /\ ~degraded[a] /\ v \in usage[a]
    /\ config[a].autoDisconnect /\ ServiceOf[v] \notin config[a].protected
    /\ Category[v] \in config[a].categories
    /\ ~(a \in Managed /\ config[a].productionProtected /\ config[a].autoDelete
           /\ v \in Critical)
ActedOn(a, v) ==
    event \in Kills /\ event.account = a /\ event.service = ServiceOf[v]
        /\ event.rule = NoRule
BreachIsActedOn ==
    \A a \in Accounts, v \in Violations : <>[]Calls(a, v) => []<>ActedOn(a, v)

(* A rule that stays enabled and whose conditions keep holding fires again and
   again: its cooldown ends. *)
RuleKeepsFiring ==
    \A a \in Accounts, r \in AllRules :
        <>[](/\ status[a] = "active" /\ ~degraded[a]
             /\ ruleState[r] = "enabled" /\ Matches(r, usage[a]))
        => []<>(\E c \in Checks : In(c, "acting") /\ check[c].rule = r)
=============================================================================
