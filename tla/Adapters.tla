------------------------------- MODULE Adapters -------------------------------
(***************************************************************************)
(* One resource of a customer and the code that watches and stops it:      *)
(* through its provider's adapter (connect, check, kill) for most kinds of *)
(* resource, through budget alerts for those an edge function guards.      *)
(* Requests are refused or their answers lost, the credential may stop     *)
(* working, the owner starts things again, and the instance that runs the  *)
(* code may die between two requests.                                      *)
(***************************************************************************)
EXTENDS CloudAdapters, DataAdapters, ComputeAdapters, FiniteSets

CONSTANTS
    Targets,        \* the kinds of resource looked at
    Actions,        \* kill actions that rules and operators may ask for
    Configs,        \* settings of the cloud account
    Usages,         \* how far the usage may go: subset of {"warning", "critical"}
    MaxFaults,      \* bound: requests that fail, and instances that die
    MaxRestarts,    \* bound: times the owner starts the resource again
    MaxCalls,       \* bound: kills asked for outside the engine
    MaxMail         \* bound: budget alerts waiting to be handled

Kinds == CfKinds \cup GcpKinds \cup AwsKinds \cup DataKinds \cup ComputeKinds

ASSUME AdapterConstantsOK ==
    /\ Targets \subseteq Kinds /\ Usages \subseteq {"warning", "critical"}
    /\ Configs \subseteq [auto : BOOLEAN, delete : BOOLEAN, all : BOOLEAN, role : BOOLEAN]
    /\ MaxFaults \in Nat /\ MaxRestarts \in Nat /\ MaxCalls \in Nat /\ MaxMail \in Nat

(* The levers of a kind: while one of them is up the resource costs money. *)
(* A worker is reached by its own address, by custom domains and by the    *)
(* routes of a zone; a cluster of GKE may have pools besides the default.  *)
Levers(kind) ==
    CASE kind = "worker" -> {"subdomain", "route", "a", "b"}
      [] kind = "gke"    -> {"run", "b"}
      [] kind = "bq"     -> {"queries"}
      [] kind = "zone"   -> {"a", "run"}
      [] kind \in {"neon", "mongo"} \cup SelfHosted \cup JobKinds -> {"a", "b"}
      [] kind = "edge-gcp"     -> {"svc", "svcP", "vm", "vmP", "fn", "fnP"}
      [] kind = "edge-aws"     -> {"svc", "svcP", "vm", "vmP", "fn", "fnP", "endpoint"}
      [] kind = "edge-nuclear" -> {"billing"}
      [] OTHER -> {"run"}
OtherParts(kind) ==
    CASE kind = "mongo" -> {"run"}
      [] kind \in SelfHosted -> {"memory"}
      [] kind = "atlas" -> {"size", "a", "b"}
      [] kind = "elasticache" -> {"size", "unsaved"}
      [] kind = "elasticache-alone" -> {"unsaved"}
      [] kind \in {"snowflake", "aura", "redis-cloud"} -> {"size"}
      [] OTHER -> {}
Parts(kind) == Levers(kind) \cup OtherParts(kind) \cup {"data", "self"}
Protected   == {"svcP", "vmP", "fnP"}

(* What a usage result goes on saying when the resource has been stopped:  *)
(* nothing, since stopped resources are not listed; the day's total; or a  *)
(* setting (the maximum instance count of a stopped service is reported as *)
(* 100, a node pool's initial node count does not change).                 *)
Lingers(kind) ==
    CASE kind \in CfKinds \cup LlmKinds \cup JobKinds \cup EdgeKinds \cup
                  {"bq", "all-services", "aws-cost", "snowflake", "neon", "neon-billing"} -> "day"
      [] kind \in {"cloud-run", "gcf", "gke", "gke-afar", "lambda", "lambda-all", "aura", "volume"} ->
            "setting"
      [] OTHER -> "no"
CostKinds == {"all-services", "aws-cost", "runpod-cost", "neon-billing", "snowflake"} \cup JobKinds

(* getDefaultKillAction, isProtectedDestructive *)
DefaultKillAction(kind) ==
    CASE kind \in CfKinds  -> "disconnect"
      [] kind \in AwsKinds -> "stop-instances"
      [] kind \in RunpodKinds -> "stop-pod"
      [] kind \in AtlasKinds \cup MongoKinds \cup RedisKinds -> "kill-connections"
      [] kind \in LlmKinds -> "rotate-creds"
      [] kind \in GcpKinds \cup NeonKinds \cup JobKinds \cup {"snowflake"} -> "scale-down"
      [] OTHER -> "disconnect"
IsProtectedDestructive(kind, action) ==
    kind \in DataKinds /\ action \in {"pause-cluster", "delete", "flush-redis"}

KillProgram(kind, action, role) ==
    CASE kind \in CfKinds     -> CloudflareKill(kind, action)
      [] kind \in GcpKinds    -> GcpKill(kind, action)
      [] kind \in AwsKinds    -> AwsKill(kind, action, role)
      [] kind \in AtlasKinds \cup MongoKinds -> MongodbKill(kind, action)
      [] kind \in RedisKinds  -> RedisKill(kind, action)
      [] kind \in Neo4jKinds  -> Neo4jKill(kind, action)
      [] kind \in NeonKinds   -> NeonKill(kind, action)
      [] kind \in RunpodKinds -> RunpodKill(kind, action)
      [] kind = "vercel"      -> VercelKill(action)
      [] kind = "replicate"   -> ReplicateKill(action)
      [] kind = "snowflake"   -> SnowflakeKill(action)
      [] kind = "openai"      -> OpenaiKill(action)
      [] kind = "anthropic"   -> AnthropicKill(action)
      [] kind = "xai"         -> XaiKill(action)
      [] kind = "datadog"     -> DatadogKill(action)
      [] kind \in {"edge-gcp", "edge-nuclear"} -> KillSwitchGcp(kind)
      [] OTHER                -> KillSwitchAws

CheckUsage(kind, role) ==
    CASE kind \in CfKinds     -> CloudflareUsage
      [] kind \in GcpKinds    -> GcpUsage
      [] kind \in AwsKinds    -> AwsUsage(role)
      [] kind \in AtlasKinds \cup MongoKinds -> MongodbUsage(kind)
      [] kind \in RedisKinds  -> RedisUsage(kind)
      [] kind \in Neo4jKinds  -> Neo4jUsage
      [] kind \in NeonKinds   -> NeonUsage
      [] kind \in RunpodKinds -> RunpodUsage
      [] kind = "vercel"      -> VercelUsage
      [] kind = "replicate"   -> ReplicateUsage
      [] kind = "snowflake"   -> SnowflakeUsage
      [] kind = "openai"      -> OpenaiUsage
      [] kind = "anthropic"   -> AnthropicUsage
      [] kind = "xai"         -> XaiUsage
      [] kind = "datadog"     -> DatadogUsage
      [] OTHER                -> DailyRateWatcher

ValidateCredential(kind) ==
    CASE kind \in CfKinds     -> CloudflareValidate
      [] kind \in GcpKinds    -> GcpValidate
      [] kind \in AwsKinds    -> AwsValidate
      [] kind \in AtlasKinds \cup MongoKinds -> MongodbValidate
      [] kind \in RedisKinds  -> RedisValidate
      [] kind \in Neo4jKinds  -> Neo4jValidate
      [] kind \in NeonKinds   -> NeonValidate
      [] kind \in RunpodKinds -> RunpodValidate
      [] kind = "vercel"      -> VercelValidate
      [] kind = "replicate"   -> ReplicateValidate
      [] kind = "snowflake"   -> SnowflakeValidate
      [] kind = "openai"      -> OpenaiValidate
      [] kind = "anthropic"   -> AnthropicValidate
      [] kind = "xai"         -> XaiValidate
      [] OTHER                -> DatadogValidate

(* Only three adapters have a checkHealth. *)
CheckHealth(kind) ==
    CASE kind \in CfKinds  -> <<CloudflareHealth>>
      [] kind \in GcpKinds -> <<GcpHealth>>
      [] kind \in AwsKinds -> <<AwsHealth>>
      [] OTHER             -> <<>>
(* The tables, made once. *)
AnyAction == Actions \cup {DefaultKillAction(k) : k \in Targets} \cup {"delete", "sweep", "none"}
KillPrograms == [k \in Targets |-> [a \in AnyAction |-> [r \in BOOLEAN |-> KillProgram(k, a, r)]]]

(* What a credential may do: a "blind" token everything but read the       *)
(* account's analytics.                                                    *)
Credentials == {"good", "blind", "revoked"}
Permits(credential, step) ==
    credential = "good" \/ (credential = "blind" /\ step.does # "graphql")

HandlerFor(step, outcome) ==
    CASE outcome = "done"   -> step.ok
      [] outcome = "denied" -> step.auth
      [] outcome \in {"refused", "gone"} -> step.refused
      [] OTHER              -> step.lost

(* A query that the one before it makes unnecessary is not asked; none     *)
(* that may be unnecessary makes another one so.                           *)
Asked(queries, outcome, i) ==
    i = 1 \/ HandlerFor(queries[i - 1], outcome[i - 1]) # "skip"

(* What the queries of a check come to: whether an exception leaves        *)
(* checkUsage, and whether the target's usage is among the results.        *)
AnswerWith(queries, outcome) ==
    [threw |-> {HandlerFor(queries[i], outcome[i]) : i \in
                   {j \in DOMAIN queries : Asked(queries, outcome, j)}},
     seen  |-> UNION {queries[i].of : i \in {j \in DOMAIN queries :
                  queries[j].does # "act" /\ Asked(queries, outcome, j) /\ outcome[j] = "done"}}]
AnswersOf(kind, queries, credential) ==
    LET usual(i) == IF Permits(credential, queries[i]) THEN "done" ELSE "denied"
    IN {LET answer == AnswerWith(queries, [i \in DOMAIN queries |-> IF i = bad THEN how ELSE usual(i)])
        IN [threw |-> "throw" \in answer.threw, seen |-> kind \in answer.seen, failed |-> bad # 0] :
            bad \in DOMAIN queries \cup {0}, how \in {"refused", "lost"}}
Answers == [k \in Targets |-> [r \in BOOLEAN |-> [c \in Credentials |->
                AnswersOf(k, CheckUsage(k, r), c)]]]
-------------------------------------------------------------------------------
VARIABLES
    target,     \* the kind of resource
    config,     \* the settings of its account
    account,    \* whether the cloud account has been connected
    cred,       \* external: "good", "blind" (lacks the analytics right) or "revoked"
    live,       \* external: the parts of the resource that are up
    usage,      \* external: how far the usage is over the threshold
    check,      \* what the last check came to
    call,       \* the kill in progress, and what it came to
    mail,       \* budget alerts that wait for an edge function
    faults, restarts, asked     \* counters of the bounds

vars == <<target, config, account, cred, live, usage, check, call, mail, faults, restarts,
          asked>>
env  == <<target, config, account, cred, usage, restarts>>

Edge == target \in EdgeKinds
NoCheck == [saw |-> "calm", by |-> "none", blind |-> FALSE]
NoCall  == [action |-> "none", step |-> 0, todo |-> {}, listed |-> {}, accepted |-> {},
            trouble |-> {}, hurt |-> FALSE, result |-> "none"]

Init ==
    /\ target \in Targets
    /\ config \in Configs /\ (config.role => target \in AwsKinds)
    /\ account = IF Edge THEN "connected" ELSE "absent"
    /\ cred = "good"
    /\ live = Parts(target)
    /\ usage = "calm"
    /\ check = NoCheck /\ call = NoCall /\ mail = 0
    /\ faults = 0 /\ restarts = 0 /\ asked = 0

Running == live \cap Levers(target) # {}
Exists  == "self" \in live
Reported == IF Running \/ Lingers(target) # "no" THEN usage ELSE "calm"

(***************************** the provider ********************************)
Authorised(step) == Permits(cred, step)

(* A request about something that is not there is refused. *)
Found(step) ==
    \/ step.does \in {"query", "graphql"}
    \/ step.does \in {"list", "each", "batch"} /\ Exists
    \/ step.does = "act" /\ target \in step.of /\ Exists

(* What may become of a request: done; refused, as it must be when it is   *)
(* not authorised or its object is gone, and may be otherwise; or lost.    *)
Outcomes(step) ==
    (IF Authorised(step) /\ Found(step) THEN {"done"} ELSE {IF Authorised(step) THEN "gone" ELSE "denied"})
    \cup (IF faults < MaxFaults THEN {"refused", "lost"} ELSE {})
Spend(outcome) == faults' = IF outcome \in {"refused", "lost"} THEN faults + 1 ELSE faults

(****************************** connecting *********************************)
(* POST /cloud-accounts validates the credential before it stores it.      *)
Connect ==
    /\ account = "absent"
    /\ \E o \in Outcomes([ValidateCredential(target) EXCEPT !.of = {target}]) :
        /\ account' = IF HandlerFor(ValidateCredential(target), o) \in {"next", "true"}
                      THEN "connected" ELSE "absent"
        /\ Spend(o)
    /\ UNCHANGED <<target, config, cred, live, usage, check, call, mail, restarts, asked>>

(****************************** checking ***********************************)
Idle == call.step = 0

(* checkUsage sends its queries together (Promise.all), or one after the   *)
(* other within moments: they see one state.  At most one of them fails    *)
(* for no reason of ours.                                                  *)
Check ==
    /\ Idle /\ account = "connected" /\ target # "edge-aws" /\ check.by # "violation"
    /\ \E answer \in Answers[target][config.role][cred] :
        LET saw == IF answer.seen THEN Reported ELSE "calm"
        IN /\ answer.failed => faults < MaxFaults
           /\ faults' = IF answer.failed THEN faults + 1 ELSE faults
           /\ check' = [saw |-> saw, blind |-> cred # "good",
                        by |-> CASE answer.threw -> "error"
                                 [] ~answer.threw /\ saw = "calm" -> "clear"
                                 [] OTHER -> "violation"]
    /\ call' = NoCall
    /\ UNCHANGED <<env, live, mail, asked>>

(* dailyRateWatcher publishes a breach; when the answer is lost the alert  *)
(* may be out, and the retry publishes it again.                           *)
Publish ==
    /\ Edge /\ Idle /\ check.by = "violation" /\ mail < MaxMail
    /\ \E o \in {"done"} \cup (IF faults < MaxFaults THEN {"refused", "lost"} ELSE {}) :
        /\ mail' \in CASE o = "done" -> {mail + 1} [] o = "lost" -> {mail, mail + 1} [] OTHER -> {mail}
        /\ check' = IF o = "done" THEN NoCheck ELSE [check EXCEPT !.by = "error"]
        /\ Spend(o)
    /\ UNCHANGED <<env, live, call, asked>>

(* The budget's own alerts: one per notification, at either level. *)
BudgetAlert ==
    /\ Edge /\ usage # "calm" /\ mail < MaxMail /\ asked < MaxCalls
    /\ mail' = mail + 1 /\ asked' = asked + 1
    /\ UNCHANGED <<env, live, check, call, faults>>

(******************************* killing ***********************************)
Begin(action) == call' = [NoCall EXCEPT !.action = action, !.step = 1, !.result = "running"]

(* The engine acts on a violation: not when its category is alert-only or  *)
(* the action is blocked for a protected database, and not when a probe    *)
(* finds the provider's API unwell.                                        *)
EngineAction ==
    IF config.delete /\ check.saw = "critical" THEN "delete" ELSE DefaultKillAction(target)
Killable ==
    /\ config.all \/ target \in CostKinds
    /\ config.auto \/ (config.delete /\ check.saw = "critical")
    /\ ~IsProtectedDestructive(target, EngineAction)
EngineKill ==
    /\ Idle /\ ~Edge /\ check.by = "violation"
    /\ check' = NoCheck
    /\ \E o \in IF CheckHealth(target) = <<>> \/ ~Killable THEN {"done"}
                ELSE Outcomes([CheckHealth(target)[1] EXCEPT !.of = {target}]) :
        /\ Spend(o)
        /\ IF Killable /\ o \in {"done", "gone"}
           THEN Begin(EngineAction)
           ELSE UNCHANGED call
    /\ UNCHANGED <<env, live, mail, asked>>

(* A rule, an operator or the proxy asks for an action by name. *)
AskKill(action) ==
    /\ Idle /\ ~Edge /\ account = "connected" /\ asked < MaxCalls
    /\ asked' = asked + 1
    /\ Begin(action)
    /\ UNCHANGED <<env, live, check, mail, faults>>

(* An edge function is given an alert; below the threshold it only pages. *)
Deliver ==
    /\ Edge /\ call.step = 0 /\ mail > 0
    /\ mail' = mail - 1
    /\ IF usage = "critical" THEN Begin("sweep")
       ELSE UNCHANGED call
    /\ UNCHANGED <<env, live, check, faults, asked>>

Doing   == KillPrograms[target][call.action][config.role]
Current == Doing.steps[call.step]
(* What the request takes away when the provider carries it out. *)
Removes(step, item) ==
    CASE step.does = "act"  -> step.removes
      [] step.does = "list" -> {}
      [] OTHER              -> item
Items(step) ==
    CASE step.does = "each"  -> {{p} : p \in call.todo}
      [] step.does = "batch" -> {call.todo}
      [] OTHER               -> {{}}

Said ==     \* success, as executeKillSwitch computes it at its end
    CASE Doing.says = "always" -> "success"
      [] Doing.says = "never"  -> "failure"
      [] OTHER                 ->      \* "some"
            IF call.listed = {} \/ call.accepted # {} THEN "success" ELSE "failure"
ResultOf(handler) ==
    CASE handler = "true" -> "success" [] handler = "false" -> "failure" [] OTHER -> "threw"

(* Every step behind, or nothing to do in the first place. *)
EndKill ==
    /\ call.step > 0 /\ call.step > Len(Doing.steps)
    /\ call' = [call EXCEPT !.step = 0, !.result = Said]
    /\ UNCHANGED <<env, live, check, mail, faults, asked>>

NothingListed ==
    /\ call.step > 0 /\ call.step \in DOMAIN Doing.steps
    /\ Current.does \in {"each", "batch"} /\ call.todo = {}
    /\ call' = [call EXCEPT !.step = @ + 1]
    /\ UNCHANGED <<env, live, check, mail, faults, asked>>

(* What a request changes: when its answer is lost it may have been done. *)
Effects(step, item, o) ==
    CASE o = "done" -> {Removes(step, item)}
      [] o = "lost" -> {{}, IF Found(step) /\ Authorised(step) THEN Removes(step, item) ELSE {}}
      [] OTHER      -> {{}}
(* What is left to be taken down after a request. *)
LeftOver(step, item, o) ==
    IF step.does = "list"
    THEN IF o = "done" THEN (step.removes \cap live) \ Protected ELSE {}
    ELSE call.todo \ item
Over(handler) == handler \in {"true", "false", "throw"}

Answered(step, item, o, lost) ==
    LET then == HandlerFor(step, o)
        left == LeftOver(step, item, o)
    IN [call EXCEPT
            !.todo = left,
            !.listed = IF step.does = "list" THEN left ELSE @,
            !.accepted = IF o = "done" THEN @ \cup item ELSE @,
            !.hurt = @ \/ lost,
            !.trouble = IF o = "done" THEN @ ELSE @ \cup {o},
            !.step = IF Over(then) THEN 0 ELSE IF step.does = "each" /\ left # {} THEN @ ELSE @ + 1,
            !.result = IF Over(then) THEN ResultOf(then) ELSE @]

(* One request of a kill. *)
Request ==
    /\ call.step > 0 /\ call.step \in DOMAIN Doing.steps
    /\ \E item \in Items(Current), o \in Outcomes(Current) :
       \E effect \in Effects(Current, item, o) :
        /\ live' = live \ effect
        /\ call' = Answered(Current, item, o, "data" \in effect \cap live)
        /\ Spend(o)
    /\ UNCHANGED <<env, check, mail, asked>>

(* The instance dies in the middle of a kill; an alert it was working on   *)
(* may be delivered again.  (A check that dies leaves nothing behind.)     *)
Die ==
    /\ call.step > 0 /\ faults < MaxFaults
    /\ faults' = faults + 1
    /\ check' = NoCheck
    /\ call' = NoCall
    /\ mail' \in IF Edge /\ mail < MaxMail THEN {mail, mail + 1} ELSE {mail}
    /\ UNCHANGED <<env, live, asked>>

(*********************** the owner and the outside *************************)
Surge ==
    /\ usage = "calm" /\ Running
    /\ usage' \in Usages
    /\ UNCHANGED <<target, config, account, cred, live, check, call, mail, faults, restarts, asked>>
(* A new day clears the day's totals of what no longer runs. *)
NewDay ==
    /\ usage # "calm" /\ ~Running /\ Lingers(target) # "setting"
    /\ usage' = "calm"
    /\ UNCHANGED <<target, config, account, cred, live, check, call, mail, faults, restarts, asked>>
Restart ==
    /\ restarts < MaxRestarts /\ Exists /\ live # Parts(target)
    /\ restarts' = restarts + 1
    /\ live' = live \cup Levers(target)
    /\ call' = IF call = NoCall THEN call ELSE [call EXCEPT !.trouble = @ \cup {"restarted"}]
    /\ UNCHANGED <<target, config, account, cred, usage, check, mail, faults, asked>>
Revoke ==
    /\ cred = "good"
    /\ cred' \in {"revoked"} \cup (IF target \in CfKinds THEN {"blind"} ELSE {})
    /\ UNCHANGED <<target, config, account, live, usage, check, call, mail, faults, restarts, asked>>

Work == Publish \/ EngineKill \/ Deliver \/ EndKill \/ NothingListed \/ Request
Next ==
    \/ Connect \/ Check \/ Work \/ Die
    \/ \E action \in Actions : AskKill(action)
    \/ BudgetAlert \/ Surge \/ NewDay \/ Restart \/ Revoke
Spec == Init /\ [][Next]_vars
(* Cron and Scheduler start checks again and again, and what was begun     *)
(* goes on; nothing makes an owner or an operator act.                     *)
FairSpec == Spec /\ WF_vars(Check) /\ WF_vars(Work)
-------------------------------------------------------------------------------
(***************************** properties **********************************)
TypeOK ==
    /\ target \in Targets /\ config \in Configs /\ account \in {"absent", "connected"}
    /\ cred \in {"good", "blind", "revoked"} /\ usage \in Usages \cup {"calm"}
    /\ live \subseteq Parts(target) /\ mail \in 0..MaxMail
    /\ check.by \in {"none", "clear", "violation", "error"}
    /\ call.result \in {"none", "running", "success", "failure", "threw"}
    /\ (call.result = "running") = (call.step > 0)

(* A kill reported as a success has taken down everything it was meant to, *)
(* whichever requests were refused or lost on the way, and of the resource *)
(* nothing runs but what is Unreached: in the adapters whose requests are  *)
(* best effort only when none was refused or lost.  A success for          *)
(* "all-services", and a query quota set on account of another service,    *)
(* stop nothing: GcpKill reports them so.                                  *)
AccountWide == target = "all-services" \/ call.action = "set-quota"
BestEffort  == target \in Workers \cup AtlasKinds \cup MongoKinds \cup SelfHosted \cup JobKinds \cup EdgeKinds

(* The levers that a success leaves up: the comment on "disconnect" says   *)
(* that it removes routes, and a zone's routes to a worker stay; GKE is    *)
(* scaled by its default pool alone; of a zone one lever is pulled at a    *)
(* time; and the actions that shrink or empty a store do not stop it.      *)
Unreached(kind, action) ==
    CASE kind = "worker" /\ action # "delete"       -> {"route"}
      [] kind = "gke" /\ action # "disable-billing" -> {"b"}
      [] kind = "zone"  -> IF action = "disconnect" THEN {"run"} ELSE {"a"}
      [] kind = "mongo" /\ action = "delete" -> {"a", "b"}
      [] kind \in (DataKinds \ NeonKinds) \cup {"snowflake"}
            /\ action \in {"scale-down", "isolate", "flush-redis"} -> {"run", "a", "b"}
      [] OTHER -> {}

SuccessIsReal ==
    call.result = "success" /\ ~AccountWide
            /\ (call.trouble = {} \/ (~BestEffort /\ "restarted" \notin call.trouble)) =>
        /\ Effect(Doing) \cap Parts(target) # {}
        /\ Effect(Doing) \cap live \subseteq Protected
        /\ live \cap Levers(target) \subseteq Protected \cup Unreached(target, call.action)

(* A kill that is reported as failed has destroyed no data, unless the     *)
(* answer to the request that did was lost: in every adapter the request   *)
(* that destroys is the last one.  But for a Redis that evicts already:    *)
(* there the first of the two commands destroys, and the second may fail.  *)
FailureKeepsData ==
    call.hurt /\ call.result \in {"failure", "threw"} =>
        "lost" \in call.trouble \/ target = "redis-evicting"

(* An ElastiCache cluster is not deleted before a snapshot of it exists.   *)
SavedBeforeGone == target \in CacheKinds /\ ~Exists => "unsaved" \notin live

(* So a kill gives data up only for what it was asked to do, and reports   *)
(* it: not on the way to a failure, and not before it has been saved.      *)
NoDataLostInVain == FailureKeepsData /\ SavedBeforeGone

(* A check that was begun with a credential that no longer works, or lacks *)
(* the analytics right, does not end in "all clear": the comment on        *)
(* CfGraphQLError asks it of Cloudflare.  AWS with static keys and RunPod  *)
(* swallow every failure.                                                  *)
Swallows == target \in RunpodKinds \/ (target \in AwsKinds /\ ~config.role)
BlindIsLoud == check.by = "clear" /\ check.blind => Swallows

(* The kinds that a check lists under a name the default action can do     *)
(* something with.  The others are listed by a name where the request      *)
(* takes an id (d1, queue, gke-afar), as a sum over a service ("...-all",  *)
(* "videos", the costs), or the default action is none of theirs.          *)
Stoppable ==
    {"worker", "r2", "d1-id", "stream", "cloud-run", "compute", "gke", "bq", "gcf", "ec2", "rds",
     "mongo", "redis", "redis-evicting", "neon", "pod", "vercel", "replicate"}

(* Of these, when the account lets the engine act on the category, a       *)
(* breach is stopped in the end, but for the levers that are Unreached.    *)
Engaged == account = "connected" /\ config.auto /\ ~config.delete /\ (config.all \/ target \in CostKinds)
BreachIsStopped ==
    (usage # "calm" /\ target \in Stoppable /\ Engaged)
        ~> (\/ live \cap Levers(target) \subseteq Unreached(target, DefaultKillAction(target))
            \/ usage = "calm" \/ cred # "good")
===============================================================================
