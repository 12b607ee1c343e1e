-------------------------------- MODULE CfCheck --------------------------------
(***************************************************************************)
(* The usage check of the Cloudflare kill-switch worker: what it can read  *)
(* of today's usage, what it kills, and whom it tells.  It runs after the  *)
(* uptime check on the six-hour cron, and on GET /check.  How a script is  *)
(* disconnected and brought back is CfDisconnect.                          *)
(* External: Cloudflare, its KV, and the alert destinations.  A check ends *)
(* well before the next tick of the cron, and before midnight.             *)
(***************************************************************************)
EXTENDS Integers, FiniteSets

CONSTANTS
    Confs,          \* its configurations: [autoDelete, autoDisconnect, kv, to, spare, has]
    Used,           \* resources
    DataSet,        \* the dataset in which each one's usage is
    Plain,          \* its name with every run of digits made a "#"
    Cooldown,       \* ALERT_COOLDOWN_SECONDS, in ticks of the cron
    Manual,         \* bound: GET /check requests
    Faults          \* bound: requests that fail

Core     == {"do", "worker", "r2", "d1"}                        \* coreQuery
Extended == {"ai", "gateway", "vectorize"}                      \* extendedQuery
Rank     == [do |-> 1, worker |-> 2, r2 |-> 3, d1 |-> 4]        \* order of the loops
Checks   == {"cron", "manual"}

ASSUME CfCheckConstantsOK ==
    /\ IsFiniteSet(Used) /\ "analytics" \notin Used
    /\ DataSet \in [Used -> Core \cup Extended] /\ DOMAIN Plain = Used
    /\ Confs \subseteq [autoDelete : BOOLEAN, autoDisconnect : BOOLEAN,
                        kv : BOOLEAN,     \* ALERT_STATE is bound
                        to : SUBSET {"pager", "hooks"},
                        spare : SUBSET Used,  \* PROTECTED_WORKERS, PROTECTED_RESOURCES
                        has : SUBSET Used]    \* external: what the account has
    /\ Cooldown \in Nat \ {0} /\ Manual \in Nat /\ Faults \in Nat

VARIABLES
    conf,           \* the worker's variables and bindings
    usage,          \* external: today's usage per resource: "ok", "alert", "kill"
    standing,       \* external: the resource: "up", "cut" (disconnected), "deleted"
    kv,             \* KV alert:<signature>: [sig, age]
    told,           \* history: violations the operator was told of, as long as a key stands for it
    check,          \* per check, what it has read and has still to do
    hist            \* [manual, faults]: bounds; [lapses]: history

vars == <<conf, usage, standing, kv, told, check, hist>>

Resting == [at |-> "rest", was |-> {}, seen |-> {}, blind |-> FALSE, todo |-> {},
            found |-> {}, mute |-> FALSE]
Init ==
    /\ conf \in Confs
    /\ usage = [d \in Used |-> "ok"] /\ standing = [d \in Used |-> "up"]
    /\ kv = {} /\ told = {}
    /\ check = [c \in Checks |-> [Resting EXCEPT !.at = IF c = "cron" THEN "due" ELSE @]]
    /\ hist = [manual |-> Manual, faults |-> Faults, lapses |-> {}]

At(c, where) == check[c].at = where
Running(c)   == check[c].at \notin {"rest", "due"}
Goes(c, where)  == check' = [check EXCEPT ![c].at = where]
Noting(lapses)  == [hist EXCEPT !.lapses = @ \cup lapses]
Fault(lapses)   == hist.faults > 0 /\ hist' = [Noting(lapses) EXCEPT !.faults = @ - 1]
Ends(c)   == check' = [check EXCEPT ![c] = Resting]
Throws(c) == Ends(c) /\ Fault({"threw"})      \* nothing after the await happens
-------------------------------------------------------------------------------
(* scheduled: the uptime check first, which throws when KV does. *)
Start(c) ==
    /\ check' = [check EXCEPT ![c] = [Resting EXCEPT !.at = "core", !.was = {d \in Used : usage[d] # "ok"}]]
    /\ UNCHANGED <<conf, usage, standing, kv, told>>
Scheduled ==
    At("cron", "due") /\ \/ Start("cron") /\ UNCHANGED hist
                         \/ conf.kv /\ Throws("cron") /\ UNCHANGED <<conf, usage, standing, kv, told>>
CheckRequested ==
    /\ At("manual", "rest") /\ hist.manual > 0 /\ Start("manual")
    /\ hist' = [hist EXCEPT !.manual = @ - 1]

(* queryAllUsage.  All core datasets are asked for at once; when the token *)
(* is refused nothing else is asked; otherwise each is asked for alone.    *)
(* was: what was over its threshold when the check began, less what it     *)
(* could not read for another reason than the token.                       *)
In(sets) == {d \in Used : DataSet[d] \in sets}
Reads(c, got, blind, where) ==
    /\ check' = [check EXCEPT ![c].seen = @ \cup In(got), ![c].blind = @ \/ blind, ![c].at = where]
    /\ UNCHANGED <<conf, usage, standing, kv, told>>
ReadsAlone(c, sets, where) ==
    \E got \in SUBSET {DataSet[d] : d \in In(sets)}, refused \in BOOLEAN :
      /\ refused => In(got) # In(sets)
      /\ check' = [check EXCEPT ![c].seen = @ \cup In(got), ![c].blind = @ \/ refused, ![c].at = where,
                                ![c].was = IF refused THEN @ ELSE @ \ In(sets \ got)]
      /\ Fault({}) /\ UNCHANGED <<conf, usage, standing, kv, told>>
ReadCore(c) ==
    /\ At(c, "core")
    /\ \/ Reads(c, Core, FALSE, "extended") /\ UNCHANGED hist
       \/ Reads(c, {}, TRUE, "judge") /\ Fault({})
       \/ ReadsAlone(c, Core, "extended")
ReadExtended(c) ==
    /\ At(c, "extended")
    /\ \/ Reads(c, Extended, FALSE, "judge") /\ UNCHANGED hist
       \/ ReadsAlone(c, Extended, "judge")

(* What is over its threshold, and what is to be killed for it: above the  *)
(* kill threshold, unprotected, and the worker is told to.                 *)
Violation(d) == [of |-> d, level |-> usage[d]]
Blind        == [of |-> "analytics", level |-> "kill"]
Deletes(d)   == DataSet[d] \in {"do", "r2", "d1"} /\ conf.autoDelete
(* Mutant: the loop over Durable Objects only deletes. *)
DisconnectsWorkers(d) == DataSet[d] = "worker" /\ conf.autoDisconnect /\ ~Deletes(d)
Disconnects(d) == DataSet[d] \in {"do", "worker"} /\ conf.autoDisconnect /\ ~Deletes(d)
(* Mutant: a refused token is not reported. *)
JudgeUnblinded(c) ==
    LET over == {d \in Used \cap check[c].seen : usage[d] # "ok"} IN
    /\ At(c, "judge")
    /\ check' = [check EXCEPT
         ![c].at = "act", ![c].seen = {}, ![c].blind = FALSE,
         ![c].found = {Violation(d) : d \in over},
         ![c].todo = {d \in over \ conf.spare : usage[d] = "kill" /\ (Deletes(d) \/ Disconnects(d))}]
    /\ UNCHANGED <<conf, usage, standing, kv, told, hist>>
Judge(c) ==
    LET over == {d \in Used \cap check[c].seen : usage[d] # "ok"} IN
    /\ At(c, "judge")
    /\ check' = [check EXCEPT
         ![c].at = "act", ![c].seen = {}, ![c].blind = FALSE,
         ![c].found = {Violation(d) : d \in over} \cup (IF check[c].blind THEN {Blind} ELSE {}),
         ![c].todo = {d \in over \ conf.spare : usage[d] = "kill" /\ (Deletes(d) \/ Disconnects(d))}]
    /\ UNCHANGED <<conf, usage, standing, kv, told, hist>>

(* A kill succeeds, or is refused and noted; a DELETE that gets no answer  *)
(* throws, whatever it did.                                                *)
Killed(d) == [standing EXCEPT ![d] = IF Deletes(d) THEN "deleted" ELSE IF @ = "up" THEN "cut" ELSE @]
Kill(c) ==
    \E d \in check[c].todo :
      /\ At(c, "act") /\ \A e \in check[c].todo : Rank[DataSet[d]] <= Rank[DataSet[e]]
      /\ \/ /\ check' = [check EXCEPT ![c].todo = @ \ {d}]
            /\ \/ standing' = Killed(d) /\ UNCHANGED hist
               \/ Fault({}) /\ UNCHANGED standing
         \/ Deletes(d) /\ Throws(c) /\ standing' \in {standing, Killed(d)}
      /\ UNCHANGED <<conf, usage, kv, told>>
Killing(c) ==
    /\ At(c, "act") /\ check[c].todo = {}
    /\ IF check[c].found = {} THEN Ends(c) ELSE Goes(c, "gate")
    /\ UNCHANGED <<conf, usage, standing, kv, told, hist>>

(* violationSignature: the messages without their digits, those of the     *)
(* names too, sorted: which kinds of names, how many of each, and whether  *)
(* each was to be killed.                                                  *)
KeyOf(v) == IF v = Blind THEN <<"analytics">> ELSE <<DataSet[v.of], Plain[v.of], v.level>>
Keys(violations) == {KeyOf(v) : v \in violations}
Signature(c) == [k \in Keys(check[c].found) |-> Cardinality({v \in check[c].found : KeyOf(v) = k})]

(* webhookCooldownActive: the get, then the put of an absent key. *)
Cooling(c) == \E k \in kv : k.sig = Signature(c)
ReadCooldown(c) ==
    /\ At(c, "gate")
    /\ \/ /\ check' = [check EXCEPT ![c].mute = conf.kv /\ Cooling(c),
                                    ![c].at = IF conf.kv /\ ~Cooling(c) THEN "put" ELSE "send"]
          /\ UNCHANGED hist
       \/ conf.kv /\ Throws(c)
    /\ UNCHANGED <<conf, usage, standing, kv, told>>
PutCooldown(c) ==
    /\ At(c, "put")
    /\ \/ /\ kv' = {k \in kv : k.sig # Signature(c)} \cup {[sig |-> Signature(c), age |-> 0]}
          /\ Goes(c, "send") /\ UNCHANGED hist
       \/ Throws(c) /\ UNCHANGED kv
    /\ UNCHANGED <<conf, usage, standing, told>>

(* sendAlerts: PagerDuty always, the webhooks unless held back. *)
SendAlerts(c) ==
    LET to == conf.to \ (IF check[c].mute THEN {"hooks"} ELSE {}) IN
    /\ At(c, "send") /\ Ends(c)
    /\ \/ /\ told' = IF to = {} THEN told ELSE told \cup check[c].found
          /\ UNCHANGED hist
       \/ Fault({"unsent"}) /\ UNCHANGED told
    /\ UNCHANGED <<conf, usage, standing, kv>>
-------------------------------------------------------------------------------
(* Usage grows, between checks: while one runs it has been read already. *)
Rise(d) ==
    /\ usage' = [usage EXCEPT ![d] = IF @ = "ok" \/ DataSet[d] \in Extended THEN "alert" ELSE "kill"]
    /\ d \in conf.has /\ usage' # usage /\ \A c \in Checks : ~Running(c)
    /\ UNCHANGED <<conf, standing, kv, told, check, hist>>

(* Six hours later, perhaps on a new day.  A key as old as the cooldown    *)
(* has just expired, or not quite.                                         *)
Older(S) == {[x EXCEPT !.age = @ + 1] : x \in S}
Tick ==
    /\ \A c \in Checks : At(c, "rest")
    /\ Goes("cron", "due")
    /\ \E gone \in SUBSET {k \in Older(kv) : k.age = Cooldown} :
         kv' = {k \in Older(kv) \ gone : k.age <= Cooldown}
    /\ told' = {v \in told : \E k \in kv' : KeyOf(v) \in DOMAIN k.sig}
    /\ usage' \in {usage, [d \in Used |-> "ok"]}
    /\ UNCHANGED <<conf, standing, hist>>

Step(c) == \/ ReadCore(c) \/ ReadExtended(c) \/ Judge(c) \/ Kill(c) \/ Killing(c)
           \/ ReadCooldown(c) \/ PutCooldown(c) \/ SendAlerts(c)
Next == \/ Scheduled \/ CheckRequested \/ Tick
        \/ \E c \in Checks : Step(c)
        \/ \E d \in Used : Rise(d)
Spec == Init /\ [][Next]_vars
(* The cron comes, and what it started goes on. *)
FairSpec == Spec /\ WF_vars(Tick) /\ WF_vars(Scheduled) /\ \A c \in Checks : WF_vars(Step(c))
-------------------------------------------------------------------------------
Barring(lapses) == hist'.lapses \cap lapses = {}
(* When a check has ended, the operator knows all it found, from it, from  *)
(* an earlier alert that still holds its webhooks back, or in a moment     *)
(* from the check it overlaps: whatever was over its threshold when the    *)
(* check began and could be read, or else that the token was refused.      *)
(* Webhooks alone know a resource up to the digits of its name.            *)
Known(v) == \/ v \in told'
            \/ "pager" \notin conf.to /\ KeyOf(v) \in Keys(told')
BreachIsTold ==
    [][Barring({"threw", "unsent"}) =>
         \A c \in Checks : (Running(c) /\ check'[c].at = "rest") =>
            /\ \A v \in check[c].found :
                 \/ Known(v)
                 \/ \E b \in Checks \ {c} : check[b].at = "send" /\ KeyOf(v) \in Keys(check[b].found)
            /\ \A d \in check[c].was :
                 \E v \in check[c].found : v.of \in {d, "analytics"}]_vars

(* A resource that stays above the kill threshold is killed in the end,    *)
(* once the requests that fail have failed.                                *)
BreachIsCut ==
    \A d \in In({"do", "worker"}) :
       (conf.autoDisconnect /\ d \notin conf.spare /\ <>[](usage[d] = "kill")) => <>(standing[d] # "up")
===============================================================================
