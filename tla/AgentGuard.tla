------------------------------ MODULE AgentGuard ------------------------------
(***************************************************************************)
(* packages/agent-guard on one machine: Claude Code sessions whose hook    *)
(* weighs each tool call, a proxy that meters other agents' requests, the  *)
(* processes that read the plan's real limits, and the files they share    *)
(* (ledger.json, limits.json, usage-meta.json, config.json, PAUSED).       *)
(* Each file is replaced whole by whoever writes it.  Dollars and          *)
(* percentages are small integers; a plan has one window.                  *)
(***************************************************************************)
EXTENDS Integers, FiniteSetsExt, FiniteSets

CONSTANTS
    Hooks,          \* Claude Code sessions; each calls the hook in turn
    Requests,       \* requests the proxy may be handling at once
    Refreshes,      \* processes that may ask the usage endpoint
    Casts,          \* [who takes part, bounds on their spend and time]: a set
    Budgets,        \* [sessionSoft, sessionHard, dailySoft, dailyHard]
    FirstBudget,    \* the one configured at first
    Readings,       \* what the provider may say: [util, left]; no util, no window
    RetryAfters,    \* what a 429 may say of how long to wait; 0: nothing of use
    Day, FiveHours, StaleAfter, Window, Throttle, Extras, BackoffMax,   \* durations
    MaxEvents       \* bound: failures, status lines and the human's commands, together

None  == -1
Proxy == "proxy"
ASSUME GuardConstantsOK ==
    /\ IsFiniteSet(Hooks) /\ IsFiniteSet(Requests)
    /\ Hooks \cap Requests = {} /\ (Hooks \cup Requests) \cap Refreshes = {}
    /\ Day \in Nat \ {0} /\ FiveHours \in Nat /\ StaleAfter \in Nat /\ Window \in Nat \ {0}
    /\ Throttle \in Nat /\ Extras \in Nat /\ BackoffMax \in Nat \ {0} /\ RetryAfters \subseteq Nat
    /\ FirstBudget \in Budgets /\ Proxy \notin Hooks
    /\ \A b \in Budgets : b.sessionHard \in Nat /\ b.dailyHard \in Nat
    /\ \A r \in Readings : r.util \in Nat \cup {None} /\ r.left \in Nat \cup {None}

Sessions == Hooks \cup {Proxy}
Plans    == {"auto", "pinned"}
SoftPct   == 60     \* DEFAULT_LIMITS of the weekly window
DangerPct == 85
-------------------------------------------------------------------------------
VARIABLES
    now,
    cast,           \* who takes part
    flavor,         \* what the proxy speaks: "anthropic" or "openai"
    subscriber,     \* external: a flat-fee plan pays for this machine
    config,         \* config.json: the budget and the plan
    served,         \* the proxy's copy of it, read when it starts
    paused,         \* PAUSED: None, or the time until which it holds
    ledger,         \* ledger.json
    limits,         \* limits.json: the snapshot (its flags of alerts given are left out)
    meta,           \* usage-meta.json
    truth,          \* external: what each session has really cost
    proc,           \* where each hook, request and refresh is
    events,         \* counter of the bound
    hist            \* history, for the properties

vars == <<now, cast, flavor, subscriber, config, served, paused, ledger, limits, meta, truth,
          proc, events, hist>>
fixed == <<cast, flavor, subscriber>>

NoRecord   == [cost |-> 0, last |-> None, told |-> {}]
Empty      == [s \in Sessions |-> NoRecord]
NoSnapshot == [at |-> None, util |-> None, reset |-> None]
IdleProc   == [at |-> "idle"]

Init ==
    /\ now = 0
    /\ cast \in Casts /\ flavor \in {"anthropic", "openai"} /\ subscriber \in BOOLEAN
    /\ config = [budget |-> FirstBudget, plan |-> "auto"]
    /\ (cast.who \cap Requests = {} => flavor = "anthropic")
    /\ served = config /\ paused = None
    /\ ledger = Empty /\ limits = NoSnapshot
    /\ meta = [last |-> None, authorized |-> FALSE, streak |-> 0, until |-> 0]
    /\ truth = [s \in Sessions |-> 0]
    /\ proc = [p \in Hooks \cup Requests \cup Refreshes |-> IdleProc]
    /\ events = 0
    /\ hist = [raced |-> FALSE, excused |-> FALSE, metered |-> 0, reset |-> FALSE,
               toldUntil |-> 0, late |-> 0, cut |-> 0, overlap |-> FALSE, lastSeen |-> None]

(***************************** budget, ledger ******************************)
Total(cost, who) == MapThenSumSet(LAMBDA s : cost[s], who)
Active(book)     == {s \in Sessions : book[s].last # None /\ now - book[s].last < Day}
RollingDailyCost(book) == Total([s \in Sessions |-> book[s].cost], Active(book))

(* Mutant: the cap itself may be spent. *)
CrossedLate(spent, cap) == cap > 0 /\ spent > cap
Crossed(spent, cap) == cap > 0 /\ spent >= cap
Evaluate(session, daily, budget) ==
    IF Crossed(session, budget.sessionHard) \/ Crossed(daily, budget.dailyHard) THEN "block"
    ELSE IF Crossed(session, budget.sessionSoft) \/ Crossed(daily, budget.dailySoft) THEN "warn"
    ELSE "ok"

IsPaused == paused # None /\ now < paused
SetSessionCost(book, s, cost) == [book EXCEPT ![s].cost = cost, ![s].last = now]
AddSessionCost(book, s, cost) == [book EXCEPT ![s].cost = @ + cost, ![s].last = now]

(******************************* pacing ************************************)
(* assessWindow: how far into its window a reading is, and what it means.  *)
Elapsed(w) ==
    IF w.reset = None THEN None
    ELSE LET e == Window - (w.reset - now) IN IF e < 0 THEN 0 ELSE IF e > Window THEN Window ELSE e
(* Mutant: the use alone decides, whatever the time left. *)
AssessByUse(w) == IF w.util >= DangerPct THEN "danger" ELSE IF w.util >= SoftPct THEN "warn" ELSE "ok"
AssessWindow(w) ==
    LET e       == Elapsed(w)
        paced   == e > 0
        ahead   == ~paced \/ w.util * Window >= 100 * e
        lockOut == paced /\ w.util > 0 /\ (w.util >= 100 \/ w.util * Window > 100 * e)
        matters == lockOut /\ 2 * w.util >= SoftPct
        hurried == paced /\ 2 * w.util * Window >= 3 * 100 * e /\ 2 * w.util >= SoftPct
    IN CASE (w.util >= DangerPct /\ ahead) \/ (matters /\ w.util >= SoftPct) -> "danger"
         [] OTHER -> IF (w.util >= SoftPct /\ ahead) \/ matters \/ hurried THEN "warn" ELSE "ok"

Taken(snap)     == snap.at # None
HasWindow(snap) == snap.util # None     \* an answer may speak of a plan and of no window
LimitsReport ==     \* buildLimitsReport
    LET snap == limits
        live == Taken(snap) /\ HasWindow(snap) /\ now - snap.at < Window /\ ~(snap.reset # None /\ snap.reset <= now)
    IN [headers |-> live,
        stale   |-> live /\ now - snap.at > StaleAfter,
        level   |-> IF live THEN AssessWindow(snap) ELSE "ok"]

(* Mutant: one snapshot, however old, keeps the wall down. *)
WallDownForGood == flavor = "anthropic" /\ (served.plan = "pinned" \/ Taken(limits))

(* Whether the wall of dollars is down for a request to the proxy. *)
DollarWallSuppressed ==
    /\ flavor = "anthropic"
    /\ served.plan = "pinned" \/ (Taken(limits) /\ now - limits.at < FiveHours /\ HasWindow(limits))

(**************************** the usage feed *******************************)
Here(p) == p \in cast.who
Idle(p) == Here(p) /\ proc[p].at = "idle"
Move(p, next) == proc' = [proc EXCEPT ![p] = next]

(* triggerBackgroundRefresh: who calls it claims the slot, then spawns.    *)
MayTrigger(throttle) ==
    /\ meta.authorized
    /\ meta.last = None \/ now - meta.last >= throttle
    /\ now >= meta.until
Spawns(throttle) == IF MayTrigger(throttle) THEN {f \in Refreshes : Idle(f)} ELSE {}
Claimed(spawned) == IF spawned = {} THEN meta ELSE [meta EXCEPT !.last = now]
Chosen(throttle) == IF Spawns(throttle) = {} THEN {{}} ELSE {{f} : f \in Spawns(throttle)}

(* refreshUsage: the commands usage and status, or the spawned child.      *)
RefreshUsage(f) ==
    /\ Here(f) /\ proc[f].at \in {"idle", "spawned"}
    /\ \E foreground \in {proc[f].at = "idle"}, forced \in BOOLEAN, token \in BOOLEAN :
        /\ (~foreground => forced)
        /\ LET recent == ~forced /\ meta.last # None /\ now - meta.last < Throttle /\ Taken(limits)
               waits  == recent \/ now < meta.until
           IN IF waits THEN Move(f, IdleProc) /\ UNCHANGED <<meta, hist>>
              ELSE IF ~token THEN Move(f, IdleProc) /\ meta' = [meta EXCEPT !.last = now] /\ UNCHANGED hist
              ELSE /\ Move(f, [at |-> "asking", since |-> now, streak |-> meta.streak])
                   /\ meta' = [meta EXCEPT !.authorized = @ \/ foreground]
                   /\ hist' = [hist EXCEPT !.overlap = @ \/ \E g \in Refreshes \ {f} : proc[g].at = "asking"]
    /\ UNCHANGED <<now, fixed, config, served, paused, ledger, limits, truth, events>>

(* The answer is stamped with the time at which the process started, and   *)
(* so is the wait after a refusal: a 429's retry-after up to an hour, an    *)
(* hour when it says nothing of use, or the back-off of other failures.     *)
AtMost(d) == IF d > BackoffMax THEN BackoffMax ELSE d
Backoff(streak) == AtMost(2 ^ (streak - 1))
(* Mutant: a 429 is retried as any other failure. *)
BackoffOnly(f, told) == proc[f].since + Backoff(proc[f].streak + 1)
Until(f, told) ==       \* told: by a 429, or None
    proc[f].since + CASE told = None -> Backoff(proc[f].streak + 1)
                      [] told = 0    -> BackoffMax
                      [] OTHER       -> AtMost(told)
Snapshot(reading, at) ==
    [at |-> at, util |-> reading.util, reset |-> IF reading.left = None THEN None ELSE now + reading.left]
Shown(reading) == hist' = [hist EXCEPT !.lastSeen = IF HasWindow(reading) THEN now ELSE @]
UsageArrives(f) ==
    /\ Here(f) /\ proc[f].at = "asking" /\ subscriber
    /\ meta' = [meta EXCEPT !.last = proc[f].since, !.streak = 0, !.until = 0]
    /\ \E reading \in Readings :
        /\ limits' = Snapshot(reading, proc[f].since)
        /\ Shown(reading)
    /\ Move(f, IdleProc)
    /\ UNCHANGED <<now, fixed, config, served, paused, ledger, truth, events>>
Larger(a, b) == IF a > b THEN a ELSE b
UsageRefused(f) ==
    /\ Here(f) /\ proc[f].at = "asking"
    /\ \E told \in RetryAfters \cup {None} :
        /\ meta' = [meta EXCEPT !.last = proc[f].since, !.streak = proc[f].streak + 1,
                                !.until = Until(f, told)]
        /\ hist' = IF told = None THEN hist
                   ELSE [hist EXCEPT !.toldUntil = Larger(@, now + told),
                                     !.late = Larger(@, now - proc[f].since),
                                     !.cut = Larger(@, told - AtMost(told))]
    /\ Move(f, IdleProc)
    /\ UNCHANGED <<now, fixed, config, served, paused, ledger, limits, truth, events>>

(* Claude Code renders its status line, and for a subscriber may pass on   *)
(* what it knows; then the endpoint is asked for the rest, and rarely.     *)
Statusline ==
    /\ cast.who \cap Hooks # {} /\ events < MaxEvents /\ events' = events + 1
    /\ \E given \in BOOLEAN : \E fs \in Chosen(IF given THEN Extras ELSE Throttle) :
        /\ given => subscriber
        /\ limits' \in IF given THEN {Snapshot(r, now) : r \in {r \in Readings : HasWindow(r)}} ELSE {limits}
        /\ hist' = [hist EXCEPT !.lastSeen = IF given THEN now ELSE @]
        /\ meta' = Claimed(fs)
        /\ proc' = [p \in DOMAIN proc |-> IF p \in fs THEN [at |-> "spawned"] ELSE proc[p]]
    /\ UNCHANGED <<now, fixed, config, served, paused, ledger, truth>>

(******************************** the hook *********************************)
(* runHook reads everything, judges, and keeps its copy of the ledger.  A  *)
(* transcript that cannot be read counts as nothing spent.                 *)
Judged(h, spent) ==
    LET copy == SetSessionCost(ledger, h, spent)
    IN [at |-> "judged", copy |-> copy,
        verdict |-> Evaluate(spent, RollingDailyCost(copy), config.budget),
        level |-> IF LimitsReport.stale THEN "ok" ELSE LimitsReport.level,
        plan |-> LimitsReport.headers \/ config.plan = "pinned"]
HookReads(h) ==
    /\ Idle(h)
    /\ IF IsPaused THEN Move(h, [at |-> "allow"]) /\ UNCHANGED <<meta, events, hist>>
       ELSE \E readable \in {TRUE} \cup (IF events < MaxEvents THEN {FALSE} ELSE {}), fs \in Chosen(Throttle) :
        /\ proc' = [p \in DOMAIN proc |->
                CASE p = h     -> Judged(h, IF readable THEN truth[h] ELSE 0)
                  [] p \in fs  -> [at |-> "spawned"]
                  [] OTHER     -> proc[p]]
        /\ meta' = Claimed(fs)
        /\ events' = IF readable THEN events ELSE events + 1
        /\ hist' = [hist EXCEPT !.excused = @ \/ ~readable]
    /\ UNCHANGED <<now, fixed, config, served, paused, ledger, limits, truth>>

(* A save replaces whatever has been written since the copy was read.  One *)
(* that comes a day late books its session on a day that is over.          *)
Saves(h, copy) ==
    /\ ledger' = copy
    /\ hist' = [hist EXCEPT !.raced = @ \/ \E s \in Sessions \ {h} : ledger[s] # copy[s],
                            !.excused = @ \/ now - copy[h].last >= Day]

(* The first save; an alert about dollars, when there is one, is awaited   *)
(* after it, for up to two and a half seconds.                             *)
HookSaves(h) ==
    /\ Here(h) /\ proc[h].at = "judged"
    /\ LET me    == proc[h]
           fresh == me.verdict # "ok" /\ me.verdict \notin me.copy[h].told
           copy  == IF fresh THEN [me.copy EXCEPT ![h].told = @ \cup {me.verdict}] ELSE me.copy
       IN /\ Saves(h, copy)
          /\ Move(h, [me EXCEPT !.at = "answering", !.copy = copy])
    /\ UNCHANGED <<now, fixed, config, served, paused, limits, meta, truth, events>>
LimitKey(level) == IF level = "danger" THEN "limit-danger" ELSE "limit-warn"

(* The answer: a nudge about the plan, or an advice about dollars that do  *)
(* not matter on a plan, is noted in a second save of the same copy.       *)
HookAnswers(h) ==
    /\ Here(h) /\ proc[h].at = "answering"
    /\ LET me     == proc[h]
           nudge  == me.level # "ok" /\ LimitKey(me.level) \notin me.copy[h].told
           advice == me.plan /\ me.verdict = "block" /\ "advisory" \notin me.copy[h].told
           told   == (IF nudge THEN {LimitKey(me.level)} ELSE {})
                        \cup (IF advice THEN {"advisory"} ELSE {})
           denied == me.verdict = "block" /\ ~me.plan
       IN /\ IF told = {} THEN UNCHANGED <<ledger, hist>>
             ELSE Saves(h, [me.copy EXCEPT ![h].told = @ \cup told])
          /\ Move(h, [at |-> IF denied THEN "deny" ELSE "allow"])
    /\ UNCHANGED <<now, fixed, config, served, paused, limits, meta, truth, events>>

(* A hook that fails lets the agent go on; a Stop event ends without an    *)
(* answer.                                                                 *)
HookFails(h) ==
    /\ Here(h) /\ proc[h].at \in {"judged", "answering"} /\ events < MaxEvents
    /\ events' = events + 1
    /\ Move(h, [at |-> "allow"])
    /\ hist' = [hist EXCEPT !.excused = TRUE]
    /\ UNCHANGED <<now, fixed, config, served, paused, ledger, limits, meta, truth>>
HookStops(h) ==
    /\ Here(h) /\ proc[h].at = "answering"
    /\ Move(h, IdleProc)
    /\ UNCHANGED <<now, fixed, config, served, paused, ledger, limits, meta, truth, events, hist>>

(* The agent goes on.  One that was denied says so and stops, until a      *)
(* human has it go on.                                                     *)
Turn(h) ==
    /\ Here(h) /\ proc[h].at \in {"allow", "deny"}
    /\ Total(truth, Sessions) < cast.spend
    /\ truth' = [truth EXCEPT ![h] = @ + 1]
    /\ Move(h, IF proc[h].at = "deny" THEN [at |-> "stopped"] ELSE IdleProc)
    /\ UNCHANGED <<now, fixed, config, served, paused, ledger, limits, meta, events, hist>>
GoOn(h) ==
    /\ Here(h) /\ proc[h].at = "stopped"
    /\ Move(h, IdleProc)
    /\ hist' = [hist EXCEPT !.excused = TRUE]
    /\ UNCHANGED <<now, fixed, config, served, paused, ledger, limits, meta, truth, events>>

(******************************** the proxy ********************************)
(* The check before a request is forwarded, or answered with a 402.        *)
Preflight(q) ==
    /\ Idle(q)
    /\ LET verdict == Evaluate(ledger[Proxy].cost, RollingDailyCost(ledger), served.budget)
           blocked == verdict = "block" /\ ~IsPaused /\ ~DollarWallSuppressed
       IN /\ Move(q, IF blocked THEN IdleProc
                     ELSE [at |-> "sent", plan |-> DollarWallSuppressed,
                           over |-> verdict = "block" /\ ~IsPaused])
    /\ UNCHANGED <<now, fixed, config, served, paused, ledger, limits, meta, truth, events, hist>>

(* The answer comes, with the cost and on a plan with its limits; or the   *)
(* call fails although the work may have been paid for.                    *)
Answered(q) ==
    /\ Here(q) /\ proc[q].at = "sent" /\ Total(truth, Sessions) < cast.spend
    /\ truth' = [truth EXCEPT ![Proxy] = @ + 1]
    /\ IF flavor = "anthropic" /\ subscriber
       THEN /\ \E reading \in Readings :    \* captureLimits
                limits' = Snapshot(reading, now) /\ Shown(reading)
            /\ Move(q, [at |-> "metering", plan |-> TRUE])
       ELSE Move(q, [at |-> "metering", plan |-> proc[q].plan]) /\ UNCHANGED <<limits, hist>>
    /\ UNCHANGED <<now, fixed, config, served, paused, ledger, meta, events>>
Unanswered(q) ==
    /\ Here(q) /\ proc[q].at = "sent" /\ events < MaxEvents /\ Total(truth, Sessions) < cast.spend
    /\ events' = events + 1
    /\ \E paid \in {0, 1} : truth' = [truth EXCEPT ![Proxy] = @ + paid]
    /\ hist' = [hist EXCEPT !.excused = TRUE]
    /\ Move(q, IdleProc)
    /\ UNCHANGED <<now, fixed, config, served, paused, ledger, limits, meta>>

(* The body is through: its usage is added to a ledger read afresh, unless *)
(* there is none to be found in it.                                        *)
Meter(q) ==
    /\ Here(q) /\ proc[q].at = "metering"
    /\ \E found \in {TRUE} \cup (IF events < MaxEvents THEN {FALSE} ELSE {}) :
        LET fresh == AddSessionCost(ledger, Proxy, 1)
        IN /\ ledger' = IF found THEN fresh ELSE ledger
           /\ events' = IF found THEN events ELSE events + 1
           /\ hist' = [hist EXCEPT !.metered = IF found THEN @ + 1 ELSE @, !.excused = @ \/ ~found]
           /\ Move(q, IdleProc)
    /\ UNCHANGED <<now, fixed, config, served, paused, limits, meta, truth>>

(* The proxy dies with the requests in flight, or is stopped so that it    *)
(* takes up the configuration, and is started again.                       *)
RestartProxy ==
    /\ cast.who \cap Requests # {}
    /\ \/ events < MaxEvents /\ events' = events + 1
       \/ served # config /\ UNCHANGED events
    /\ served' = config
    /\ proc' = [p \in DOMAIN proc |-> IF p \in Requests THEN IdleProc ELSE proc[p]]
    /\ hist' = [hist EXCEPT !.excused = TRUE]
    /\ UNCHANGED <<now, fixed, config, paused, ledger, limits, meta, truth>>

(****************************** the human **********************************)
Operate == events < MaxEvents /\ events' = events + 1
Intervened == hist' = [hist EXCEPT !.excused = TRUE]

SetBudget ==
    /\ Operate /\ Intervened
    /\ \E budget \in Budgets \ {config.budget} : config' = [config EXCEPT !.budget = budget]
    /\ UNCHANGED <<now, fixed, served, paused, ledger, limits, meta, truth, proc>>
SetLimits ==
    /\ Operate /\ Intervened
    /\ \E plan \in Plans \ {config.plan} : config' = [config EXCEPT !.plan = plan]
    /\ UNCHANGED <<now, fixed, served, paused, ledger, limits, meta, truth, proc>>
Pause ==
    /\ Operate /\ Intervened
    /\ paused' \in {now + 1, cast.time + 1}      \* for a while, or until resume
    /\ UNCHANGED <<now, fixed, config, served, ledger, limits, meta, truth, proc>>
Resume ==
    /\ paused # None /\ paused' = None
    /\ UNCHANGED <<now, fixed, config, served, ledger, limits, meta, truth, proc, events, hist>>
ResetLedger ==
    /\ Operate
    /\ \/ ledger' = Empty /\ limits' = NoSnapshot                             \* --all
       \/ UNCHANGED ledger /\ limits' = NoSnapshot                            \* --limits
       \/ /\ \E s \in (cast.who \cap Hooks) \cup {Proxy} : ledger' = [ledger EXCEPT ![s] = NoRecord]
          /\ UNCHANGED limits                                               \* --session
       \/ /\ ledger' = [s \in Sessions |->
                 IF ledger[s].last # None /\ ledger[s].last \div Day = now \div Day THEN NoRecord ELSE ledger[s]]
          /\ UNCHANGED limits                                               \* --today
    /\ hist' = [hist EXCEPT !.excused = TRUE, !.reset = TRUE]
    /\ UNCHANGED <<now, fixed, config, served, paused, meta, truth, proc>>

(* Time passes; a session that falls out of the day takes its cost along.  *)
Tick ==
    /\ now < cast.time /\ now' = now + 1
    /\ hist' = [hist EXCEPT !.excused = @ \/ \E s \in Active(ledger) : now + 1 - ledger[s].last >= Day]
    /\ UNCHANGED <<fixed, config, served, paused, ledger, limits, meta, truth, proc, events>>

Next ==
    \/ \E h \in Hooks : HookReads(h) \/ HookSaves(h) \/ HookAnswers(h)
                          \/ HookFails(h) \/ HookStops(h) \/ Turn(h) \/ GoOn(h)
    \/ \E q \in Requests : Preflight(q) \/ Answered(q) \/ Unanswered(q) \/ Meter(q)
    \/ \E f \in Refreshes : RefreshUsage(f) \/ UsageArrives(f) \/ UsageRefused(f)
    \/ Statusline \/ RestartProxy
    \/ SetBudget \/ SetLimits \/ Pause \/ Resume \/ ResetLedger \/ Tick
Spec == Init /\ [][Next]_vars
-------------------------------------------------------------------------------
(****************************** properties *********************************)
Quiet(p) == proc[p].at \in {"idle", "stopped", "allow", "deny"}

(* The comment in ledger.ts: neither hook nor proxy can inflate the daily  *)
(* figure, or deflate it.  As long as no save overtook another and nobody  *)
(* reset it, the ledger holds exactly what the proxy has metered.          *)
LedgerIsTrueInTurn ==
    ~hist.raced /\ ~hist.reset => ledger[Proxy].cost = hist.metered

(* "The hard cap is a >= comparison so spend can never exceed it by        *)
(* design."  It can: what was let through before the cap was reached is    *)
(* still to be paid, and a denied agent answers once more; but by no more  *)
(* than that, when dollars are real, no save was lost or came a day late,  *)
(* no answer lacked its usage, and no human stepped in.                    *)
InFlight == Cardinality(cast.who \cap Requests) + 2 * Cardinality(cast.who \cap Hooks)
OvershootIsBounded ==
    ~hist.raced /\ ~hist.excused /\ ~subscriber /\ config.budget.dailyHard > 0 =>
        Total(truth, Sessions) < config.budget.dailyHard + InFlight

(* "A stale, months-old detection must never disarm the wall": a request   *)
(* over the cap is forwarded only when the provider itself has shown the   *)
(* plan in the last five hours, or the plan is pinned; and never for an    *)
(* agent that pays by the token.                                           *)
WallStands ==
    [][\A q \in Requests : proc[q].at = "idle" /\ proc'[q].at = "sent" /\ proc'[q].over =>
        /\ flavor = "anthropic"
        /\ served.plan = "pinned" \/ (hist.lastSeen # None /\ now - hist.lastSeen < FiveHours)]_vars

(* "A 429 ... which we must honour": while refreshes come one at a time    *)
(* none asks the endpoint before the time at which the wait it was told of *)
(* is over, counted from the answer; except that a wait is cut to an hour, *)
(* and counted from the start of the process the answer came to.           *)
Due == hist.toldUntil - hist.late - hist.cut
RetryAfterIsHonoured ==
    [][\A f \in Refreshes : proc[f].at # "asking" /\ proc'[f].at = "asking" =>
        now >= Due \/ hist'.overlap]_vars

(* The pacing of a live window: at the pace kept so far, a window over the *)
(* soft threshold that would be used up before it resets is a danger, and  *)
(* one that is used more slowly than time passes is no alarm at all.       *)
UsedBy(w, e, t) == w.util * (e + t) >= 100 * e      \* t from now, going on like this
PaceIsJudged ==
    LET w == limits
        e == Elapsed(w)
    IN Taken(w) /\ HasWindow(w) /\ e > 0 /\ w.reset > now =>
        /\ (\E t \in 0..(w.reset - now - 1) : UsedBy(w, e, t)) /\ w.util >= SoftPct
                => AssessWindow(w) = "danger"
        /\ w.util * Window < 100 * e => AssessWindow(w) = "ok"
===============================================================================
