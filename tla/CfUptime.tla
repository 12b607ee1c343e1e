------------------------------- MODULE CfUptime -------------------------------
(***************************************************************************)
(* The uptime self-check of the Cloudflare kill-switch worker: every cron  *)
(* tick pings the API, counts consecutive failures in KV, and pages when   *)
(* the streak reaches the threshold; webhooks are held back by a cooldown  *)
(* kept in KV too.  KV may not be bound, and may throw.                    *)
(*                                                                         *)
(* Two crons run the check, every five minutes and every six hours, and    *)
(* they come together: their invocations interleave over the same keys.    *)
(***************************************************************************)
EXTENDS Integers, FiniteSets

CONSTANTS
    Period,         \* ticks of five minutes until the pattern repeats
    HeavyTicks,     \* ticks at which the six-hour cron comes as well
    Threshold,      \* UPTIME_FAILURE_THRESHOLD
    Cooldown        \* ALERT_COOLDOWN_SECONDS, in ticks

Crons == {"five", "six"}

ASSUME UptimeConstantsOK ==
    /\ Period \in Nat \ {0} /\ HeavyTicks \subseteq 0..(Period - 1)
    /\ Threshold \in Nat \ {0} /\ Cooldown \in Nat \ {0}

VARIABLES
    up,             \* external: what GET /health of the API answers
    store,          \* external: ALERT_STATE: "unbound", or KV that answers ("up") or throws ("down")
    tick,           \* the current five-minute tick, modulo Period
    due,            \* crons of this tick that have not started
    place,          \* where each cron's invocation is
    read,           \* the streak an invocation has read and will write, plus one
    streak,         \* KV uptime:streak; 0 when the key is absent
    cooldown,       \* KV alert:guardian-uptime: ticks left; 0 when absent
    suppress,       \* suppressWebhooks of an invocation
    failedHere,     \* history: a probe failed in this tick
    cleared,        \* history: a healthy check was done with the streak in this tick
    paged,          \* history: PagerDuty was triggered in this tick
    failures        \* history: failed probes since the last tick of healthy checks
                    \* that cleared the streak (capped)

kvVars      == <<streak, cooldown>>
historyVars == <<failedHere, cleared, paged, failures>>
uptimeVars  == <<up, store, tick, due, place, read, suppress, kvVars, historyVars>>

Cap == Threshold + 1        \* bound on the streak and the histories
Capped(n) == IF n > Cap THEN Cap ELSE n

UptimeTypeOK ==
    /\ up \in BOOLEAN
    /\ store \in {"unbound", "up", "down"}
    /\ tick \in 0..(Period - 1)
    /\ due \in SUBSET Crons
    /\ place \in [Crons -> {"idle", "probing", "failed", "healthy", "counted", "alert",
                            "cool", "send"}]
    /\ read \in [Crons -> 0..Cap]
    /\ suppress \in [Crons -> BOOLEAN]
    /\ streak \in 0..Cap
    /\ cooldown \in 0..Cooldown
    /\ failedHere \in BOOLEAN /\ cleared \in BOOLEAN /\ paged \in BOOLEAN
    /\ failures \in 0..Cap

Due(t) == IF t \in HeavyTicks THEN Crons ELSE {"five"}

UptimeInit ==
    /\ up \in BOOLEAN /\ store \in {"unbound", "up"}
    /\ tick = 0 /\ due = Due(0)
    /\ place = [c \in Crons |-> "idle"]
    /\ read = [c \in Crons |-> 0]
    /\ suppress = [c \in Crons |-> FALSE]
    /\ streak = 0 /\ cooldown = 0
    /\ failedHere = FALSE /\ cleared = FALSE /\ paged = FALSE /\ failures = 0

----------------------------------------------------------------------------
(* scheduled() *)

GoesTo(c, where) == place' = [place EXCEPT ![c] = where]

Start(c) ==
    /\ c \in due
    /\ due' = due \ {c}
    /\ GoesTo(c, "probing")
    /\ UNCHANGED <<up, store, tick, read, suppress, kvVars, historyVars>>

(* The ping: 200 is healthy; any other status, a network error and the abort
   after ten seconds are failures. *)
Probe(c) ==
    /\ place[c] = "probing"
    /\ GoesTo(c, IF up THEN "healthy" ELSE "failed")
    /\ failedHere' = (failedHere \/ ~up)
    /\ failures' = IF up THEN failures ELSE Capped(failures + 1)
    /\ UNCHANGED <<up, store, tick, due, read, suppress, kvVars, cleared, paged>>

(* KV throws, and with it the check: nothing after the await happens.  A write
   may have been done all the same. *)
KvThrows(c) == store = "down" /\ GoesTo(c, "idle")

(* A healthy check deletes the streak. *)
Reset(c) ==
    /\ place[c] = "healthy"
    /\ \/ /\ store # "down" /\ GoesTo(c, "idle")
          /\ streak' = 0 /\ cleared' = TRUE
       \/ KvThrows(c) /\ streak' \in {streak, 0} /\ UNCHANGED cleared
    /\ UNCHANGED <<up, store, tick, due, read, suppress, cooldown, failedHere, paged, failures>>

(* A failed check reads the streak.  Without KV the streak is past any
   threshold. *)
ReadStreak(c) ==
    /\ place[c] = "failed"
    /\ \/ /\ store = "up" /\ GoesTo(c, "counted")
          /\ read' = [read EXCEPT ![c] = Capped(streak + 1)]
       \/ KvThrows(c) /\ UNCHANGED read
       \/ store = "unbound" /\ GoesTo(c, "alert") /\ UNCHANGED read
    /\ UNCHANGED <<up, store, tick, due, suppress, kvVars, historyVars>>

(* Mutants: the incremented streak is not stored; the check pages one failure
   early. *)
ForgetStreak(c) ==
    /\ place[c] = "counted"
    /\ GoesTo(c, IF read[c] < Threshold THEN "idle" ELSE "alert")
    /\ UNCHANGED <<up, store, tick, due, read, suppress, kvVars, historyVars>>
PageEarly(c) ==
    /\ place[c] = "counted"
    /\ streak' = read[c]
    /\ GoesTo(c, IF read[c] + 1 < Threshold THEN "idle" ELSE "alert")
    /\ UNCHANGED <<up, store, tick, due, read, suppress, cooldown, historyVars>>

(* It stores the incremented streak and debounces. *)
PutStreak(c) ==
    /\ place[c] = "counted"
    /\ \/ /\ store = "up" /\ streak' = read[c]
          /\ GoesTo(c, IF read[c] < Threshold THEN "idle" ELSE "alert")
       \/ KvThrows(c) /\ streak' \in {streak, read[c]}
    /\ UNCHANGED <<up, store, tick, due, read, suppress, cooldown, historyVars>>

(* webhookCooldownActive: never without KV; else the get, and the put when the
   key was absent. *)
ReadCooldown(c) ==
    /\ place[c] = "alert"
    /\ \/ /\ store # "down"
          /\ suppress' = [suppress EXCEPT ![c] = cooldown > 0]
          /\ GoesTo(c, IF store = "unbound" \/ cooldown > 0 THEN "send" ELSE "cool")
       \/ KvThrows(c) /\ UNCHANGED suppress
    /\ UNCHANGED <<up, store, tick, due, read, kvVars, historyVars>>

PutCooldown(c) ==
    /\ place[c] = "cool"
    /\ \/ store = "up" /\ cooldown' = Cooldown /\ GoesTo(c, "send")
       \/ KvThrows(c) /\ cooldown' \in {cooldown, Cooldown}
    /\ UNCHANGED <<up, store, tick, due, read, suppress, streak, historyVars>>

(* sendAlerts: PagerDuty always, the webhooks unless suppressed. *)
SendAlerts(c) ==
    /\ place[c] = "send"
    /\ paged' = TRUE
    /\ GoesTo(c, "idle")
    /\ UNCHANGED <<up, store, tick, due, read, suppress, kvVars, failedHere, cleared, failures>>

----------------------------------------------------------------------------
(* The API goes down and comes back at any time, and so does KV. *)
Flip ==
    /\ up' = ~up
    /\ UNCHANGED <<store, tick, due, place, read, suppress, kvVars, historyVars>>
FlipStore ==
    /\ \/ store = "up" /\ store' = "down"
       \/ store = "down" /\ store' = "up"
    /\ UNCHANGED <<up, tick, due, place, read, suppress, kvVars, historyVars>>

(* Five minutes later.  A check ends before the next tick: its only wait of
   any length is the ping, aborted after ten seconds. *)
Tick ==
    /\ due = {} /\ \A c \in Crons : place[c] = "idle"
    /\ tick' = (tick + 1) % Period
    /\ due' = Due(tick')
    /\ cooldown' = IF cooldown = 0 THEN 0 ELSE cooldown - 1
    /\ paged' = FALSE /\ failedHere' = FALSE /\ cleared' = FALSE
    /\ failures' = IF cleared /\ ~failedHere THEN 0 ELSE failures
    /\ UNCHANGED <<up, store, place, read, suppress, streak>>

Check(c) ==
    \/ Start(c) \/ Probe(c) \/ Reset(c) \/ ReadStreak(c) \/ PutStreak(c)
    \/ ReadCooldown(c) \/ PutCooldown(c) \/ SendAlerts(c)

UptimeNext == (\E c \in Crons : Check(c)) \/ Flip \/ FlipStore \/ Tick

UptimeSpec == UptimeInit /\ [][UptimeNext]_uptimeVars

(* Cloudflare runs the crons, and time passes. *)
FairSpec == UptimeSpec /\ WF_uptimeVars(Tick) /\ \A c \in Crons : WF_uptimeVars(Check(c))

----------------------------------------------------------------------------
(* Properties *)

Paging == \E c \in Crons : place[c] = "send" /\ place'[c] = "idle"

(* "Consecutive failed uptime checks required before paging (debounce)": a page
   means as many failed checks as the threshold says, with no tick of healthy
   checks among them that cleared the streak, whatever an overlapping healthy
   check deletes, an overlapping failed one writes back, or KV refuses.  Without
   KV one failed check is enough ("we fail toward alerting"). *)
PageIsEarned ==
    [][Paging => failures >= (IF store = "unbound" THEN 1 ELSE Threshold)]_uptimeVars

(* The outage the API cannot report itself is paged at every tick once the
   streak is reached, and as long as it lasts and KV does not throw. *)
OutageIsPaged == <>[](~up /\ store # "down") => []<>paged
=============================================================================
