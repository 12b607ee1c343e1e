# Cloud Cost Guardian: TLA+ models, checks and proofs

The repository is a set of TypeScript programs that watch cloud spending and act
on it: they page people, switch services off, and in the last resort back up and
stop a database. This directory holds TLA+ models of those programs, the TLC runs
that check them on small instances and, for each component but one, proofs that
TLAPS checks for every value of the constants.

## 1. Inventory

Paths are under `src/packages/`.

| Component | State it keeps | Operations | What is hard |
|---|---|---|---|
| Database kill sequence (`api/src/services/database-kill-switch.ts`) | one Mongo document per sequence: steps, status, an in-flight lock, TTL | kill, advance, abort; the steps of three providers | advances from several Cloud Run instances, crashes with the lock held, stale locks, aborts in flight, whole-document write-backs |
| CLI device-flow login (`api/src/models/cli-auth`, `cli/src/device-flow.ts`) | one short-lived document per code; the CLI's deadline | start, approve, deny, poll | approve in three separate steps, a key that may be delivered once only, retried polls, TTL |
| Cloudflare kill-switch worker (`kill-switch-cf`) | KV: kill snapshots, uptime streak, alert cooldown; Cloudflare's domains and routes | usage check, disconnect, restore, delete, uptime check | crons that come together, KV get/put without conditions, requests that fail half way, a refused token |
| Monitoring engine and rule engine (`api/src/services`) | account status, last alert hash, rule cooldowns | a check cycle per account, kill actions, alerts, the rule preflight | overlapping cycles, stale copies, degraded checks |
| Provider adapters (`api/src/providers`) | none; the customer's resources are outside | connect, check usage, kill, probe, for fifteen providers | each kill is several requests that are refused or lost one by one; usage that cannot be read |
| GCP and AWS kill switches (`kill-switch-gcp`, `kill-switch-aws`) | none of their own | a Pub/Sub or SNS message | at-least-once delivery, an instance that dies between two requests |
| Agent guard (`agent-guard`) | ledger, limits, usage metadata, configuration, pause file | hook, proxy, refresh, status line, the CLI's commands | several processes over one set of files without a lock; old snapshots; back-off |
| Billing (`api/src/routes/billing`) | tiers of profiles, organisations and accounts; the event ledger | checkout, webhook, portal, status | duplicated, reordered, concurrent deliveries; a cascade of writes |
| Budget checker (`api/src/services/budget-checker.ts`) | alerted thresholds per period | check, roll-over | overlapping checks, alert before mark |
| Team, organisations, cloud accounts (`api/src/routes`) | members, invitations, tiers, credentials | invite, accept, revoke, leave, create, delete, rotate | limits checked at another time than used; cascades; rotation in three writes |
| Web console (`web/src`) | the current workspace, the channels and rules it was shown | switch workspace, edit and save | answers that come after the workspace has changed; what was read is written back |
| Database connection and readiness (`api/src/globals`, `api/src/app.ts`) | connection, reconnect flag | connect, reconnect, gate, health | one flag for all reconnects |
| Alerting, forensics, reports, edge agent, advisor, API proxy, CLI commands, SDK | little or none | REST calls and formatting | mostly I/O |

How they interact: the API server is one stateless process per Cloud Run instance
over one MongoDB; every instance may serve any request, and the cron of each runs
the monitoring engine, which calls the provider adapters and writes accounts and
activity. The CLI, the web client and the SDK call the API. The Cloudflare, GCP
and AWS kill switches and the edge agent run in the customer's cloud, on timers or
messages, and share nothing with the API except requests. The agent guard runs on
a developer's machine as short processes, one per hook, over files.

What must hold, by component: a database is stopped only with a verified backup and
a human's approval, one step at a time, and an abort stands; a login delivers its
key once, keeps no delivered key, and ends; a disconnected script is offline and can
be brought back whole; what a check finds is told, and what it cannot read is not
taken for calm; a page means a sustained outage, and a sustained outage is paged; a
kill reported as done has been done, one reported as failed has destroyed nothing; a
tier follows the last paid state and a downgrade leaves nothing above it; an alert or
budget threshold is sent once; a protected service is never killed; cost that was
spent is counted once and a cap is passed by no more than what was under way; a
deletion leaves nothing behind; a click changes the workspace it shows.

The hazards, each at its line with the properties that cover it, are in
`PROJECT.json`.

## 2. Plan

Written, in this order: `KillSequence` with the abstract `KillProtocol` and its
proofs; `CliAuth` and its proofs; `CfDisconnect`; `CfUptime`; `MonitoringEngine`
(with the rule engine) and its proofs; `CfCheck`; the adapters and edge functions;
`AgentGuard`; the workspace (billing, cloud accounts, teams, budgets, console over
one database); the proofs about `CfDisconnect`, `CfUptime` (both in
`CloudflareProofs`), `AgentGuard` and the rules' cooldown; those about `Adapters` and
the workspace.

Left, most important first:

1. `MongoConnection`: the reconnect flag and readiness, with liveness.
2. The edge agent's and the advisor's publication; alert delivery with its retries.
3. An abstract one-shot grant that `CliAuth` implements, and an abstract
   at-most-once threshold for the budget.
4. A proof of the workspace's tier property, which is only checked.

## 3. Modules

Constants are sets of actors or small numbers; every module keeps the code's names
where TLA+ allows. Each operation of the code that does not await is one action;
one that awaits is split at the awaits between which others may step in. Operators
introduced by a comment `Mutant` are faulty variants of a definition, used only to
show that a run would notice such a fault.

### KillSequence, KillProtocol, KillSequenceProofs, MCKillSequence

`doc` is the part of the Mongo document that an advance copies and writes back
(`stepStatus`, `currentStep`, `status`, `snapshotId`, `snapshotVerified`);
`executing`, `stepStartedAt` and `finishedAt` are its other fields, `actions` the
step list fixed at creation. A call goes from `idle` through `read` (`findOne`),
`claimed` (the `findOneAndUpdate` whose filter is `ClaimFilter`) and `releasing`
(the step is executed, its result decided) back to `idle` (`release()`). What the
step does to the database is external: `backup`, `backupOf` and `isolated` follow
what the providers' code asks for, with lost answers, and `nukes` records the nukes
that reached a provider. Abort, crash, the TTL index and the clock are actions.

`KillProtocol` is the abstract promise: a sequence goes forward one step at a time,
strikes only when verified, and ends. `Protocol` in `KillSequence` is the refinement
mapping.

Conditions some properties need, as constants or operators:
`Timely` (no call outlives `STALE_STEP_MS`, no abort while a step executes),
`VerifiesLast` (no list takes a snapshot after a verification), `RealProviders`
(no target is Redis, whose steps only acknowledge) and `OneTarget` (all advances of a
sequence name the same database). The code enforces none of them. Without them, as experiments with other constants showed:

- a step that outlives `STALE_STEP_MS` loses its lock to a second execution, and
  both write the whole copy back;
- a list that takes a second snapshot after the verification keeps the flag
  `snapshotVerified`, so a nuke may follow an unverified snapshot;
- the credential is an argument of each advance, so the steps of one sequence may be
  given different databases; the runs therefore keep one target per sequence where
  the backup is compared with what is nuked;
- an abort during a step is undone by the write-back.

### CliAuth, CliAuthProofs, MCCliAuth

The document of one code (`status`, `polled`, `plaintext`, `apiKeyId`,
`expiresAt`), the approve requests (`Check`, `Mint`, `SaveApproval`: the three
awaits of `approveCliCode`), the poll handlers (`ClaimKey` or `ClaimNothing`, then
`Lookup`; either query may throw, and a claim may be written and throw, which the API
answers with 500) and the CLI's loop (`Begin`, `Poll`, `Receive`). Keys are abstract
ids. Instances die, connections break, the network repeats polls, and an answer is cut
short or replaced by a 502 (`AnswerSpoilt`), after which the loop goes on; the history
`broken` says that an answer may have been lost so: an instance that throws before it
has claimed loses nothing. A second approval that was under way when the first was
delivered stores its own key on the polled document, where it stays until the TTL
removes it; that key is never handed out.

### CfDisconnect, CloudflareProofs

One script with its subdomain, domains and routes; `kv` is its kill snapshot. Each
run of `checkUsage` goes through a Durable Objects loop and a Workers loop and may
disconnect the script in both, request by request, or delete it. A restore reads
the snapshot, enables the subdomain, re-attaches the hosts one by one and clears
the snapshot. Every request may fail or lose its answer. Two histories name the
conditions under which a property is promised: `failed`, when a request has failed,
and `overlapped`, when runs overlapped or the script was killed again before it was
restored. A second disconnect overwrites the snapshot with what was still attached,
and after a failed re-attachment the restore still clears the snapshot: both are why
the conditions are there. Formatting, alerts and the usage queries are left out; the
level they yield is an input (`Levels`).

### CfUptime, CloudflareProofs

The uptime check as run by two crons, with KV's streak and cooldown. A tick is five
minutes; at a tick of `HeavyTicks` the six-hour cron comes too. The probe, each KV
get, put and delete and the sending of the alerts are separate steps. `store` says
whether KV is bound and whether it answers: when it throws the check ends there
(`KvThrows`), a write perhaps done; without KV every failed check pages. `failures`
counts the failed checks since the last tick of healthy checks that cleared the streak.
A healthy check whose delete throws clears nothing, so that failures from before it
still count: see the divergences. When both crons come in the same minute an outage is
counted twice, so a page may come one tick earlier than `Threshold` ticks:
`PageIsEarned` counts checks rather than ticks.

### CfCheck, MCCfCheck

The usage check around `CfDisconnect`: `ReadCore` and `ReadExtended` read today's
usage with their fall-backs (a dataset that cannot be read is skipped, a refused
token becomes a violation of its own), `Judge` compares it with the thresholds,
`Kill` and `Killing` cut or delete what is above the kill threshold, `ReadCooldown`,
`PutCooldown` and `SendAlerts` tell the operator. A number is below, above, or above the
kill threshold; a resource has a dataset and a name, of which `Plain` is what the
cooldown key keeps: it has no digits, so that two resources whose names differ by digits
share a key and webhooks tell of one of them only (PagerDuty tells of both). The cron's
check and that of `GET /check` interleave; `hist.lapses` records what excuses a silence:
`threw` (an exception ends the check before the alert: a request to delete a script
without an answer, or a KV error) and `unsent` (the alert request failed). What a check
cannot read for another reason than its token it does not report (`was`); when that is
everything it reports all clear, against the comment at
`kill-switch-cf/src/index.ts:349`. The cooldown key is put before the alert is sent,
and its time to live is the cron's period.

### MonitoringEngine, MonitoringEngineProofs, MCMonitoringEngine

The accounts (`status`, `config`, `lastAlert`, `checkAge`), the rules (`ruleState`,
`firedAge`, `text`), the alert `channels` and the checks in progress. A check is a record that carries what the
code carries in local variables: the copy of the account read at the start of the
cycle (`config`, `alert`), the rules as they were read (`says`), the usage result,
`cachedHealth`, the rules that were triggered and the violations still to look at. It goes through `Load` (the cycle's
`find`), `CheckUsage`, `Evaluate` (all rules read and evaluated once), for each
triggered rule `Fire` (`lastFiredAt` is stored) and `RuleActs`, `ThresholdStep` for
each violation, `Alert`, `Persist` (`lastAlertHash`, `lastAlertedAt`) and `Finish`.
`WouldFire` is the preflight of `POST /rules/:id/preflight`, which judges a rule
apart from the engine: it also says `wouldFire` of a disabled rule, ignores
`productionProtected`, and reports as protected what rules do not spare. Operators
change settings and status, toggle rules, replace them (`PutRule`: whatever the request
holds, empty conditions and another `lastFiredAt` included) and call the agent trigger;
usage, the provider's health and the channels change at any time; checks die with their
instance.

Without a channel a check alerts nobody and stores nothing. Where there is one,
`sendAlerts` returns all the same when none is enabled or no service takes the alert
(`channels = "mute"`), and the check stores the alert as sent: `NoSilentBreach` is about
what the channels are given, and `BreachIsReported` says that what was lost is made up
for once the channels are heard and the cooldown is over.

Times are kept as ages, counted up to the interval they are compared with: beyond it
the code tells no values apart, and an age at its cap also stands for a time that is
not set. A usage result is a set of `Signals`, some of which are `Violations` with a
service, a category and a severity; a rule's condition is a signal. The histories are
`overtaken` (what others have changed since this check read it), `sent` (the last
alert that the channels were given, whether it was recorded and whether somebody got
it) and `event` (the kill or
alert of the last step).

Left out or merged: the first health probe belongs to the step that needs it; a rule
has one action, so its actions are one step; the default action of a provider is
written `"disconnect"`, which is what matters of it here, that it is none of
`DESTRUCTIVE_DB_ACTIONS`; a rule whose target is `"*"` is one whose target is any
service; failures of MongoDB, forensic snapshots and usage records are left out. The
code never reads a rule's `delay`, and no handler approves an action that awaits
approval, so such an action is one that never comes. A rule's cooldown belongs to the
organisation, so overlapping checks of different accounts share it as overlapping
checks of one account do.

### AdapterSteps, CloudAdapters, DataAdapters, ComputeAdapters, Adapters, AdaptersProofs, MCAdapters

A kill is a program: a sequence of requests, each with the parts of the resource it
takes away and what the code does when it is refused or lost (`AdapterSteps`). The
three middle modules are tables of programs, one for each kind of resource and
action: Cloudflare, GCP and AWS (`CloudAdapters`); MongoDB, Redis, Neo4j Aura and Neon
(`DataAdapters`); RunPod, job and LLM providers, Snowflake and the two edge functions
(`ComputeAdapters`). `Adapters` runs them: `live` is what is left of the
resource, `cred` the credential (which may be revoked, or lose only the analytics
right), `check` and `call` what the instance is doing; the engine, an operator or a
budget alert asks for a kill, the owner starts things again, the instance dies.

What the tables say of the code, and the properties make room for: the default
`autoKillCategories` `["cost"]` matches no usage metric of AWS, GCP, RunPod, Neon,
Neo4j or Cloudflare, so by default nothing of theirs is stopped; GCP's
`"all-services"` reports success without a request, and `set-quota` succeeds for
services it has nothing to do with; AWS with static keys and RunPod swallow every
query failure; MongoDB's shutdown takes a failed connect whose message mentions
"connection" for a success; Cloudflare's `"disconnect"` of R2, D1 and queues deletes
them; a Redis scale-down evicts data, at its first command when a policy that evicts
was set before; an Anthropic key counts as valid unless the
answer is 401 or 403; a Cloud Run service, function or cluster goes on being reported
by its setting after it was stopped; the watcher's message to Pub/Sub may be lost or
doubled; and AWS reports no usage for S3 and some other services it can kill.

What an action leaves up although it succeeds is named: `Unreached` has the zone routes of
a worker that is disconnected, the node pools of a GKE cluster besides `default-pool`, the
other half of a zone, and what runs on in a store that is shrunk, isolated or emptied.
`SuccessIsReal` is about the rest. What a check lists under a name no kill takes has kinds
of its own, for which a kill finds nothing: a D1 database by its name (`d1`; `d1-id` when
only the id is known), a queue by its name, a cluster outside the account's region
(`gke-afar`), the sums over a service (`AwsTotals`, `compute-all`, `pods-all`,
`serverless-all`, `videos`) and the costs. `Stoppable` lists the kinds for which
`BreachIsStopped` promises anything: those listed by a name that their default action
takes. The entries `redis-billing` and `mongodb-billing` are not modelled.

### AgentGuard, AgentGuardProofs, MCAgentGuard

The files `ledger.json`, `limits.json`, `usage-meta.json`, `config.json` and
`PAUSED`, each replaced whole by whoever writes it, and the processes over them:
`Hooks` (load, recompute the session's cost from the transcript, save, judge, alert,
save again), `Requests` of the proxy (preflight, forward, read the limits off the
answer, meter) and `Refreshes` (throttle, ask, store the answer or the back-off).
`truth` is what each session has really cost. `Evaluate` is the budget's verdict,
`AssessWindow` the pacing's, `DollarWallSuppressed` whether a plan's real limits
replace the wall of dollars.

Faithful to the code in what may surprise: a hook that cannot read its transcript
counts 0; of two saves the later wins; the proxy reads `config.json` when it starts
and not again; a refresh stamps its snapshot, and counts a `retry-after`, from the
time its process started, and waits an hour at most; an answer may speak of a plan
and of no window, which takes no wall down; the budget is compared before a request and charged after
it, so a cap is passed by what was under way (`budget.ts:9` says "can never").
Dollars and percentages are small integers, there is one named proxy session and one
window, and the flags of alerts already given in `limits.json` are left out.

### Documents, Billing, Budgets, CloudAccounts, Team, Console, Workspace, WorkspaceProofs, CloudAccountsProofs, MCWorkspace

The API's workspaces over one database. `Documents` holds the collections (`db`),
Stripe (`stripe`, external), an open console (`tab`) and how handlers run: a worker's
`job` is the sequence of steps it still has to do, one per await that changes
something, each carrying what the handler read before it; any two handlers interleave
between steps, and a step may throw, which leaves what was done. `ResolveOrg` and
`Allowed` decide which workspace a request acts for and whether it may.

- `Billing`: checkout and portal, the three webhook events with their ledger
  (repeated, concurrent and out of order), the self-heal of `GET /billing/status`,
  `reconcileTierDowngrade` and the downgrade of owned organisations; creating an
  organisation and converting a personal workspace.
- `CloudAccounts`: connect, rotate, set status, disconnect, API keys; creating
  accounts and deleting workspaces and users with their cascades.
- `Team`: invite, accept, expire, revoke, change a role, remove, switch.
- `Budgets`: one spend budget, its check, its period and its edits.
- `Console`: one browser tab with the header it sends, what its pages were shown,
  and what a click writes back.

What may happen in one behaviour is its cast (`MCWorkspace`), a world to start from
and the operations that may come together, so that the handlers that matter to one
another meet without all of them meeting. `hist.lapses` names what excuses a property:
`failed` (a handler threw half way), `overlap` (two handlers ran at once), `stale` (a
handler used what another had changed since), `disorder` and `twice` (events handled
out of order or twice), `unmarked` (the ledger of events was not written), `swallowed`
(an error the code ignores), and for the console `hasty` (the header was read after
`await getAccessToken()`), `unplaced` (a 403 left the tab without a workspace) and
`outrun` (an answer arrived after the workspace had changed). `hist.outgrown` holds the
organisations whose owner has come to a plan smaller than theirs, until `GET
/billing/status` is asked for the organisation itself and hears of the owner's
subscription. A property that bars these holds otherwise; that they are needed is what section 5's list of divergences
and the hazards say.

## 4. Runs

| Run | Question | Result |
|---|---|---|
| `kill_safety` | With overruns, aborts in flight and crashes, does a nuke need approval and a completed snapshot of that database; is isolation backed up; is the document consistent; does a quiet abort stand? | holds |
| `kill_protocol` | When calls end in time and aborts come between steps, is `KillProtocol` implemented over two providers and three lists, and does an advanced sequence settle, locks of crashed instances included? | holds |
| `cli_keys` | With two approvals, polls that throw, a retrying network and crashes: does a claimed key reach the CLI when no answer is lost, and does a quiet denial stand? | holds |
| `cf_runs` | With two checks, a restore and failing requests: is the script offline after a kill and, in turn and without failures, is everything recoverable and whole after the restore? | holds |
| `uptime` | With both crons, with KV, without it and while it throws: does a page stand for `Threshold` failed checks that no cleared streak lies between, and is a lasting outage paged? | holds |
| `cf_check` | With failing requests and a token that is refused, on its cron and on request: is what was over its threshold told, and is what stays above the kill threshold cut off? | holds |
| `monitor_checks` | With a cron check and a manual one over one account, and dying instances: is a rule fired within its cooldown only by overlapping evaluations, is an alert repeated or withheld only by a check that another has overtaken, where there is no channel, or after a lost record? | holds |
| `monitor_settings` | While operators edit, health and the channels come and go and a check dies: does a protected database stand, does the preflight foretell the check, is a lasting breach acted on and told of and a lasting match fired again and again? | holds |
| `adapters` | For every kind of resource, with refused and lost requests: does a success leave up only what its action does not reach, does a failure keep the data (but of a Redis that evicts already), is a cluster saved before it goes, is lost access not read as calm, is a breach on what the default action can reach stopped in the end? | holds |
| `agent_guard` | With sessions, proxied requests and refreshes over shared files: is the ledger true, is the overshoot bounded, is a window judged by its pace, does the wall stand, is a 429 honoured? | holds |
| `workspace` | With sixteen casts of requests, events and clicks: does a tier have a subscription behind it that covers it, does a downgrade keep the oldest, do credentials, seats and active workspaces match, does a deletion leave nothing, does a budget alert once, does a click stay home? | holds |
| `workspace_channels` | Do alert secrets survive the settings page, as the API's comment supposes? | violated: the page PUTs back the masks it was shown |

The violation is the finding of `PROJECT.json`, with the line of the documentation it
contradicts.

### Bounds

- `KillSequence`: two calls (an execution and the one that races with it; the lock
  makes a third indistinguishable from the second), two snapshot ids (the recorded
  and another), `StaleStep` 1. `kill_safety` runs to `MaxTime` 3 (a lock is taken, goes
  stale, is taken again, and the document expires) with crashes at any time;
  `kill_protocol`, which checks liveness, to `MaxTime` 2 with crashes at time 0, so that
  a lock left behind still goes stale before the clock stops.
- `CliAuth`: two approvals and two handlers (a poll and its repetition), a key for
  each approval, `Ttl` 2 with polls at every tick and the clock running past the
  deadline.
- `CfDisconnect`: two checks and one restore, one domain and one route; the two
  kinds of host are treated differently, two of a kind are not.
- `CfUptime`: `Threshold` 3 as in the code, a cooldown of 2 ticks, a heavy tick in
  every 5, the streak capped just above the threshold, where the code no longer
  tells values apart.
- `CfCheck`: a dataset of each kind of query (`do`, whose script is disconnected or
  deleted, and `ai`, with two models that differ by a digit, which can only be told),
  five configurations, two failing requests and one `GET /check`, a cooldown of one tick.
- `MonitoringEngine`: one account on a managed database, for which the rules of
  protection apply in full; two services, a critical and an ordinary violation and a
  signal that is no violation. `monitor_checks` has one cron check and one manual one
  (of more, any two overlap in the same ways), cooldowns of one tick and one crash.
  `monitor_settings` has one check at a time, a rule and an agent rule, two texts that a
  PUT may give them (one without conditions, one that asks for approval), three
  settings, one edit and one crash, and cooldowns longer than the check interval, so
  that a check does find a rule cooling down and an alert just sent.
- `Adapters`: all kinds of resource, all actions, four settings of an account, one
  request that fails or instance that dies, one restart by the owner, one call from
  outside, one message waiting. With one fault every request of every program is
  refused or lost in turn.
- `AgentGuard`: six casts, a session alone and each pair of parties (hook, request,
  refresh), a spend of up to 5 dollars against a cap of 1 or 2, a day, a staleness and
  a back-off of 1 to 4 ticks, a `retry-after` of nothing, the longest wait and one tick
  more, and one failure or human command (`MaxEvents`).
- `Workspace`: sixteen casts; two workers (two handlers that overlap), two users,
  three workspaces, four cloud accounts, two subscriptions; each cast names two to
  five requests (`left`) and at most one step that throws (`faults`). The tiers' limits
  are scaled down to 1, 2, 3, 4 so that they are met.

Symmetry is used in `kill_safety` only, over calls and snapshots, which no definition
names.

Deadlock is not checked where the system really stops: a sequence and a login end,
the clock stops at its bound, and checks, restores, budgets of events and casts are
finite in number. In `CfUptime`, `CfCheck` and `MonitoringEngine`, which run for ever,
it is.

### Fairness

- `KillSequence`: a call that was accepted goes on (Node runs its continuation), the
  clock ticks, and operators advance again after a 409, as its message tells them to.
  No fairness of aborts, crashes, backups or the TTL.
- `CfUptime`: Cloudflare runs the crons it has started, and time passes. The API may
  go up and down at any time, and so may KV; the liveness property says what follows
  when the API stays down and KV stays up.
- `CfCheck`: the six-hour cron comes and what it started goes on. None for
  `GET /check`, for usage, or for failures, whose number is bounded.
- `MonitoringEngine`: node-cron starts the cycles, a check that has begun goes on, and
  time passes. None for the checks started by hand, the operators, the provider, the
  channels or the crashes; the liveness properties speak of accounts, settings and
  channels that stay.
- `Adapters`: the cron or the scheduler starts checks and what was begun goes on.
  Nothing makes an owner or an operator act.
- `CliAuth`, `CfDisconnect`, `AgentGuard` and `Workspace` state safety only.

## 5. Proofs

All are checked by TLAPS for every value of the constants that meets the modules'
named assumptions (`ConstantsOK`, `CliConstantsOK`, `EngineConstantsOK`,
`UptimeConstantsOK`, `CfConstantsOK`, `GuardConstantsOK`, `AdapterConstantsOK`,
`DocumentsOK`, `CastsOK`, `PlansOK`, `CredsOK`), which TLC evaluates in the runs. `CastsOK` says what a world
may be in which the workspace starts: documents have the fields of their schemas,
whoever sits by an invitation had it accepted and shares it with nobody, nothing
belongs to a deleted workspace, users were last in a workspace they may enter, and the
page of an open console is blank. `PlansOK` adds that nothing sold or subscribed to is
the free plan, and that of a free workspace's cloud accounts the oldest it may keep are
active; `CredsOK` that each cloud account of a workspace has a credential of its own and
of that workspace, and each credential of a workspace such a cloud account. All of these requests could have brought about.

`KillSequenceProofs`
- `TypeCorrect`: `Spec => []TypeOK`.
- `NukeIsSafe`: under `VerifiesLast` and `RealProviders`, `NukedWithVerifiedSnapshot`
  holds whatever overruns, aborts in flight and crashes occur. The property is not
  inductive: a nuke is decided on a call's own copy of the state. `SnapshotInv`
  strengthens it: the document and the copy of every call that holds the lock are
  `Vetted`, that is, a verified flag comes with a completed snapshot and no snapshot
  step is left to replace it. A copy may be stale, yet vetted.
- `AbortStands`: `QuietAbortIsFinal`. Once the document is aborted and nobody holds
  the lock, `ClaimFilter` admits nobody, so no write-back can come.
- `LockExcludes`: under `Timely`, `NoConcurrentExecution`. Inductively (`LockInv`), the
  holder's lock bears its own start time, no call is older than `StaleStep`, and the
  document has not changed since it was copied.
- `ImplementsTheProtocol`: under `Timely`, `Spec => ImplementsProtocol`. Every release
  of the whole copy is one step of `KillProtocol` because, by `LockInv`, the copy is
  an `Outcome` of the current document; `FreshInv` covers the creation.
- `ProgressIsCoherent`: `StepsMatchProgress`. A stale copy may be written over a newer
  document, so not only the document but every copy that may be written back is
  `Coherent` (`ProgressInv`).
- `IsolationIsBackedUp`: under `OneTarget` and `RealProviders`, `IsolatedOnlyWithBackup`.
  By `VerifiedInv` whoever is past a verification, the document or a copy, has a
  completed backup behind it, which stays.

`CliAuthProofs`
- `TypeCorrect`, `DeliversOnce` (`OneShot`), `HandedKeyIsScrubbed` and `DenialStands`.
  `KeyInv` is the invariant behind the second and the third: a document that is still
  claimable has handed out nothing, and the keys in the document, in answers and in
  the approvals under way are distinct. It holds in spite of dying instances and
  repeated polls.
- `KeyArrives`: `KeyNotLost`. `DeliveryInv` says that as long as no answer is lost
  the one request under way is the one the CLI waits for, and that it carries the key.

`CloudflareProofs`
- `KilledStaysOffline`: `KilledIsOffline`. `OfflineInv` says, for each check on its
  own, what it has achieved by the step it is at: which kinds of host it has listed,
  and that each it listed is detached or still on its list. Another check may detach
  the same hosts, never attach one, so what a check has achieved stays.
- `NothingIsLost` and `RestoredIsWhole`: `NothingLostInTurn` and `QuietIsWhole`. Both
  follow from `TurnInv`: as long as the runs come in turn and the script exists, at
  most one run is at work (`OneAtATime`); what is attached and what the snapshot or
  the run at work holds is all there was (`Kept`); the second loop of a check finds
  what the first one left (`KillsOnce`); a restore replays exactly the snapshot
  (`Replays`).
- `TypeCorrect` (`UptimeTypeOK`), and `PageStands`: `PageIsEarned`. `EarnedInv` bounds the streak in KV,
  the streak a cron has read and the streak it is about to page with by the failed
  checks since the streak was last cleared, whatever the other cron deletes or writes
  back and whichever operation of KV throws.

`MonitoringEngineProofs`
- `EngineTypes`: `Spec => []TypeOK`; `ProtectionHolds`: `ProductionStands`;
  `ThresholdsObey`: `ThresholdKillsObey`, for any number of accounts, rules, services
  and overlapping checks. A kill is decided on a check's copy of the settings, so
  neither property is inductive. `CopyIsCurrent` relates the two: the copy of a check
  that still reads it equals the account's settings, unless they have been edited
  since. `ActsOnRule` says that what a check executes is a rule, which separates the
  kills of rules from those of thresholds. `EngineInvariant` puts them together, with
  one lemma for each step of a check (`RuleActsSafe` and `ThresholdStepSafe` are the
  ones that kill) and one for each group of the others; `OneCheck` and
  `OthersOvertaken` say what a step on one check leaves true of all.
- `CooldownHolds`: `RuleCooldownInTurn`. `RulesRipe` is what the property needs of the
  state: a rule that waits to be fired was ripe when it was evaluated, and stays so
  until somebody else fires it or a PUT replaces it, which every waiting check then
  remembers.
- `AlertsOnce` (`AlertsNotRepeated`) and `SilenceIsRepetition` (`NoSilentBreach`) rest on
  `AlertMemory`: what an account stores is the last alert sent, unless the record of that
  one is still to be written or was lost; and a check that is not marked as overtaken
  holds a copy of it, while nobody is about to write another. "Sent" is what the channels
  were given; that it reached somebody is proved of nothing. `Retains` is the frame of
  the steps that neither send nor store nor read an alert. `PreflightAgrees`
  (`PreflightForetells`) is about every rule that has conditions, whoever saved it.

`AgentGuardProofs`
- `WallAlwaysStands`: `WallStands`. A refresh stamps its snapshot with the time its
  process started, so the stamps go backwards; `WallInv` says that no stamp is later
  than the provider's last word, which is enough.
- `LedgerStaysTrue`: `LedgerIsTrueInTurn`. `MeterInv` says of each process what its
  copy of the ledger is worth: unless it has been overtaken, its save writes back the
  proxy's cost.
- `OvershootStaysBounded`: `OvershootIsBounded`. `SpendInv` says that, as long as nothing
  excuses more, what has been paid, the requests sent and the turns the sessions have
  left (`TurnsLeft`) are together below the bound, and of each session how far its books
  are behind (`Owing`: by one turn at most). Whoever is let through has just found
  the books below the cap (`LetThrough`); every other step trades a turn or a request for
  what it cost (`HookTrades`, `RequestTrades`). The sums are `MapThenSumSet`'s:
  `IteratesExist` and `IteratesAgree` show that its recursion defines a function, by
  the least size of a counterexample (`Least`, `BySize`), and `TotalOneChanges`,
  `TotalsCompare`, `TotalOfSome` what sums do. The proof found the property to be false of a
  hook that saves a day after it read: the cost it books is then of a day
  that is over, and nobody counts it; the history now says so.
- `RetryAfterHonoured`: `RetryAfterIsHonoured`. `WaitInv` relates the deadline in
  `usage-meta.json` to the one the provider named, counted from its answer: the file
  may fall short of it by what exceeds an hour and by the time the answer took, not
  by more, and not at all without either.
- `PaceJudged`: `PaceIsJudged`, for all readings of a window, not only those the run
  enumerates. `PaceArithmetic` is about the products `AssessWindow` compares; the rest is
  that whatever snapshot is judged, whoever wrote it last, is a reading
  (`SnapshotOK`) and not from the future.

`AdaptersProofs`
- `ProgramsWellMade`: what the tables of programs have in common, one lemma for each
  adapter. Each is a sequence of well-formed requests; what is listed is taken down
  next; what destroys data comes last and alone; a failure is passed over only by the
  best-effort adapters; and a success before the end is reported only by a request
  that does it all. `ProgramsAchieve` goes through the tables a second time: what can
  succeed pulls every lever that is `Wanted` of the action, or asks for something that is
  not there. The proofs of the properties use these facts and never a table.
- `SuccessStops` (`SuccessIsReal`) rests on `BehindIsDown`: unless something was refused or
  lost, what the requests before the current one take away is gone, except what is
  still to be done of a list; by `ProgramsAchieve` that is every lever of the resource but
  the `Unreached` ones. `NothingLostUnreported` (`NoDataLostInVain`) rests on `HurtIsLast`
  and `SnapshotFirst`: data is hurt by a request whose answer was lost, or by the last
  one, after which nothing can fail, or in a Redis that evicts already; and when the
  request that deletes an ElastiCache cluster is next, the snapshot is there.
  `BlindnessIsTold` (`BlindIsLoud`): every set of queries throws for a credential that
  is not good, whichever of them fails first (`BlindThrows`).

`WorkspaceProofs`
- The handlers are data, sequences of steps a worker still has to make, so an
  invariant speaks of what each worker carries. `JobsOK` says there are three kinds: a
  check of the budget (one step at a time), an answer to an invitation (a seat and a
  settlement, or a settlement) and the plain rest, which touches neither the budget's
  marks, nor the seats that came by invitation, nor the invitations' answers. `PlainStep`
  is that frame, and one lemma for each handler shows it (`CheckoutIsPlain`,
  `DeleteOrgIsPlain`, ...): the loops of deletions and the cascade over owned
  organisations, whose length no bound limits, included.
- `BudgetAlerts` (`BudgetAlertsOnce`): by `BudgetInv`, unless something failed or
  overlapped, a worker that checks the budget is the only busy one, what it carries is
  the budget as it is stored, and what has been alerted is marked, or about to be.
- `SeatsInvited` (`SeatsAreInvited`): by `SeatInv`, an invitation with a seat is
  accepted or about to be, and two seats of one invitation mean that an answer is still
  under way which will find the invitation settled: it is stale, or will be.
- `ClicksAtHome` (`ClicksStayHome`): `Homely`. A tab is `Home` when what its page shows is of
  the workspace it is in, or a load is under way; a change that was sent carries the
  workspace it was clicked in; and a tab that asks where it is has not moved since.
  The rest of the system says nothing a click could be blamed for (`Discreet`).
- `NothingStays` (`NothingLeftBehind`) and `ActiveIsMine` (`ActiveOrgIsMine`): `Serial`. As
  long as nothing went wrong (`Calm`: nothing failed, overlapped, was stale or
  swallowed), nothing belongs to a workspace that is gone (`RefsStand`), and whoever was
  last in a workspace that cannot be entered any more is about to be taken away
  from it. Deletions are why this is not inductive by itself, so `Serial` says what is
  left of one: `InTurn`, its workspaces and users go in the last step; `Careful`,
  what belongs to a workspace that is going is gone or still listed. All the
  other handlers are `Gentle`: they delete no workspace and take no seat
  (`Steadies`), they start no deletion (`MildJobs`), and while one is under way they
  touch nothing it counts on, or else the overlap is on record (`Heeded`).
  `Removed` says what deleting one thing does, whichever it is, and six lemmas
  (`DeleteOrgSerial`, `DeleteMeSerial`, `EraseOneSerial`, `CancelAllSerial`,
  `RemoveMemberSerial`, `ClearProfileSerial`) take the handlers that delete in turn.

`CloudAccountsProofs`
- `OldestKept` (`DowngradeKeepsOldest`): `PauseInv`. As long as requests come one at a
  time, nothing fails and nobody acts on a stale copy (`Brief`), a workspace whose cloud
  accounts nobody set by hand is `Paused`: active are the oldest its free plan allows,
  or those and the ones the pausing handler has still to pause (`Pausing`), or all of
  them; and then, should the workspace be on the free plan, a handler still has
  to reconcile it (`Owed`). `OrderOK` says why it is owed: wherever a handler's steps
  save the free plan, the reconciliation of that workspace comes next, and no plan
  that is sold is the free one (`StripeGood`), so nothing else ends there. Every
  handler but two is `Even`: it moves no cloud account of a workspace it does not
  mark as touched, and takes none to the free plan without owing that. Not even the
  order of webhooks has to be assumed. `ReconcileKeepsPauses` and `PauseKeepsPauses` are
  about the two, and need that the oldest of the oldest are the oldest
  (`OldestAgain`). `PlansOK` says it of the world a behaviour starts in.
- `CredentialsAgree` (`CredentialsMatch`): `CredInv`, with requests in any order and any
  number of them under way. The property speaks of quiet moments; in between, a cloud
  account may lack its credential and a credential its cloud account, and `Matched` says
  who makes up for it: every cloud account is `Lasting` (its credential is of its workspace, or
  a handler is about to replace the credential or drop the cloud account), every
  credential `Useful` (a cloud account uses it, or a handler `Holds` it to link it), or
  else the workspace is `Doomed`, gone or in the list of a deletion under way. What each
  handler read before is good as long as it matters (`Carries`): a credential to be
  linked is `Loose`, nobody else's; one to be dropped is `Reserved`, its cloud account's
  alone; one that was dropped is `Spent`. Handlers that do not touch credentials are
  `Errand`s, and `MatchedStays` reduces the others to what they change themselves: the five
  steps of connecting, rotating and disconnecting, the two deletions and Stripe's
  cancellation. Why two rotations of one cloud account, or a connection to a workspace
  that is being deleted, need the excuse `stale` shows in `RewireMatches`,
  `DropCloudMatches` and `StoreMatches`.

`TypeCorrect`, `DeliversOnce`, `HandedKeyIsScrubbed`, `LockExcludes` and
`ThresholdsObey` state what no run lists: the other properties of their modules rest
on them.

Only model-checked: liveness (`SequenceSettles`, `OutageIsPaged`, `BreachIsCut`,
`BreachIsActedOn`, `BreachIsTold`, `RuleKeepsFiring`, `BreachIsStopped`), which is out of
the prover's reach; and `TierFollowsSubscription`, whose formula names what the code
leaves behind: an organisation that has outgrown its owner's plan, while some
subscription of the owner's lives, and the organisations of an owner whose converted
workspace has been deleted or has lost its subscription's id (see the divergences).
Without the first clause `OrgsCast` breaks it, without the second `OrphanCast`.

The library's theorems that do induction over data cannot be used, so where a proof
needs one (the sums of `AgentGuardProofs`) it argues by a least counterexample; what the
cascade over owned organisations computes, workspace by workspace in their order, is
left to TLC.

### Known divergences

Where the code does something else than a line of the repository says, or than a
reader would expect, and the models follow the code. Lines are under `src/packages/`.

- `api/src/services/database-kill-switch.ts:209`: a release writes the whole copy back
  and revives a sequence aborted meanwhile (the comment at :286 says it stays aborted).
- `api/src/models/cli-auth/schema.ts:106`: an approval saves without a condition and
  overwrites a denial; at :98 the key is stored before the code is saved, so a failure
  between them leaves a key nobody holds.
- `kill-switch-cf/src/index.ts:457`: a second disconnect overwrites the only record of
  what the first removed. At :349, all datasets failing is reported as all clear. At
  :623, the cooldown key drops the digits of names as well as of numbers, so a webhook
  that has told of `api-1` is silent about `api-2`. At :978, a healthy check that cannot
  delete the streak leaves it, so one later failure may page (the comment at :947 says
  it is reset "the moment we're healthy"); at :981, a failed check whose KV throws pages
  nobody, where without KV (:975) it would.
- `api/src/providers/cloudflare/checker.ts:431`: disconnecting a worker takes its address
  and its custom domains away and reports success with the zone's routes in place, where
  `api/src/providers/types.ts:106` says "Remove routes". At :351, a D1 database is listed
  by its name and at :654 deleted by what was listed, where the API takes the id; queues
  (:380, :509) likewise.
- `api/src/providers/gcp/checker.ts:728`: scaling a GKE cluster down is success when
  `default-pool` is at zero, and asks in the account's region only, while clusters are
  listed in all (:194). `api/src/providers/aws/checker.ts:158` and its like list a sum over
  a service as an entry of its own, which a violation then names and no kill can find.
- `api/src/providers/redis/checker.ts:338`: a Redis whose policy evicts begins to at the
  first of two commands; when the second fails the kill is reported as failed.
- `api/src/services/monitoring-engine.ts:351`: a rule's action does not look at
  `protectedServices`, which `api/src/providers/types.ts:423` and the dashboard promise.
  At :542, an alert that reached nobody (`alerting.ts:95`, :117) is stored as sent, and
  the same breach is then silent for a cooldown.
- `api/src/routes/rules/index.ts:330`: a PUT may leave a rule without conditions: under
  `"all"` every check fires it, while the preflight (:54) refuses to judge it; and it
  writes back whatever `lastFiredAt` it is sent.
- `api/src/routes/rules/index.ts:406`: the agent trigger saves a rule without
  conditions under `"any"`, which the engine never triggers, and answers "executing".
- `api/src/routes/billing/index.ts:154`: after a personal workspace is converted, the
  next `GET /billing/status` finds no personal workspace of the owner and takes the plan
  from the one that pays, where the comment at :136 says that organisations carry no
  subscription of their own (`ConvertPersonal`, then `StatusAsked` and `Look`). For a
  converted workspace a failed retrieval of its own subscription does not stop that
  (:151), and the subscription's id is dropped (:183) while Stripe goes on charging.
  Deleting a converted workspace (`api/src/routes/orgs/index.ts:226`) neither cancels its
  subscription nor downgrades the owner's other organisations: they keep the plan until
  their own status is asked for, and a later cancellation finds no workspace. A checkout
  delivered after the deletion sets a plan whose subscription is dead; a second checkout
  orphans the first subscription; a change from team to pro pauses nothing and leaves
  the owner's organisations on team until their own status is asked; a failed
  downgrade is not found again by the retry.
- `api/src/routes/cloud-accounts/index.ts:20`: the limit is counted before the insert;
  `PUT` and `PATCH` activate accounts beyond it. The member limit is looked at when an
  invitation is sent and not when it is accepted, and two users may accept one at once.
- `api/src/app.ts:395`: deleting oneself ignores Stripe's failures, leaves other
  members' active workspace and the rules, budgets and alert history of the workspace.
- `agent-guard/src/claude-usage.ts:293`: a 429's `retry-after` is cut to an hour, and at
  :295 counted from the start of the process, up to the eight seconds of its timeout
  before the answer; "which we must honour" (:182) makes no such exception.
- An API key is rolled by a create and a delete (`api/src/routes/auth/index.ts:55` says
  "atomically").
- `web/src/pages/Settings/SettingsPage.tsx:160`: a channel list that failed to load is
  an empty list, and adding to it removes all others; a rule page writes back the whole
  rule it was shown.

## 6. Not modelled

Parts of the components above that keep no state relevant to a property: formatting
of messages and pages, authentication of requests, encryption, prices, the payloads
of the providers' requests. In `KillSequence`, creation of a sequence is one insert,
and an operator's reads are left out. In `Billing`, `invoice.payment_failed` sets a
status that is only shown. In `CfUptime`, the one-hour expiry of the streak and KV's
eventual consistency are left out. The database connection and its readiness gate, the
edge agent, the advisor, alert delivery, forensics, reports, the API proxy, the CLI's
other commands, the SDK and the console's other pages are not modelled: they are
listed in `PROJECT.json` with the reason.
