----------------------------- MODULE CfDisconnect -----------------------------
(***************************************************************************)
(* How the Cloudflare kill-switch worker disconnects one script and how    *)
(* /restore brings it back from the kill snapshot in KV.                   *)
(*                                                                         *)
(* checkUsage runs on the six-hour cron and on GET /check, over a Durable  *)
(* Objects loop and a Workers loop that may both disconnect the script.    *)
(* Each disconnect lists the script's domains and routes, deletes them one *)
(* by one and then overwrites the script's only snapshot.  Checks and      *)
(* restores interleave at every request to Cloudflare and to KV.           *)
(***************************************************************************)
EXTENDS Integers, FiniteSets

CONSTANTS
    Checks,         \* runs of checkUsage
    Restores,       \* GET /restore requests
    Domains,        \* custom domains of the script
    Routes,         \* zone routes of the script
    AutoDisconnect, Protected,  \* the worker's configuration
    Levels          \* usage a check may read: "ok", "alert", "kill"

Hosts == Domains \cup Routes

ASSUME CfConstantsOK ==
    /\ Domains \cap Routes = {}
    /\ AutoDisconnect \in BOOLEAN /\ Protected \in BOOLEAN
    /\ Levels \subseteq {"ok", "alert", "kill"}

VARIABLES
    exists,         \* external: the script is deployed
    subdomain,      \* external: its workers.dev subdomain is enabled
    attached,       \* external: the hosts attached to it
    autoDelete,     \* the worker's configuration: Durable Objects are deleted
    kv,             \* KV kill:<script>: {the hosts of the snapshot}, or {}
    pc,             \* where each check is
    loop,           \* the loop it is in: over objects, then over workers
    levels,         \* the usage it read for the script, per loop
    todo,           \* hosts it has listed and not tried yet
    removed,        \* removedDomains and removedRoutes of its disconnect
    rpc,            \* where each restore is
    replay,         \* hosts of the snapshot a restore has not tried yet
    failed,         \* history: a request to Cloudflare or KV has failed
    overlapped      \* history: a check or a restore began while another was
                    \* running, or a check found the script over its kill
                    \* threshold in both loops, or before it was restored

cloudVars   == <<exists, subdomain, attached>>
checkVars   == <<pc, loop, levels, todo, removed>>
restoreVars == <<rpc, replay>>
vars        == <<cloudVars, kv, checkVars, restoreVars, autoDelete, failed, overlapped>>

Loops == {"do", "worker"}

Init ==
    /\ exists = TRUE /\ subdomain = TRUE /\ attached = Hosts
    /\ autoDelete \in BOOLEAN
    /\ kv = {} /\ failed = FALSE /\ overlapped = FALSE
    /\ pc = [r \in Checks |-> "start"]
    /\ loop = [r \in Checks |-> "do"]
    /\ levels = [r \in Checks |-> [l \in Loops |-> "ok"]]
    /\ todo = [r \in Checks |-> {}]
    /\ removed = [r \in Checks |-> {}]
    /\ rpc = [q \in Restores |-> "start"]
    /\ replay = [q \in Restores |-> {}]

NoneRunning ==
    /\ \A r \in Checks : pc[r] \in {"start", "done"}
    /\ \A q \in Restores : rpc[q] \in {"start", "done"}

Go(r, where) == pc' = [pc EXCEPT ![r] = where]

(* A request works, or it fails or its answer is lost. *)
Works == UNCHANGED failed
Fails == failed' = TRUE

----------------------------------------------------------------------------
(* checkUsage *)

ReadUsage(r) ==
    /\ pc[r] = "start"
    /\ \E do, worker \in Levels :
        /\ overlapped' = \/ overlapped \/ ~NoneRunning
                         \/ kv # {} /\ "kill" \in {do, worker}
                         \/ {do, worker} = {"kill"}
        /\ levels' = [levels EXCEPT ![r] = [l \in Loops |-> IF l = "do" THEN do ELSE worker]]
    /\ Go(r, "decide")
    /\ UNCHANGED <<cloudVars, kv, loop, todo, removed, restoreVars, autoDelete, failed>>

Eligible(r) == levels[r][loop[r]] = "kill" /\ ~Protected

(* On to the Workers loop, or to the alerts, which change nothing here. *)
NextLoop(r) ==
    /\ loop' = [loop EXCEPT ![r] = "worker"]
    /\ Go(r, IF loop[r] = "do" THEN "decide" ELSE "done")

Deletes(r)     == Eligible(r) /\ loop[r] = "do" /\ autoDelete
Disconnects(r) == Eligible(r) /\ AutoDisconnect /\ ~Deletes(r)

Skip(r) ==
    /\ pc[r] = "decide" /\ ~Deletes(r) /\ ~Disconnects(r)
    /\ NextLoop(r)
    /\ UNCHANGED <<cloudVars, kv, levels, todo, removed, restoreVars,
                   autoDelete, overlapped, failed>>

(* deleteWorker.  Only the first loop deletes.  A refusal is noted; a request
   without an answer throws, which ends the check. *)
DeleteWorker(r) ==
    /\ pc[r] = "decide" /\ Deletes(r)
    /\ \/ Works /\ exists' = FALSE /\ NextLoop(r)
       \/ Fails /\ UNCHANGED exists /\ NextLoop(r)
       \/ Fails /\ exists' \in {FALSE, exists} /\ Go(r, "done") /\ UNCHANGED loop
    /\ UNCHANGED <<subdomain, attached, kv, levels, todo, removed, restoreVars,
                   autoDelete, overlapped>>

Disconnect(r) ==
    /\ pc[r] = "decide" /\ Disconnects(r)
    /\ Go(r, "subdomain")
    /\ UNCHANGED <<cloudVars, kv, loop, levels, todo, removed, restoreVars,
                   autoDelete, overlapped, failed>>

----------------------------------------------------------------------------
(* disconnectWorker *)

DisableSubdomain(r) ==
    /\ pc[r] = "subdomain"
    /\ \/ Works /\ subdomain' = FALSE
       \/ Fails /\ subdomain' \in {FALSE, subdomain}
    /\ Go(r, "listDomains")
    /\ UNCHANGED <<exists, attached, kv, loop, levels, todo, removed, restoreVars,
                   autoDelete, overlapped>>

(* Mutant: zone routes are not removed, as before #10. *)
ListDomainsOnly(r) ==
    /\ pc[r] \in {"listDomains", "listRoutes"}
    /\ todo' = [todo EXCEPT ![r] = attached \cap Domains]
    /\ Works
    /\ Go(r, IF pc[r] = "listDomains" THEN "domains" ELSE "routes")
    /\ UNCHANGED <<cloudVars, kv, loop, levels, removed, restoreVars,
                   autoDelete, overlapped>>

(* The list of the script's domains, or of its routes; a failed list is
   empty. *)
List(r) ==
    /\ pc[r] \in {"listDomains", "listRoutes"}
    /\ LET listed == attached \cap (IF pc[r] = "listDomains" THEN Domains ELSE Routes)
       IN  \/ Works /\ todo' = [todo EXCEPT ![r] = listed]
           \/ Fails /\ todo' = [todo EXCEPT ![r] = {}]
    /\ Go(r, IF pc[r] = "listDomains" THEN "domains" ELSE "routes")
    /\ UNCHANGED <<cloudVars, kv, loop, levels, removed, restoreVars,
                   autoDelete, overlapped>>

(* One DELETE.  It is recorded when it succeeds: not when the host is gone
   already, when it fails, or when the answer is lost, which also leaves the
   loop. *)
Remove(r) ==
    /\ pc[r] \in {"domains", "routes"}
    /\ \E h \in todo[r] :
        \/ /\ Works
           /\ attached' = attached \ {h}
           /\ removed' = [removed EXCEPT ![r] = IF h \in attached THEN @ \cup {h} ELSE @]
           /\ todo' = [todo EXCEPT ![r] = @ \ {h}]
        \/ /\ Fails
           /\ todo' = [todo EXCEPT ![r] = @ \ {h}]
           /\ UNCHANGED <<attached, removed>>
        \/ /\ Fails
           /\ attached' \in {attached, attached \ {h}}
           /\ todo' = [todo EXCEPT ![r] = {}]
           /\ UNCHANGED removed
    /\ UNCHANGED <<exists, subdomain, kv, pc, loop, levels, restoreVars,
                   autoDelete, overlapped>>

RemovedAll(r) ==
    /\ pc[r] \in {"domains", "routes"} /\ todo[r] = {}
    /\ Go(r, IF pc[r] = "domains" THEN "listRoutes" ELSE "put")
    /\ UNCHANGED <<cloudVars, kv, loop, levels, todo, removed, restoreVars,
                   autoDelete, overlapped, failed>>

(* Mutant: the snapshot records the domains only. *)
PutDomainsOnly(r) ==
    /\ pc[r] = "put"
    /\ kv' = {removed[r] \cap Domains} /\ Works
    /\ removed' = [removed EXCEPT ![r] = {}]
    /\ NextLoop(r)
    /\ UNCHANGED <<cloudVars, levels, todo, restoreVars, autoDelete, overlapped>>

(* The snapshot replaces the one before; a failed put is logged. *)
PutSnapshot(r) ==
    /\ pc[r] = "put"
    /\ \/ Works /\ kv' = {removed[r]}
       \/ Fails /\ kv' \in {{removed[r]}, kv}
    /\ removed' = [removed EXCEPT ![r] = {}]
    /\ NextLoop(r)
    /\ UNCHANGED <<cloudVars, levels, todo, restoreVars, autoDelete, overlapped>>

----------------------------------------------------------------------------
(* restoreWorker *)

GetSnapshot(q) ==
    /\ rpc[q] = "start"
    /\ overlapped' = (overlapped \/ ~NoneRunning)
    /\ \/ /\ kv = {}
          /\ rpc' = [rpc EXCEPT ![q] = "done"]
          /\ UNCHANGED replay
       \/ /\ kv # {}
          /\ replay' = [replay EXCEPT ![q] = UNION kv]
          /\ rpc' = [rpc EXCEPT ![q] = "subdomain"]
    /\ UNCHANGED <<cloudVars, kv, checkVars, autoDelete, failed>>

(* Mutant: the subdomain stays disabled. *)
SkipSubdomain(q) ==
    /\ rpc[q] = "subdomain"
    /\ rpc' = [rpc EXCEPT ![q] = "replay"]
    /\ UNCHANGED <<cloudVars, kv, checkVars, replay, autoDelete, overlapped, failed>>

EnableSubdomain(q) ==
    /\ rpc[q] = "subdomain"
    /\ \/ exists /\ Works /\ subdomain' = TRUE
       \/ exists /\ Fails /\ subdomain' \in {TRUE, subdomain}
       \/ ~exists /\ Works /\ UNCHANGED subdomain
    /\ rpc' = [rpc EXCEPT ![q] = "replay"]
    /\ UNCHANGED <<exists, attached, kv, checkVars, replay, autoDelete, overlapped>>

(* One domain or route; a failure is reported and the loop goes on. *)
Reattach(q) ==
    /\ rpc[q] = "replay"
    /\ \E h \in replay[q] :
        /\ replay' = [replay EXCEPT ![q] = @ \ {h}]
        /\ \/ exists /\ Works /\ attached' = attached \cup {h}
           \/ exists /\ Fails /\ attached' \in {attached, attached \cup {h}}
           \/ ~exists /\ Works /\ UNCHANGED attached
    /\ UNCHANGED <<exists, subdomain, kv, checkVars, rpc, autoDelete, overlapped>>

ClearSnapshot(q) ==
    /\ rpc[q] = "replay" /\ replay[q] = {}
    /\ \/ Works /\ kv' = {}
       \/ Fails /\ kv' \in {{}, kv}
    /\ rpc' = [rpc EXCEPT ![q] = "done"]
    /\ UNCHANGED <<cloudVars, checkVars, replay, autoDelete, overlapped>>

Next ==
    \/ \E r \in Checks :
        \/ ReadUsage(r) \/ Skip(r) \/ DeleteWorker(r) \/ Disconnect(r)
        \/ DisableSubdomain(r) \/ List(r) \/ Remove(r) \/ RemovedAll(r) \/ PutSnapshot(r)
    \/ \E q \in Restores :
        GetSnapshot(q) \/ EnableSubdomain(q) \/ Reattach(q) \/ ClearSnapshot(q)

Spec == Init /\ [][Next]_vars

----------------------------------------------------------------------------
(* Properties *)

(* A host the switch has removed from a script that still exists is in its
   snapshot, or in the hands of the check or restore that will write or replay
   it. *)
Recoverable ==
    exists => \A h \in Hosts \ attached :
        \/ h \in UNION kv
        \/ \E r \in Checks : h \in removed[r]
        \/ \E q \in Restores : h \in replay[q]

(* Everything removed is recoverable ("so a false positive can be reversed") as
   long as no request fails, the runs come one at a time and the script is
   killed in one loop, once per restore: a second disconnect overwrites the
   snapshot with what was still attached. *)
InTurn == ~failed /\ ~overlapped
NothingLostInTurn == InTurn => Recoverable

(* A script that has been restored serves on everything it served on. *)
QuietIsWhole ==
    InTurn /\ exists /\ NoneRunning /\ kv = {} => attached = Hosts /\ subdomain

(* When no request fails, a check that was to disconnect the script leaves it
   unreachable, however other checks interleave: nothing that served it stays
   attached (the bug #10 mentions). *)
WasToDisconnect(r) ==
    AutoDisconnect /\ ~Protected /\
        (levels[r]["worker"] = "kill" \/ (levels[r]["do"] = "kill" /\ ~autoDelete))
KilledIsOffline ==
    ~failed /\ (\A q \in Restores : rpc[q] = "start") =>
        \A r \in Checks : pc[r] = "done" /\ WasToDisconnect(r) =>
            attached = {} /\ ~subdomain
=============================================================================
