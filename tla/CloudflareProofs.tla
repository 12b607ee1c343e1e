--------------------------- MODULE CloudflareProofs ---------------------------
(***************************************************************************)
(* The Cloudflare kill-switch worker, in two parts.  A disconnect does its *)
(* work, for any number of checks, domains and routes: however the checks  *)
(* interleave, once one that was to disconnect the script has ended        *)
(* nothing serves it, as long as no request fails and nobody has begun to  *)
(* restore it.  And PageIsEarned, for any pattern of the two crons, any    *)
(* threshold and any cooldown: the streak in KV never runs ahead of the    *)
(* failed checks that were made, although two invocations read, add and    *)
(* write it without a condition.                                           *)
(***************************************************************************)
EXTENDS CfDisconnect, CfUptime, TLAPS


Disconnecting == {"subdomain", "listDomains", "domains", "listRoutes", "routes", "put"}
Places        == {"start", "decide", "done"} \cup Disconnecting

TypeOK ==
    /\ exists \in BOOLEAN /\ subdomain \in BOOLEAN /\ autoDelete \in BOOLEAN
    /\ failed \in BOOLEAN /\ overlapped \in BOOLEAN
    /\ attached \in SUBSET Hosts
    /\ pc \in [Checks -> Places]
    /\ loop \in [Checks -> Loops]
    /\ levels \in [Checks -> [Loops -> {"ok", "alert", "kill"}]]
    /\ todo \in [Checks -> SUBSET Hosts]
    /\ removed \in [Checks -> SUBSET Hosts]
    /\ rpc \in [Restores -> {"start", "subdomain", "replay", "done"}]
    /\ replay \in [Restores -> SUBSET Hosts]
    /\ kv \in SUBSET SUBSET Hosts

Undisturbed == ~failed /\ \A q \in Restores : rpc[q] = "start"
Offline     == attached = {} /\ ~subdomain

(* The first loop is to disconnect the script. *)
FirstLoopKills(r) == AutoDisconnect /\ ~Protected /\ ~autoDelete /\ levels[r]["do"] = "kill"

(* What a check has brought about by the point it has reached. *)
Achieved(r) ==
    /\ pc[r] = "start" => loop[r] = "do"
    /\ pc[r] \in {"listDomains", "domains", "listRoutes", "routes", "put"} => ~subdomain
    /\ pc[r] = "domains" => attached \cap Domains \subseteq todo[r]
    /\ pc[r] \in {"listRoutes", "routes", "put"} => attached \cap Domains = {}
    /\ pc[r] = "routes" => attached \cap Routes \subseteq todo[r]
    /\ pc[r] = "put" => attached \cap Routes = {}
    /\ pc[r] = "decide" /\ loop[r] = "worker" /\ FirstLoopKills(r) => Offline
    /\ pc[r] = "done" /\ WasToDisconnect(r) => Offline

OfflineInv == TypeOK /\ (Undisturbed => \A r \in Checks : Achieved(r))

LEMMA InitOffline == Init => OfflineInv
<1> SUFFICES ASSUME Init PROVE OfflineInv
  OBVIOUS
<1>1. TypeOK
  <2>1. levels \in [Checks -> [Loops -> {"ok", "alert", "kill"}]]
    BY DEF Init
  <2> QED
    BY <2>1 DEF Init, TypeOK, Places, Loops
<1>2. \A r \in Checks : Achieved(r)
  BY DEF Init, Achieved
<1> QED
  BY <1>1, <1>2 DEF OfflineInv

(* A step of one check, under which the script becomes no more reachable,
   leaves the others where they had come to. *)
LEMMA OthersAchieved ==
    ASSUME TypeOK, NEW r \in Checks, NEW s \in Checks, s # r, Achieved(s),
           attached' \subseteq attached, subdomain' = subdomain \/ ~subdomain',
           pc'[s] = pc[s], loop'[s] = loop[s], levels'[s] = levels[s], todo'[s] = todo[s],
           autoDelete' = autoDelete
    PROVE  Achieved(s)'
<1>1. FirstLoopKills(s)' = FirstLoopKills(s) /\ WasToDisconnect(s)' = WasToDisconnect(s)
  BY DEF FirstLoopKills, WasToDisconnect
<1>2. Offline => Offline'
  BY DEF Offline
<1> QED
  BY <1>1, <1>2 DEF Achieved
LEMMA NextTyped == TypeOK /\ [Next]_vars => TypeOK'
<1> SUFFICES ASSUME TypeOK, [Next]_vars PROVE TypeOK'
  OBVIOUS
<1> USE DEF TypeOK, Places, Disconnecting, Loops, Go, NextLoop, Works, Fails, cloudVars,
        checkVars, restoreVars
<1>1. ASSUME NEW r \in Checks, ReadUsage(r) PROVE TypeOK'
  <2>1. PICK do \in Levels, worker \in Levels :
           levels' = [levels EXCEPT ![r] = [l \in Loops |-> IF l = "do" THEN do ELSE worker]]
    BY <1>1 DEF ReadUsage
  <2>2. levels' \in [Checks -> [Loops -> {"ok", "alert", "kill"}]]
    BY <2>1, CfConstantsOK
  <2>3. overlapped' \in BOOLEAN
    BY <1>1, Zenon DEF ReadUsage
  <2> QED
    BY <1>1, <2>2, <2>3, SMT DEF ReadUsage
<1>2. ASSUME NEW r \in Checks, Skip(r) \/ Disconnect(r) \/ RemovedAll(r) PROVE TypeOK'
  <2>1. pc' \in [Checks -> Places] /\ loop' \in [Checks -> Loops]
    BY <1>2 DEF Skip, Disconnect, RemovedAll
  <2> QED
    BY <1>2, <2>1 DEF Skip, Disconnect, RemovedAll
<1>3. ASSUME NEW r \in Checks, DeleteWorker(r) \/ DisableSubdomain(r) PROVE TypeOK'
  <2>1. pc' \in [Checks -> Places] /\ loop' \in [Checks -> Loops]
    BY <1>3 DEF DeleteWorker, DisableSubdomain
  <2>2. exists' \in BOOLEAN /\ subdomain' \in BOOLEAN /\ failed' \in BOOLEAN
    BY <1>3 DEF DeleteWorker, DisableSubdomain
  <2> QED
    BY <1>3, <2>1, <2>2 DEF DeleteWorker, DisableSubdomain
<1>4. ASSUME NEW r \in Checks, List(r) PROVE TypeOK'
  <2>1. pc' \in [Checks -> Places] /\ failed' \in BOOLEAN
    BY <1>4 DEF List
  <2>2. attached \cap (IF pc[r] = "listDomains" THEN Domains ELSE Routes) \in SUBSET Hosts
    OBVIOUS
  <2>3. todo' \in [Checks -> SUBSET Hosts]
    BY <1>4, <2>2 DEF List
  <2> QED
    BY <1>4, <2>1, <2>3 DEF List
<1>5. ASSUME NEW r \in Checks, Remove(r) \/ PutSnapshot(r) PROVE TypeOK'
  <2>1. CASE Remove(r)
    <3>1. todo' \in [Checks -> SUBSET Hosts]
      BY <2>1 DEF Remove
    <3>2. removed' \in [Checks -> SUBSET Hosts]
      BY <2>1 DEF Remove
    <3>3. attached' \in SUBSET Hosts /\ failed' \in BOOLEAN
      BY <2>1 DEF Remove
    <3> QED
      BY <2>1, <3>1, <3>2, <3>3 DEF Remove
  <2>2. CASE PutSnapshot(r)
    <3>1. pc' \in [Checks -> Places] /\ loop' \in [Checks -> Loops] /\ failed' \in BOOLEAN
      BY <2>2 DEF PutSnapshot
    <3>2. removed' \in [Checks -> SUBSET Hosts] /\ {removed[r]} \in SUBSET SUBSET Hosts
      BY <2>2 DEF PutSnapshot
    <3> QED
      BY <2>2, <3>1, <3>2 DEF PutSnapshot
  <2> QED
    BY <1>5, <2>1, <2>2
<1>6. ASSUME NEW q \in Restores, GetSnapshot(q) PROVE TypeOK'
  <2>1. overlapped' \in BOOLEAN
    BY <1>6, Zenon DEF GetSnapshot
  <2>2. replay' \in [Restores -> SUBSET Hosts]
    BY <1>6, SMT DEF GetSnapshot
  <2> QED
    BY <1>6, <2>1, <2>2, SMT DEF GetSnapshot
<1>7. ASSUME NEW q \in Restores, EnableSubdomain(q) \/ Reattach(q) \/ ClearSnapshot(q) PROVE TypeOK'
  <2>1. rpc' \in [Restores -> {"start", "subdomain", "replay", "done"}]
    BY <1>7 DEF EnableSubdomain, Reattach, ClearSnapshot
  <2>2. failed' \in BOOLEAN /\ subdomain' \in BOOLEAN /\ kv' \in SUBSET SUBSET Hosts
    BY <1>7 DEF EnableSubdomain, Reattach, ClearSnapshot
  <2>3. replay' \in [Restores -> SUBSET Hosts] /\ attached' \in SUBSET Hosts
    <3>1. CASE Reattach(q)
      <4>1. PICK h \in replay[q] : /\ replay' = [replay EXCEPT ![q] = @ \ {h}]
                                   /\ attached' \in {attached, attached \cup {h}}
        BY <3>1 DEF Reattach
      <4> QED
        BY <4>1
    <3>2. CASE EnableSubdomain(q) \/ ClearSnapshot(q)
      BY <3>2 DEF EnableSubdomain, ClearSnapshot
    <3> QED
      BY <1>7, <3>1, <3>2
  <2> QED
    BY <1>7, <2>1, <2>2, <2>3 DEF EnableSubdomain, Reattach, ClearSnapshot
<1>8. CASE UNCHANGED vars
  BY <1>8, SMT DEF vars
<1> QED
  BY <1>1, <1>2, <1>3, <1>4, <1>5, <1>6, <1>7, <1>8 DEF Next

LEMMA StartsAchieved ==
    ASSUME TypeOK, NEW r \in Checks, Achieved(r),
           ReadUsage(r) \/ Skip(r) \/ DeleteWorker(r) \/ Disconnect(r), ~failed'
    PROVE  Achieved(r)'
<1> USE DEF TypeOK, Go, NextLoop, cloudVars, checkVars, restoreVars
<1>1. CASE ReadUsage(r)
  BY <1>1 DEF ReadUsage, Achieved
<1>2. CASE Skip(r)
  BY <1>2 DEF Skip, Achieved, Offline, Deletes, Disconnects, Eligible, FirstLoopKills,
     WasToDisconnect, Loops
<1>3. CASE DeleteWorker(r)
  <2>1. NextLoop(r) /\ UNCHANGED <<subdomain, attached, levels, todo, autoDelete>>
    BY <1>3 DEF DeleteWorker, Works, Fails
  <2> QED
    BY <1>3, <2>1 DEF DeleteWorker, Achieved, Offline, Deletes, Eligible, FirstLoopKills,
       WasToDisconnect, Loops
<1>4. CASE Disconnect(r)
  BY <1>4 DEF Disconnect, Achieved
<1> QED
  BY <1>1, <1>2, <1>3, <1>4

(* The list is complete, each host of it is removed, and nothing is attached
   meanwhile. *)
LEMMA DisconnectAchieved ==
    ASSUME TypeOK, NEW r \in Checks, Achieved(r), ~failed',
           DisableSubdomain(r) \/ List(r) \/ Remove(r) \/ RemovedAll(r) \/ PutSnapshot(r)
    PROVE  Achieved(r)'
<1> USE DEF TypeOK, Go, NextLoop, cloudVars, checkVars, restoreVars, Works, Fails
<1>1. CASE DisableSubdomain(r)
  BY <1>1 DEF DisableSubdomain, Achieved
<1>2. CASE List(r)
  <2>1. CASE pc[r] = "listDomains"
    BY <1>2, <2>1 DEF List, Achieved
  <2>2. CASE pc[r] = "listRoutes"
    BY <1>2, <2>2 DEF List, Achieved
  <2> QED
    BY <1>2, <2>1, <2>2 DEF List
<1>3. CASE Remove(r)
  <2>1. PICK h \in todo[r] : /\ attached' = attached \ {h}
                             /\ todo' = [todo EXCEPT ![r] = @ \ {h}]
    BY <1>3 DEF Remove
  <2>2. pc' = pc /\ subdomain' = subdomain /\ pc[r] \in {"domains", "routes"}
    BY <1>3 DEF Remove
  <2> QED
    BY <2>1, <2>2 DEF Achieved
<1>4. CASE RemovedAll(r)
  BY <1>4 DEF RemovedAll, Achieved
<1>5. CASE PutSnapshot(r)
  <2>1. Offline /\ Offline'
    BY <1>5 DEF PutSnapshot, Achieved, Offline, Hosts
  <2>2. pc'[r] \in {"decide", "done"}
    BY <1>5 DEF PutSnapshot
  <2> QED
    BY <2>1, <2>2 DEF Achieved
<1> QED
  BY <1>1, <1>2, <1>3, <1>4, <1>5

(* A check makes the script less reachable, never more. *)
LEMMA ChecksTakeDown ==
    ASSUME TypeOK, NEW r \in Checks,
           \/ ReadUsage(r) \/ Skip(r) \/ DeleteWorker(r) \/ Disconnect(r) \/ DisableSubdomain(r)
           \/ List(r) \/ Remove(r) \/ RemovedAll(r) \/ PutSnapshot(r)
    PROVE  /\ attached' \subseteq attached /\ (subdomain' = subdomain \/ ~subdomain')
           /\ autoDelete' = autoDelete /\ rpc' = rpc
           /\ \A s \in Checks \ {r} : /\ pc'[s] = pc[s] /\ loop'[s] = loop[s]
                                      /\ levels'[s] = levels[s] /\ todo'[s] = todo[s]
           /\ failed => failed'
<1> USE DEF TypeOK, Go, NextLoop, cloudVars, checkVars, restoreVars, Works, Fails
<1>1. CASE ReadUsage(r) \/ Skip(r) \/ DeleteWorker(r) \/ Disconnect(r) \/ DisableSubdomain(r)
  BY <1>1 DEF ReadUsage, Skip, DeleteWorker, Disconnect, DisableSubdomain
<1>2. CASE List(r) \/ RemovedAll(r) \/ PutSnapshot(r)
  BY <1>2 DEF List, RemovedAll, PutSnapshot
<1>3. CASE Remove(r)
  BY <1>3 DEF Remove
<1> QED
  BY <1>1, <1>2, <1>3

LEMMA RestoresStart ==
    ASSUME TypeOK, NEW q \in Restores,
           GetSnapshot(q) \/ EnableSubdomain(q) \/ Reattach(q) \/ ClearSnapshot(q)
    PROVE  ~Undisturbed'
<1>1. rpc'[q] # "start"
  BY DEF TypeOK, GetSnapshot, EnableSubdomain, Reattach, ClearSnapshot
<1> QED
  BY <1>1 DEF Undisturbed

LEMMA NextOffline == OfflineInv /\ [Next]_vars => OfflineInv'
<1> SUFFICES ASSUME OfflineInv, [Next]_vars PROVE OfflineInv'
  OBVIOUS
<1>1. TypeOK /\ TypeOK'
  BY NextTyped DEF OfflineInv
<1> SUFFICES ASSUME Undisturbed' PROVE \A s \in Checks : Achieved(s)'
  BY <1>1 DEF OfflineInv
<1>2. ASSUME NEW r \in Checks,
             \/ ReadUsage(r) \/ Skip(r) \/ DeleteWorker(r) \/ Disconnect(r) \/ DisableSubdomain(r)
             \/ List(r) \/ Remove(r) \/ RemovedAll(r) \/ PutSnapshot(r)
      PROVE  \A s \in Checks : Achieved(s)'
  <2>1. Undisturbed
    BY <1>1, <1>2, ChecksTakeDown DEF Undisturbed
  <2>2. \A s \in Checks : Achieved(s)
    BY <2>1 DEF OfflineInv
  <2>3. Achieved(r)'
    BY <1>1, <1>2, <2>2, StartsAchieved, DisconnectAchieved DEF Undisturbed
  <2>4. ASSUME NEW s \in Checks, s # r PROVE Achieved(s)'
    BY <1>1, <1>2, <2>2, <2>4, ChecksTakeDown, OthersAchieved
  <2> QED
    BY <2>3, <2>4
<1>3. ASSUME NEW q \in Restores,
             GetSnapshot(q) \/ EnableSubdomain(q) \/ Reattach(q) \/ ClearSnapshot(q)
      PROVE  FALSE
  BY <1>1, <1>3, RestoresStart
<1>4. CASE UNCHANGED vars
  <2>1. Undisturbed
    BY <1>4 DEF Undisturbed, vars, restoreVars
  <2> QED
    BY <1>4, <2>1 DEF OfflineInv, Achieved, Offline, FirstLoopKills, WasToDisconnect, vars,
       cloudVars, checkVars
<1> QED
  BY <1>2, <1>3, <1>4 DEF Next

(* However checks interleave, one that was to disconnect the script has taken it
   off the network when it ends, if no request failed and no restore began
   (disconnectWorker). *)
THEOREM KilledStaysOffline == Spec => []KilledIsOffline
<1>1. OfflineInv => KilledIsOffline
  BY DEF OfflineInv, Undisturbed, Achieved, Offline, KilledIsOffline
<1> QED
  BY <1>1, InitOffline, NextOffline, PTL DEF Spec
-----------------------------------------------------------------------------
(* What is lost, and what is whole again: runs one at a time, without failures. *)
Running(r)    == pc[r] \notin {"start", "done"}
Restoring(q)  == rpc[q] \in {"subdomain", "replay"}
Kills(r, l)   == levels[r][l] = "kill"
Removed       == Hosts \ attached

OneAtATime ==
    /\ \A r, s \in Checks : Running(r) /\ Running(s) => r = s
    /\ \A q, p \in Restores : Restoring(q) /\ Restoring(p) => q = p
    /\ \A r \in Checks, q \in Restores : ~(Running(r) /\ Restoring(q))

(* A check that has yet to disconnect the script will be the first to do so since
   the last restore, and does so in one of its loops only. *)
KillsOnce(r) ==
    /\ pc[r] = "start" => loop[r] = "do"
    /\ Running(r) => ~(Kills(r, "do") /\ Kills(r, "worker"))
    /\ pc[r] = "decide" /\ Kills(r, loop[r]) => kv = {}
    /\ pc[r] = "decide" /\ loop[r] = "do" /\ Kills(r, "worker") => kv = {}
    /\ pc[r] \in Disconnecting => Kills(r, loop[r]) /\ kv = {} /\ Removed \subseteq removed[r]

Replays(q) ==
    /\ rpc[q] = "subdomain" => kv # {} /\ Removed \subseteq replay[q]
    /\ rpc[q] = "replay" => kv # {} /\ subdomain /\ Removed \subseteq replay[q]

(* Between the runs the snapshot has everything that is removed, and where there
   is none everything is in place. *)
Kept ==
    /\ kv = {} /\ (\A r \in Checks : pc[r] \notin Disconnecting) => Removed = {} /\ subdomain
    /\ kv # {} /\ (\A q \in Restores : ~Restoring(q)) => Removed \subseteq UNION kv

Orderly == /\ OneAtATime /\ Kept
           /\ \A r \in Checks : KillsOnce(r)
           /\ \A q \in Restores : Replays(q)
TurnInv == TypeOK /\ (InTurn /\ exists => Orderly)

LEMMA InitTurn == Init => TurnInv
<1> SUFFICES ASSUME Init PROVE TurnInv
  OBVIOUS
<1>1. TypeOK
  BY InitOffline DEF OfflineInv
<1>2. Orderly
  BY DEF Init, Orderly, OneAtATime, KillsOnce, Replays, Kept, Running, Restoring, Removed,
     Disconnecting
<1> QED
  BY <1>1, <1>2 DEF TurnInv

(* One check goes on while nothing else runs. *)
LEMMA AloneInTurn ==
    ASSUME TypeOK, Orderly, NEW r \in Checks, Running(r)
    PROVE  /\ \A s \in Checks : s # r => pc[s] \in {"start", "done"}
           /\ \A q \in Restores : rpc[q] \in {"start", "done"}
  BY DEF TypeOK, Orderly, OneAtATime, Running, Restoring

LEMMA OthersInTurn ==
    ASSUME TypeOK, Orderly, NEW r \in Checks, NEW s \in Checks, s # r,
           pc[s] \in {"start", "done"}, pc'[s] = pc[s], loop'[s] = loop[s]
    PROVE  KillsOnce(s)'
  BY DEF Orderly, KillsOnce, Running, Disconnecting

LEMMA ReadUsageInTurn ==
    ASSUME TypeOK, TypeOK', Orderly, NEW r \in Checks, ReadUsage(r), ~overlapped'
    PROVE  Orderly'
<1> USE DEF Go, cloudVars, checkVars, restoreVars
<1>1. NoneRunning
  BY DEF ReadUsage
<1>2. /\ \A s \in Checks : s # r => pc[s] \in {"start", "done"} /\ pc'[s] = pc[s] /\ loop'[s] = loop[s]
      /\ \A q \in Restores : ~Restoring(q) /\ ~Restoring(q)'
      /\ pc'[r] = "decide" /\ loop' = loop /\ loop[r] = "do"
  BY <1>1 DEF ReadUsage, NoneRunning, TypeOK, Restoring, Orderly, KillsOnce
<1>3. PICK do \in Levels, worker \in Levels :
         /\ ~(kv # {} /\ "kill" \in {do, worker}) /\ {do, worker} # {"kill"}
         /\ levels' = [levels EXCEPT ![r] = [l \in Loops |-> IF l = "do" THEN do ELSE worker]]
  BY DEF ReadUsage
<1>4. levels'[r]["do"] = do /\ levels'[r]["worker"] = worker
  BY <1>3 DEF TypeOK, Loops
<1>5. KillsOnce(r)'
  BY <1>2, <1>3, <1>4 DEF KillsOnce, Kills, Running, Disconnecting, ReadUsage
<1>6. \A s \in Checks : KillsOnce(s)'
  BY <1>2, <1>5, OthersInTurn
<1>7. OneAtATime'
  BY <1>2 DEF OneAtATime, Running
<1>8. Kept' /\ \A q \in Restores : Replays(q)'
  BY <1>2 DEF ReadUsage, Orderly, Kept, Replays, Removed, Disconnecting, Restoring
<1> QED
  BY <1>6, <1>7, <1>8 DEF Orderly

(* The steps of a check that change neither the snapshot nor what it must keep. *)
LEMMA GoesOnInTurn ==
    ASSUME TypeOK, TypeOK', Orderly, NEW r \in Checks, Running(r),
           Skip(r) \/ Disconnect(r) \/ DisableSubdomain(r) \/ List(r) \/ RemovedAll(r)
    PROVE  Orderly'
<1> USE DEF Go, NextLoop, cloudVars, checkVars, restoreVars
<1>1. /\ \A s \in Checks : s # r => pc[s] \in {"start", "done"} /\ pc'[s] = pc[s] /\ loop'[s] = loop[s]
      /\ \A q \in Restores : ~Restoring(q) /\ ~Restoring(q)'
  BY AloneInTurn DEF Skip, Disconnect, DisableSubdomain, List, RemovedAll, TypeOK, Restoring
<1>2. kv' = kv /\ attached' = attached /\ levels' = levels /\ removed' = removed
  BY DEF Skip, Disconnect, DisableSubdomain, List, RemovedAll
<1>3. KillsOnce(r)' /\ ~(pc[r] \in Disconnecting /\ pc'[r] \notin Disconnecting)
  <2>1. CASE Skip(r)
    BY <1>2, <2>1 DEF Skip, Orderly, KillsOnce, Kills, Running, Disconnecting, Removed, TypeOK, Loops
  <2>2. CASE Disconnect(r)
    <3>1. Removed = {}
      BY <2>2, <1>1 DEF Disconnect, Disconnects, Eligible, Orderly, KillsOnce, Kills, Kept, Disconnecting
    <3> QED
      BY <1>2, <2>2, <3>1 DEF Disconnect, Disconnects, Eligible, Orderly, KillsOnce, Kills, Running,
         Disconnecting, Removed, TypeOK
  <2>3. CASE DisableSubdomain(r) \/ List(r) \/ RemovedAll(r)
    <3>1. loop' = loop /\ pc[r] \in Disconnecting /\ pc'[r] \in Disconnecting
      BY <2>3 DEF DisableSubdomain, List, RemovedAll, Disconnecting, TypeOK
    <3>2. Removed' = Removed
      BY <1>2 DEF Removed
    <3> QED
      BY <1>2, <3>1, <3>2 DEF Orderly, KillsOnce, Kills, Running, Disconnecting
  <2> QED
    BY <2>1, <2>2, <2>3
<1>4. \A s \in Checks : KillsOnce(s)'
  BY <1>1, <1>3, OthersInTurn
<1>5. OneAtATime'
  BY <1>1 DEF OneAtATime, Running
<1>6. pc'[r] \in Disconnecting \/ subdomain' = subdomain
  BY DEF Skip, Disconnect, DisableSubdomain, List, RemovedAll, Disconnecting, TypeOK
<1>7. Kept' /\ \A q \in Restores : Replays(q)'
  BY <1>1, <1>2, <1>3, <1>6 DEF Orderly, Kept, Replays, Removed, Disconnecting, Restoring
<1> QED
  BY <1>4, <1>5, <1>7 DEF Orderly

(* What is detached is noted, and then written down. *)
LEMMA RemoveInTurn ==
    ASSUME TypeOK, TypeOK', Orderly, NEW r \in Checks, Remove(r), ~failed'
    PROVE  Orderly'
<1> USE DEF Works, Fails, cloudVars, checkVars, restoreVars
<1>1. PICK h \in todo[r] :
         /\ attached' = attached \ {h}
         /\ removed' = [removed EXCEPT ![r] = IF h \in attached THEN @ \cup {h} ELSE @]
  BY DEF Remove
<1>2. /\ pc' = pc /\ loop' = loop /\ levels' = levels /\ kv' = kv /\ rpc' = rpc /\ subdomain' = subdomain
      /\ pc[r] \in Disconnecting
  BY DEF Remove, Disconnecting
<1>3. Running(r)
  BY <1>2 DEF Running, Disconnecting
<1>4. Removed' \subseteq removed'[r]
  BY <1>1, <1>2 DEF Removed, Orderly, KillsOnce, TypeOK
<1>5. KillsOnce(r)'
  BY <1>2, <1>4 DEF Orderly, KillsOnce, Kills, Running, Disconnecting
<1>6. \A s \in Checks : KillsOnce(s)'
  BY <1>2, <1>3, <1>5, AloneInTurn, OthersInTurn
<1>7. OneAtATime'
  BY <1>2 DEF Orderly, OneAtATime, Running, Restoring
<1>8. Kept' /\ \A q \in Restores : Replays(q)'
  BY <1>2, <1>3, AloneInTurn DEF Orderly, KillsOnce, Kept, Replays
<1> QED
  BY <1>6, <1>7, <1>8 DEF Orderly

LEMMA PutSnapshotInTurn ==
    ASSUME TypeOK, TypeOK', Orderly, NEW r \in Checks, PutSnapshot(r), ~failed'
    PROVE  Orderly'
<1> USE DEF Go, NextLoop, Works, Fails, cloudVars, checkVars, restoreVars
<1>1. /\ kv' = {removed[r]} /\ Removed' = Removed /\ levels' = levels
      /\ pc[r] = "put" /\ loop'[r] = "worker" /\ pc'[r] = (IF loop[r] = "do" THEN "decide" ELSE "done")
  BY DEF PutSnapshot, Removed, TypeOK
<1>2. Running(r) /\ Removed \subseteq removed[r] /\ Kills(r, loop[r])
  BY <1>1 DEF Running, Orderly, KillsOnce, Disconnecting
<1>3. /\ \A s \in Checks : s # r => pc[s] \in {"start", "done"} /\ pc'[s] = pc[s] /\ loop'[s] = loop[s]
      /\ \A q \in Restores : ~Restoring(q) /\ ~Restoring(q)'
  BY <1>2, AloneInTurn DEF PutSnapshot, TypeOK, Restoring
<1>4. KillsOnce(r)'
  BY <1>1, <1>2 DEF Orderly, KillsOnce, Kills, Running, Disconnecting
<1>5. \A s \in Checks : KillsOnce(s)'
  BY <1>3, <1>4, OthersInTurn
<1>6. OneAtATime'
  BY <1>3 DEF OneAtATime, Running
<1>7. Kept' /\ \A q \in Restores : Replays(q)'
  <2>1. UNION kv' = removed[r]
    BY <1>1
  <2> QED
    BY <1>1, <1>2, <1>3, <2>1 DEF Kept, Replays, Restoring
<1> QED
  BY <1>5, <1>6, <1>7 DEF Orderly
(* restoreWorker: what is replayed is attached again, and only then forgotten. *)
LEMMA RestoreInTurn ==
    ASSUME TypeOK, TypeOK', Orderly, NEW q \in Restores, exists, ~failed', ~overlapped',
           GetSnapshot(q) \/ EnableSubdomain(q) \/ Reattach(q) \/ ClearSnapshot(q)
    PROVE  Orderly'
<1> USE DEF Works, Fails, cloudVars, checkVars, restoreVars
<1>1. /\ pc' = pc /\ loop' = loop /\ levels' = levels /\ removed' = removed
      /\ \A r \in Checks : pc[r] \in {"start", "done"}
      /\ \A p \in Restores : p # q => rpc[p] \in {"start", "done"} /\ rpc'[p] = rpc[p]
  <2>1. CASE GetSnapshot(q)
    BY <2>1 DEF GetSnapshot, NoneRunning, TypeOK
  <2>2. CASE EnableSubdomain(q) \/ Reattach(q) \/ ClearSnapshot(q)
    <3>1. Restoring(q)
      BY <2>2 DEF EnableSubdomain, Reattach, ClearSnapshot, Restoring
    <3>2. /\ \A r \in Checks : pc[r] \in {"start", "done"}
          /\ \A p \in Restores : p # q => rpc[p] \in {"start", "done"}
      BY <3>1 DEF Orderly, OneAtATime, Running, Restoring, TypeOK
    <3> QED
      BY <2>2, <3>2 DEF EnableSubdomain, Reattach, ClearSnapshot, TypeOK
  <2> QED
    BY <2>1, <2>2
<1>2. OneAtATime' /\ \A r \in Checks : KillsOnce(r)'
  BY <1>1 DEF Orderly, OneAtATime, KillsOnce, Running, Restoring, Disconnecting
<1>3. \A p \in Restores : p # q => Replays(p)'
  BY <1>1 DEF Replays
<1>4. Kept' /\ Replays(q)'
  <2>1. CASE GetSnapshot(q)
    <3>1. \A p \in Restores : ~Restoring(p)
      BY <1>1, <2>1 DEF GetSnapshot, Restoring
    <3>2. Removed' = Removed /\ kv' = kv /\ subdomain' = subdomain
      BY <2>1 DEF GetSnapshot, Removed
    <3>3. Kept'
      BY <1>1, <3>1, <3>2 DEF Orderly, Kept, Disconnecting
    <3>4. Replays(q)'
      BY <2>1, <3>1, <3>2 DEF GetSnapshot, Orderly, Kept, Replays, TypeOK
    <3> QED
      BY <3>3, <3>4
  <2>2. CASE EnableSubdomain(q)
    <3>1. /\ Removed' = Removed /\ kv' = kv /\ subdomain' /\ replay' = replay
          /\ rpc[q] = "subdomain" /\ rpc'[q] = "replay"
      BY <2>2 DEF EnableSubdomain, Removed, TypeOK
    <3> QED
      BY <3>1 DEF Orderly, Kept, Replays, Restoring
  <2>3. CASE Reattach(q)
    <3>1. PICK h \in replay[q] : /\ replay' = [replay EXCEPT ![q] = @ \ {h}]
                                 /\ attached' = attached \cup {h}
      BY <2>3 DEF Reattach
    <3>2. Removed' \subseteq Removed \ {h}
      BY <3>1 DEF Removed
    <3>3. kv' = kv /\ subdomain' = subdomain /\ rpc' = rpc /\ rpc[q] = "replay"
      BY <2>3 DEF Reattach
    <3>4. replay'[q] = replay[q] \ {h}
      BY <3>1 DEF TypeOK
    <3> QED
      BY <3>2, <3>3, <3>4 DEF Orderly, Kept, Replays, Restoring
  <2>4. CASE ClearSnapshot(q)
    <3>1. /\ Removed' = Removed /\ kv' = {} /\ subdomain' = subdomain /\ rpc'[q] = "done"
          /\ rpc[q] = "replay" /\ replay[q] = {}
      BY <2>4 DEF ClearSnapshot, Removed, TypeOK
    <3> QED
      BY <3>1 DEF Orderly, Kept, Replays
  <2> QED
    BY <2>1, <2>2, <2>3, <2>4
<1> QED
  BY <1>2, <1>3, <1>4 DEF Orderly

LEMMA NextTurn == TurnInv /\ [Next]_vars => TurnInv'
<1> SUFFICES ASSUME TurnInv, [Next]_vars PROVE TurnInv'
  OBVIOUS
<1>1. TypeOK /\ TypeOK'
  BY NextTyped DEF TurnInv
<1> SUFFICES ASSUME InTurn', exists' PROVE Orderly'
  BY <1>1 DEF TurnInv
<1> USE DEF cloudVars, checkVars, restoreVars, Works, Fails
<1>2. CASE UNCHANGED vars
  <2>1. Orderly
    BY <1>2 DEF vars, TurnInv, InTurn
  <2> QED
    BY <1>2, <2>1 DEF vars, Orderly, OneAtATime, KillsOnce, Replays, Kept, Running, Restoring,
       Kills, Removed
<1>3. ASSUME NEW r \in Checks,
             \/ ReadUsage(r) \/ Skip(r) \/ Disconnect(r) \/ DisableSubdomain(r)
             \/ List(r) \/ Remove(r) \/ RemovedAll(r) \/ PutSnapshot(r)
      PROVE  Orderly'
  <2>1. InTurn /\ exists
    <3>1. ~failed
      BY <1>1, <1>3, ChecksTakeDown DEF InTurn
    <3>2. ~overlapped
      <4>1. CASE ReadUsage(r)
        BY <4>1, Zenon DEF InTurn, ReadUsage
      <4>2. CASE ~ReadUsage(r)
        BY <1>3, <4>2 DEF InTurn, Skip, Disconnect, DisableSubdomain, List, Remove, RemovedAll,
           PutSnapshot
      <4> QED
        BY <4>1, <4>2
    <3>3. exists
      BY <1>3 DEF ReadUsage, Skip, Disconnect, DisableSubdomain, List, Remove, RemovedAll,
         PutSnapshot
    <3> QED
      BY <3>1, <3>2, <3>3 DEF InTurn
  <2>2. Orderly
    BY <2>1 DEF TurnInv
  <2>3. CASE ReadUsage(r)
    BY <1>1, <2>2, <2>3, ReadUsageInTurn DEF InTurn
  <2>4. CASE Remove(r)
    BY <1>1, <2>2, <2>4, RemoveInTurn DEF InTurn
  <2>5. CASE PutSnapshot(r)
    BY <1>1, <2>2, <2>5, PutSnapshotInTurn DEF InTurn
  <2>6. CASE Skip(r) \/ Disconnect(r) \/ DisableSubdomain(r) \/ List(r) \/ RemovedAll(r)
    <3>1. Running(r)
      BY <2>6 DEF Skip, Disconnect, DisableSubdomain, List, RemovedAll, Running
    <3> QED
      BY <1>1, <2>2, <2>6, <3>1, GoesOnInTurn
  <2> QED
    BY <1>3, <2>3, <2>4, <2>5, <2>6
<1>4. ASSUME NEW r \in Checks, DeleteWorker(r) PROVE FALSE
  BY <1>4 DEF DeleteWorker, InTurn
<1>5. ASSUME NEW q \in Restores,
             GetSnapshot(q) \/ EnableSubdomain(q) \/ Reattach(q) \/ ClearSnapshot(q)
      PROVE  Orderly'
  <2>1. InTurn /\ exists
    <3>1. CASE GetSnapshot(q)
      BY <3>1, Zenon DEF InTurn, GetSnapshot
    <3>2. CASE EnableSubdomain(q) \/ Reattach(q) \/ ClearSnapshot(q)
      <4>1. exists' = exists /\ overlapped' = overlapped
        BY <3>2 DEF EnableSubdomain, Reattach, ClearSnapshot
      <4>2. failed' = failed \/ failed'
        <5>1. CASE EnableSubdomain(q)
          BY <5>1 DEF EnableSubdomain
        <5>2. CASE Reattach(q)
          BY <5>2 DEF Reattach
        <5>3. CASE ClearSnapshot(q)
          BY <5>3 DEF ClearSnapshot
        <5> QED
          BY <3>2, <5>1, <5>2, <5>3
      <4> QED
        BY <4>1, <4>2 DEF InTurn
    <3> QED
      BY <1>5, <3>1, <3>2
  <2> QED
    BY <1>1, <1>5, <2>1, RestoreInTurn DEF TurnInv, InTurn
<1> QED
  BY <1>2, <1>3, <1>4, <1>5 DEF Next

(* As long as the runs come one at a time, no request fails and the script is
   killed once per restore, every host the switch has removed is in its snapshot
   or in the hands of the run that writes or replays it. *)
THEOREM NothingIsLost == Spec => []NothingLostInTurn
<1>1. TurnInv => NothingLostInTurn
  <2> SUFFICES ASSUME TurnInv, InTurn, exists, NEW h \in Removed
               PROVE  \/ h \in UNION kv
                      \/ \E r \in Checks : h \in removed[r]
                      \/ \E q \in Restores : h \in replay[q]
    BY DEF NothingLostInTurn, Recoverable, Removed
  <2>1. Orderly
    BY DEF TurnInv
  <2>2. CASE \E r \in Checks : pc[r] \in Disconnecting
    BY <2>1, <2>2 DEF Orderly, KillsOnce
  <2>3. CASE \E q \in Restores : Restoring(q)
    BY <2>1, <2>3 DEF Orderly, Replays, Restoring
  <2>4. CASE (\A r \in Checks : pc[r] \notin Disconnecting) /\ \A q \in Restores : ~Restoring(q)
    BY <2>1, <2>4 DEF Orderly, Kept
  <2> QED
    BY <2>2, <2>3, <2>4
<1> QED
  BY <1>1, InitTurn, NextTurn, PTL DEF Spec

(* Under the same conditions a script without a snapshot serves on everything it
   served on (restoreWorker). *)
THEOREM RestoredIsWhole == Spec => []QuietIsWhole
<1>1. TurnInv => QuietIsWhole
  <2> SUFFICES ASSUME TurnInv, InTurn, exists, NoneRunning, kv = {}
               PROVE  attached = Hosts /\ subdomain
    BY DEF QuietIsWhole
  <2>1. Removed = {} /\ subdomain
    BY DEF TurnInv, Orderly, Kept, NoneRunning, Disconnecting
  <2>2. attached \in SUBSET Hosts
    BY DEF TurnInv, TypeOK
  <2> QED
    BY <2>1, <2>2 DEF Removed
<1> QED
  BY <1>1, InitTurn, NextTurn, PTL DEF Spec

(************************** the uptime check *******************************)
(* Invocations that have seen a failure in this tick. *)
After == {"failed", "counted", "alert", "cool", "send"}

(* The streak is covered by failed checks, and so is what it will be when the
   invocations that have failed, but not read it yet, have counted themselves. *)
StreakCovered ==
    /\ streak <= failures
    /\ \A c \in Crons : place[c] = "failed" => Capped(streak + 1) <= failures
    /\ \A c, d \in Crons :
        place[c] = "failed" /\ place[d] = "failed" /\ c # d => Capped(streak + 2) <= failures

(* So is what an invocation has read and will write. *)
ReadCovered ==
    /\ \A c \in Crons : place[c] = "counted" => read[c] <= failures
    /\ \A c, d \in Crons :
        place[c] = "counted" /\ place[d] = "failed" => Capped(read[c] + 1) <= failures

(* An invocation on its way to the alerts has the threshold behind it, or one
   failed check when there is no KV. *)
Needed == IF store = "unbound" THEN 1 ELSE Threshold
AlertsEarned ==
    \A c \in Crons : place[c] \in {"alert", "cool", "send"} => failures >= Needed

(* A tick in which no check failed and one cleared the streak has none. *)
TickRemembers ==
    /\ \A c \in Crons : place[c] \in After => failedHere
    /\ ~failedHere /\ cleared => streak = 0

EarnedInv == UptimeTypeOK /\ StreakCovered /\ ReadCovered /\ AlertsEarned /\ TickRemembers

----------------------------------------------------------------------------
LEMMA CappedFacts ==
    /\ \A n \in Nat : Capped(n) \in 0..Cap /\ Capped(n) <= n
    /\ \A m, n \in Nat : m <= n => Capped(m) <= Capped(n)
    /\ \A n \in 0..Cap : Capped(n) = n
    /\ \A m \in Nat, n \in 0..Cap : Capped(m) <= n => Capped(m + 1) <= Capped(n + 1)
    /\ Cap \in Nat /\ Threshold \in Nat /\ Threshold < Cap
  BY UptimeConstantsOK, SMT DEF Capped, Cap

LEMMA InitEarned == UptimeInit => EarnedInv
<1> SUFFICES ASSUME UptimeInit PROVE EarnedInv
  OBVIOUS
<1>1. UptimeTypeOK
  <2>1. up \in BOOLEAN /\ due \in SUBSET Crons /\ suppress \in [Crons -> BOOLEAN]
    BY DEF UptimeInit, Due, Crons
  <2>2. failedHere \in BOOLEAN /\ paged \in BOOLEAN
    BY DEF UptimeInit
  <2>3. tick \in 0..(Period - 1) /\ read \in [Crons -> 0..Cap] /\ streak \in 0..Cap
    BY UptimeConstantsOK, CappedFacts, SMT DEF UptimeInit
  <2>4. cooldown \in 0..Cooldown /\ failures \in 0..Cap
    BY UptimeConstantsOK, CappedFacts, SMT DEF UptimeInit
  <2> QED
    BY <2>1, <2>2, <2>3, <2>4 DEF UptimeInit, UptimeTypeOK
<1>2. StreakCovered /\ ReadCovered /\ AlertsEarned /\ TickRemembers
  BY UptimeConstantsOK, SMT DEF UptimeInit, StreakCovered, ReadCovered, AlertsEarned, Needed, TickRemembers,
     After, Due, Crons
<1> QED
  BY <1>1, <1>2 DEF EarnedInv

LEMMA StartEarned ==
    ASSUME EarnedInv, NEW c \in Crons, Start(c)  PROVE EarnedInv'
<1> USE DEF EarnedInv, Start, GoesTo, kvVars, historyVars, Crons
<1>1. UptimeTypeOK'
  BY SMT DEF UptimeTypeOK
<1>2. StreakCovered' /\ ReadCovered' /\ AlertsEarned'
  BY SMT DEF UptimeTypeOK, StreakCovered, ReadCovered, AlertsEarned, Needed, Capped, Cap
<1>3. TickRemembers'
  BY SMT DEF UptimeTypeOK, TickRemembers, After
<1> QED
  BY <1>1, <1>2, <1>3

(* A failed probe adds to the failures what its invocation will add to the
   streak. *)
LEMMA ProbeEarned ==
    ASSUME EarnedInv, NEW c \in Crons, Probe(c)  PROVE EarnedInv'
<1> USE DEF EarnedInv, Probe, GoesTo, kvVars, Crons
<1>1. UptimeTypeOK'
  BY CappedFacts, SMT DEF UptimeTypeOK
<1>2. failures' >= failures
  BY CappedFacts, SMT DEF UptimeTypeOK, Capped, Cap
<1>3. CASE up
  <2>1. StreakCovered' /\ ReadCovered' /\ AlertsEarned' /\ TickRemembers'
    BY <1>3, SMT DEF UptimeTypeOK, StreakCovered, ReadCovered, AlertsEarned, Needed, TickRemembers, After,
       Capped, Cap
  <2> QED
    BY <1>1, <2>1
<1>4. CASE ~up
  <2>1. place' = [place EXCEPT ![c] = "failed"] /\ failures' = Capped(failures + 1) /\ failedHere'
    BY <1>4
  <2>2. StreakCovered'
    BY <2>1, UptimeConstantsOK, SMT DEF UptimeTypeOK, StreakCovered, Capped, Cap
  <2>3. ReadCovered'
    BY <2>1, UptimeConstantsOK, SMT DEF UptimeTypeOK, ReadCovered, Capped, Cap
  <2>4. AlertsEarned'
    BY <2>1, <1>2, UptimeConstantsOK, SMT DEF UptimeTypeOK, AlertsEarned, Needed, Cap
  <2>5. TickRemembers'
    BY <2>1, SMT DEF UptimeTypeOK, TickRemembers, After
  <2> QED
    BY <1>1, <2>2, <2>3, <2>4, <2>5
<1> QED
  BY <1>3, <1>4

LEMMA ResetEarned ==
    ASSUME EarnedInv, NEW c \in Crons, Reset(c)  PROVE EarnedInv'
<1> USE DEF EarnedInv, Reset, KvThrows, GoesTo, historyVars, Crons
<1>1. UptimeTypeOK'
  <2>1. streak' \in 0..Cap
    BY CappedFacts, SMT DEF UptimeTypeOK
  <2>3. cleared' = TRUE \/ cleared' = cleared
    OBVIOUS
  <2>4. cleared' \in BOOLEAN
    BY <2>3, Zenon DEF UptimeTypeOK
  <2>2. place' \in [Crons -> {"idle", "probing", "failed", "healthy", "counted", "alert",
                             "cool", "send"}]
    BY DEF UptimeTypeOK
  <2> QED
    BY <2>1, <2>2, <2>4 DEF UptimeTypeOK
<1>2. StreakCovered'
  BY UptimeConstantsOK, SMT DEF UptimeTypeOK, StreakCovered, Capped, Cap
<1>3. ReadCovered' /\ AlertsEarned' /\ TickRemembers'
  BY SMT DEF UptimeTypeOK, ReadCovered, AlertsEarned, Needed, TickRemembers, After, Capped, Cap
<1> QED
  BY <1>1, <1>2, <1>3

LEMMA ReadStreakEarned ==
    ASSUME EarnedInv, NEW c \in Crons, ReadStreak(c)  PROVE EarnedInv'
<1> USE DEF EarnedInv, ReadStreak, KvThrows, GoesTo, kvVars, historyVars, Crons
<1>1. UptimeTypeOK'
  BY CappedFacts, SMT DEF UptimeTypeOK
<1>2. StreakCovered' /\ TickRemembers'
  BY SMT DEF UptimeTypeOK, StreakCovered, TickRemembers, After, Capped, Cap
<1>4. AlertsEarned'
  BY UptimeConstantsOK, SMT DEF UptimeTypeOK, StreakCovered, AlertsEarned, Needed, Capped, Cap
<1>3. ReadCovered'
  BY UptimeConstantsOK, SMT DEF UptimeTypeOK, StreakCovered, ReadCovered, Capped, Cap
<1> QED
  BY <1>1, <1>2, <1>3, <1>4

(* What is written was covered when it was read, and failures only grow. *)
LEMMA PutStreakEarned ==
    ASSUME EarnedInv, NEW c \in Crons, PutStreak(c)  PROVE EarnedInv'
<1> USE DEF EarnedInv, PutStreak, KvThrows, GoesTo, historyVars, Crons
<1>1. UptimeTypeOK'
  BY CappedFacts, SMT DEF UptimeTypeOK
<1>2. StreakCovered'
  BY UptimeConstantsOK, SMT DEF UptimeTypeOK, StreakCovered, ReadCovered, Capped, Cap
<1>3. ReadCovered' /\ TickRemembers'
  BY SMT DEF UptimeTypeOK, ReadCovered, TickRemembers, After, Capped, Cap
<1>4. AlertsEarned'
  BY UptimeConstantsOK, SMT DEF UptimeTypeOK, ReadCovered, AlertsEarned, Needed, Cap
<1> QED
  BY <1>1, <1>2, <1>3, <1>4

LEMMA AlertStepsEarned ==
    ASSUME EarnedInv, NEW c \in Crons, ReadCooldown(c) \/ PutCooldown(c) \/ SendAlerts(c)
    PROVE  EarnedInv'
<1> USE DEF EarnedInv, KvThrows, GoesTo, kvVars, historyVars, Crons
<1>1. UptimeTypeOK'
  <2>1. CASE ReadCooldown(c)
    <3>1. (cooldown > 0) \in BOOLEAN
      OBVIOUS
    <3>2. suppress' = suppress \/ suppress' = [suppress EXCEPT ![c] = cooldown > 0]
      BY <2>1 DEF ReadCooldown
    <3>3. suppress' \in [Crons -> BOOLEAN]
      BY <3>1, <3>2, Zenon DEF UptimeTypeOK
    <3> QED
      BY <2>1, <3>3, SMT DEF ReadCooldown, UptimeTypeOK
  <2>2. CASE PutCooldown(c)
    BY <2>2, UptimeConstantsOK, SMT DEF PutCooldown, UptimeTypeOK
  <2>3. CASE SendAlerts(c)
    BY <2>3, SMT DEF SendAlerts, UptimeTypeOK
  <2> QED
    BY <2>1, <2>2, <2>3
<1>2. StreakCovered' /\ ReadCovered'
  BY SMT DEF UptimeTypeOK, StreakCovered, ReadCovered, Capped, Cap, ReadCooldown, PutCooldown, SendAlerts
<1>3. AlertsEarned' /\ TickRemembers'
  BY SMT DEF UptimeTypeOK, AlertsEarned, Needed, TickRemembers, After, ReadCooldown, PutCooldown, SendAlerts
<1> QED
  BY <1>1, <1>2, <1>3

(* Five minutes later: nobody is on the way, and failures are forgotten only
   when there is no streak left. *)
LEMMA TickEarned == ASSUME EarnedInv, Tick PROVE EarnedInv'
<1> USE DEF EarnedInv, Tick, Crons
<1>1. UptimeTypeOK'
  <2>1. tick' \in 0..(Period - 1)
    BY UptimeConstantsOK, SMT DEF UptimeTypeOK
  <2>2. due' \in SUBSET Crons
    BY DEF Due
  <2>3. cooldown' \in 0..Cooldown /\ failures' \in 0..Cap
    BY UptimeConstantsOK, CappedFacts, SMT DEF UptimeTypeOK
  <2> QED
    BY <2>1, <2>2, <2>3 DEF UptimeTypeOK
<1>2. streak <= failures'
  BY UptimeConstantsOK, SMT DEF UptimeTypeOK, StreakCovered, TickRemembers
<1>3. StreakCovered' /\ ReadCovered' /\ AlertsEarned'
  BY <1>2, SMT DEF StreakCovered, ReadCovered, AlertsEarned
<1>4. TickRemembers'
  BY SMT DEF TickRemembers, After, Due
<1> QED
  BY <1>1, <1>3, <1>4

LEMMA NextEarned == EarnedInv /\ [UptimeNext]_uptimeVars => EarnedInv'
<1> SUFFICES ASSUME EarnedInv, [UptimeNext]_uptimeVars PROVE EarnedInv'
  OBVIOUS
<1>1. ASSUME NEW c \in Crons, Check(c) PROVE EarnedInv'
  BY <1>1, StartEarned, ProbeEarned, ResetEarned, ReadStreakEarned, PutStreakEarned,
     AlertStepsEarned DEF Check
<1>2. CASE Flip
  BY <1>2, SMT DEF Flip, EarnedInv, UptimeTypeOK, StreakCovered, ReadCovered, AlertsEarned,
     Needed, TickRemembers, After, Crons, kvVars, historyVars, Capped, Cap
<1>5. CASE FlipStore
  BY <1>5, SMT DEF FlipStore, EarnedInv, UptimeTypeOK, StreakCovered, ReadCovered, AlertsEarned,
     Needed, TickRemembers, After, Crons, kvVars, historyVars, Capped, Cap
<1>3. CASE Tick
  BY <1>3, TickEarned
<1>4. CASE UNCHANGED uptimeVars
  BY <1>4, SMT DEF uptimeVars, EarnedInv, UptimeTypeOK, StreakCovered, ReadCovered, AlertsEarned,
     Needed, TickRemembers, After, Crons, kvVars, historyVars, Capped, Cap
<1> QED
  BY <1>1, <1>2, <1>3, <1>4, <1>5 DEF UptimeNext

(* Every reachable state of the two crons' checks is well typed. *)
THEOREM TypeCorrect == UptimeSpec => []UptimeTypeOK
<1>1. EarnedInv => UptimeTypeOK
  BY DEF EarnedInv
<1> QED
  BY <1>1, InitEarned, NextEarned, PTL DEF UptimeSpec

(* A page means as many failed checks as the threshold says since the streak was
   last cleared by a tick of healthy checks, whenever KV throws; one without KV
   (uptimeCheck's debounce). *)
THEOREM PageStands == UptimeSpec => PageIsEarned
<1>1. EarnedInv /\ [UptimeNext]_uptimeVars
        => [Paging => failures >= (IF store = "unbound" THEN 1 ELSE Threshold)]_uptimeVars
  <2> SUFFICES ASSUME EarnedInv, Paging
               PROVE failures >= (IF store = "unbound" THEN 1 ELSE Threshold)
    OBVIOUS
  <2> QED
    BY DEF EarnedInv, AlertsEarned, Needed, Paging
<1> QED
  BY <1>1, InitEarned, NextEarned, PTL DEF UptimeSpec, PageIsEarned
===============================================================================
