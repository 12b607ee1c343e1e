---------------------------- MODULE AgentGuardProofs ----------------------------
(***************************************************************************)
(* What holds of the guard for any number of hooks, requests, refreshes    *)
(* and readings.  The proxy's wall of dollars: a snapshot in limits.json   *)
(* is never younger than what the provider last said, although refreshes   *)
(* stamp it with an earlier time and are overtaken by other writers of the *)
(* file.  The ledger, the time to wait before asking again, and the        *)
(* judgement of a weekly window.                                           *)
(***************************************************************************)
EXTENDS AgentGuard, TLAPS, FiniteSetTheorems, WellFoundedInduction

(* The histories and processes have the shape the steps expect. *)
Shape ==
    /\ now \in Nat
    /\ "lastSeen" \in DOMAIN hist
    /\ DOMAIN proc = Hooks \cup Requests \cup Refreshes
    /\ \A f \in Refreshes : proc[f].at = "asking" => proc[f].since \in Nat /\ proc[f].since <= now

(* Who holds a snapshot of a window has been shown one, and not before its stamp. *)
StampIsPast ==
    limits.at # None /\ HasWindow(limits) =>
        /\ hist.lastSeen # None
        /\ limits.at \in Nat /\ hist.lastSeen \in Nat
        /\ limits.at <= hist.lastSeen

WallInv == Shape /\ StampIsPast

LEMMA InitWall == Init => WallInv
<1> SUFFICES ASSUME Init PROVE WallInv
  OBVIOUS
<1>1. now \in Nat /\ "lastSeen" \in DOMAIN hist /\ limits.at = None
  BY DEF Init, NoSnapshot
<1>2. /\ DOMAIN proc = Hooks \cup Requests \cup Refreshes
      /\ \A p \in DOMAIN proc : proc[p].at = "idle"
  BY DEF Init, IdleProc
<1>3. \A f \in Refreshes : proc[f].at # "asking"
  BY <1>2
<1> QED
  BY <1>1, <1>2, <1>3 DEF WallInv, Shape, StampIsPast

(* What the steps of hooks, requests and humans have in common: the refreshes
   are where they were, or spawned, and nothing is learnt of the plan. *)
LEMMA Bystander ==
    ASSUME WallInv, now' = now, DOMAIN proc' = DOMAIN proc,
           \A f \in Refreshes : proc'[f] = proc[f] \/ proc'[f].at # "asking",
           limits' = limits \/ limits' = NoSnapshot,
           "lastSeen" \in DOMAIN hist', hist'.lastSeen = hist.lastSeen
    PROVE  WallInv'
<1>1. Shape'
  BY DEF WallInv, Shape
<1>2. StampIsPast'
  BY DEF WallInv, StampIsPast, NoSnapshot
<1> QED
  BY <1>1, <1>2 DEF WallInv

(* A hook that judges; refreshes may have been spawned by it. *)
LEMMA HookReadsMoves ==
    ASSUME NEW h \in Hooks, HookReads(h), ~IsPaused
    PROVE  \E fs, j : /\ j.at = "judged"
                      /\ proc' = [p \in DOMAIN proc |-> CASE p = h -> j
                                     [] p \in fs -> [at |-> "spawned"] [] OTHER -> proc[p]]
<1>1. PICK readable \in {TRUE} \cup (IF events < MaxEvents THEN {FALSE} ELSE {}),
            fs \in Chosen(Throttle) :
         proc' = [p \in DOMAIN proc |-> CASE p = h -> Judged(h, IF readable THEN truth[h] ELSE 0)
                     [] p \in fs -> [at |-> "spawned"] [] OTHER -> proc[p]]
  BY Zenon DEF HookReads
<1>2. Judged(h, IF readable THEN truth[h] ELSE 0).at = "judged"
  BY DEF Judged
<1> QED
  BY <1>1, <1>2

LEMMA HookStepsWall ==
    ASSUME WallInv, NEW h \in Hooks,
           HookReads(h) \/ HookSaves(h) \/ HookAnswers(h) \/ HookFails(h) \/ HookStops(h)
               \/ Turn(h) \/ GoOn(h)
    PROVE  WallInv'
<1> USE DEF Move, IdleProc
<1>1. now' = now /\ limits' = limits
  BY DEF HookReads, HookSaves, HookAnswers, HookFails, HookStops, Turn, GoOn
<1>2. "lastSeen" \in DOMAIN hist' /\ hist'.lastSeen = hist.lastSeen
  <2> USE DEF WallInv, Shape
  <2>1. CASE HookReads(h)
    BY <2>1 DEF HookReads
  <2>2. CASE HookSaves(h) \/ HookAnswers(h)
    BY <2>2, Zenon DEF HookSaves, HookAnswers, Saves
  <2>3. CASE HookFails(h) \/ HookStops(h) \/ Turn(h) \/ GoOn(h)
    BY <2>3 DEF HookFails, HookStops, Turn, GoOn
  <2> QED
    BY <2>1, <2>2, <2>3
<1>3. /\ DOMAIN proc' = DOMAIN proc
      /\ \A f \in Refreshes : proc'[f] = proc[f] \/ proc'[f].at # "asking"
  <2> USE DEF WallInv, Shape
  <2>1. CASE HookReads(h)
    <3>1. CASE IsPaused
      BY <2>1, <3>1 DEF HookReads
    <3>2. CASE ~IsPaused
      <4>1. PICK fs, j :
               /\ j.at = "judged"
               /\ proc' = [p \in DOMAIN proc |-> CASE p = h -> j
                              [] p \in fs -> [at |-> "spawned"] [] OTHER -> proc[p]]
        BY <2>1, <3>2, HookReadsMoves
      <4> QED
        BY <4>1
    <3> QED
      BY <3>1, <3>2
  <2>2. CASE HookSaves(h)
    BY <2>2 DEF HookSaves
  <2>3. CASE HookAnswers(h)
    BY <2>3 DEF HookAnswers
  <2>4. CASE HookFails(h) \/ HookStops(h) \/ Turn(h) \/ GoOn(h)
    BY <2>4 DEF HookFails, HookStops, Turn, GoOn
  <2> QED
    BY <2>1, <2>2, <2>3, <2>4
<1> QED
  BY <1>1, <1>2, <1>3, Bystander

LEMMA SnapshotFacts ==
    ASSUME NEW reading, NEW at
    PROVE  Snapshot(reading, at).at = at /\ Snapshot(reading, at).util = reading.util
  BY DEF Snapshot

(* The provider is heard: the stamp is now, or when the request started. *)
LEMMA HeardWall ==
    ASSUME WallInv, now' = now, DOMAIN proc' = DOMAIN proc,
           \A f \in Refreshes : proc'[f] = proc[f] \/ proc'[f].at # "asking",
           limits'.at \in Nat, limits'.at <= now, "lastSeen" \in DOMAIN hist',
           hist'.lastSeen = IF HasWindow(limits') THEN now ELSE hist.lastSeen
    PROVE  WallInv'
<1>1. Shape'
  BY DEF WallInv, Shape
<1>2. StampIsPast'
  BY DEF WallInv, Shape, StampIsPast, HasWindow, None
<1> QED
  BY <1>1, <1>2 DEF WallInv

LEMMA RequestStepsWall ==
    ASSUME WallInv, NEW q \in Requests, Preflight(q) \/ Answered(q) \/ Unanswered(q) \/ Meter(q)
    PROVE  WallInv'
<1> USE DEF WallInv, Shape, Move, IdleProc
<1>1. CASE Preflight(q)
  BY <1>1, Bystander DEF Preflight
<1>2. CASE Answered(q)
  <2>1. /\ now' = now /\ DOMAIN proc' = DOMAIN proc
        /\ \A f \in Refreshes : proc'[f] = proc[f] \/ proc'[f].at # "asking"
    BY <1>2 DEF Answered
  <2>2. CASE flavor = "anthropic" /\ subscriber
    <3>1. PICK reading \in Readings : limits' = Snapshot(reading, now) /\ Shown(reading)
      BY <1>2, <2>2 DEF Answered
    <3>2. /\ "lastSeen" \in DOMAIN hist'
          /\ hist'.lastSeen = IF HasWindow(limits') THEN now ELSE hist.lastSeen
          /\ limits'.at = now
      BY <3>1, SnapshotFacts DEF Shown, HasWindow
    <3> QED
      BY <2>1, <3>1, <3>2, HeardWall
  <2>3. CASE ~(flavor = "anthropic" /\ subscriber)
    BY <1>2, <2>1, <2>3, Bystander DEF Answered
  <2> QED
    BY <2>2, <2>3
<1>3. CASE Unanswered(q)
  BY <1>3, Bystander DEF Unanswered
<1>4. CASE Meter(q)
  <2>1. /\ now' = now /\ limits' = limits /\ DOMAIN proc' = DOMAIN proc
        /\ \A f \in Refreshes : proc'[f] = proc[f] \/ proc'[f].at # "asking"
    <3>1. now' = now /\ limits' = limits /\ proc' = [proc EXCEPT ![q] = IdleProc]
      BY <1>4, Zenon DEF Meter
    <3> QED
      BY <3>1
  <2>2. PICK m, e : hist' = [hist EXCEPT !.metered = m, !.excused = e]
    BY <1>4, Zenon DEF Meter
  <2>3. "lastSeen" \in DOMAIN hist' /\ hist'.lastSeen = hist.lastSeen
    BY <2>2
  <2> QED
    BY <2>1, <2>3, Bystander
<1> QED
  BY <1>1, <1>2, <1>3, <1>4

LEMMA RefreshStepsWall ==
    ASSUME WallInv, NEW f \in Refreshes, RefreshUsage(f) \/ UsageArrives(f) \/ UsageRefused(f)
    PROVE  WallInv'
<1> USE DEF Move, IdleProc
<1>1. CASE RefreshUsage(f)
  <2>1. now' = now /\ limits' = limits
    BY <1>1 DEF RefreshUsage
  <2>2. "lastSeen" \in DOMAIN hist' /\ hist'.lastSeen = hist.lastSeen
    BY <1>1 DEF RefreshUsage, WallInv, Shape
  <2>3. \/ proc' = [proc EXCEPT ![f] = IdleProc]
        \/ \E streak : proc' = [proc EXCEPT ![f] = [at |-> "asking", since |-> now, streak |-> streak]]
    BY <1>1 DEF RefreshUsage
  <2>4. Shape'
    <3>1. CASE proc' = [proc EXCEPT ![f] = IdleProc]
      BY <2>1, <2>2, <3>1 DEF WallInv, Shape
    <3>2. ASSUME NEW streak,
                 proc' = [proc EXCEPT ![f] = [at |-> "asking", since |-> now, streak |-> streak]]
          PROVE  Shape'
      <4>1. proc'[f].since = now
        BY <3>2 DEF WallInv, Shape
      <4>2. \A g \in Refreshes : g # f => proc'[g] = proc[g]
        BY <3>2 DEF WallInv, Shape
      <4> QED
        BY <2>1, <2>2, <3>2, <4>1, <4>2 DEF WallInv, Shape
    <3> QED
      BY <2>3, <3>1, <3>2
  <2>5. StampIsPast'
    BY <2>1, <2>2 DEF WallInv, StampIsPast
  <2> QED
    BY <2>4, <2>5 DEF WallInv
<1>2. CASE UsageArrives(f)
  <2>1. /\ now' = now /\ DOMAIN proc' = DOMAIN proc
        /\ \A g \in Refreshes : proc'[g] = proc[g] \/ proc'[g].at # "asking"
    BY <1>2 DEF UsageArrives, WallInv, Shape
  <2>2. /\ "lastSeen" \in DOMAIN hist'
        /\ hist'.lastSeen = IF HasWindow(limits') THEN now ELSE hist.lastSeen
    BY <1>2, SnapshotFacts DEF UsageArrives, Shown, HasWindow, WallInv, Shape
  <2>3. limits'.at = proc[f].since /\ proc[f].since \in Nat /\ proc[f].since <= now
    BY <1>2, SnapshotFacts DEF UsageArrives, WallInv, Shape
  <2> QED
    BY <2>1, <2>2, <2>3, HeardWall
<1>3. CASE UsageRefused(f)
  <2>1. "lastSeen" \in DOMAIN hist' /\ hist'.lastSeen = hist.lastSeen
    BY <1>3, Zenon DEF UsageRefused, WallInv, Shape
  <2>2. /\ now' = now /\ limits' = limits /\ DOMAIN proc' = DOMAIN proc
        /\ \A g \in Refreshes : proc'[g] = proc[g] \/ proc'[g].at # "asking"
    BY <1>3, Zenon DEF UsageRefused, WallInv, Shape
  <2> QED
    BY <2>1, <2>2, Bystander
<1> QED
  BY <1>1, <1>2, <1>3

LEMMA StatuslineWall == ASSUME WallInv, Statusline PROVE WallInv'
<1>1. PICK given \in BOOLEAN, fs \in Chosen(Extras) \cup Chosen(Throttle) :
         /\ limits' \in IF given THEN {Snapshot(r, now) : r \in {r \in Readings : HasWindow(r)}} ELSE {limits}
         /\ hist' = [hist EXCEPT !.lastSeen = IF given THEN now ELSE @]
         /\ proc' = [p \in DOMAIN proc |-> IF p \in fs THEN [at |-> "spawned"] ELSE proc[p]]
         /\ now' = now
  BY DEF Statusline
<1>2. /\ DOMAIN proc' = DOMAIN proc
      /\ \A f \in Refreshes : proc'[f] = proc[f] \/ proc'[f].at # "asking"
  BY <1>1 DEF WallInv, Shape
<1>3. "lastSeen" \in DOMAIN hist'
  BY <1>1 DEF WallInv, Shape
<1>4. CASE given
  <2>1. limits'.at = now /\ hist'.lastSeen = now /\ HasWindow(limits')
    BY <1>1, <1>4, SnapshotFacts DEF HasWindow, WallInv, Shape
  <2> QED
    BY <1>1, <1>2, <1>3, <2>1, HeardWall DEF WallInv, Shape
<1>5. CASE ~given
  BY <1>1, <1>2, <1>3, <1>5, Bystander DEF WallInv, Shape
<1> QED
  BY <1>4, <1>5

LEMMA OtherStepsWall ==
    ASSUME WallInv, \/ RestartProxy \/ SetBudget \/ SetLimits \/ Pause \/ Resume \/ ResetLedger
    PROVE  WallInv'
<1>1. now' = now /\ (limits' = limits \/ limits' = NoSnapshot)
  BY DEF RestartProxy, SetBudget, SetLimits, Pause, Resume, ResetLedger
<1>2. "lastSeen" \in DOMAIN hist' /\ hist'.lastSeen = hist.lastSeen
  BY DEF WallInv, Shape, Intervened, RestartProxy, SetBudget, SetLimits, Pause, Resume, ResetLedger
<1>3. /\ DOMAIN proc' = DOMAIN proc
      /\ \A f \in Refreshes : proc'[f] = proc[f] \/ proc'[f].at # "asking"
  BY DEF WallInv, Shape, IdleProc, RestartProxy, SetBudget, SetLimits, Pause, Resume, ResetLedger
<1> QED
  BY <1>1, <1>2, <1>3, Bystander

LEMMA TickWall == ASSUME WallInv, Tick PROVE WallInv'
<1>1. now' \in Nat /\ now <= now' /\ "lastSeen" \in DOMAIN hist' /\ hist'.lastSeen = hist.lastSeen
  BY DEF Tick, WallInv, Shape
<1>2. proc' = proc /\ limits' = limits
  BY DEF Tick
<1>3. Shape'
  BY <1>1, <1>2 DEF WallInv, Shape
<1>4. StampIsPast'
  BY <1>1, <1>2 DEF WallInv, StampIsPast
<1> QED
  BY <1>3, <1>4 DEF WallInv

(* Only the check before a request lets it through. *)
LEMMA OnlyPreflightSends ==
    ASSUME WallInv, Next, NEW q \in Requests, proc[q].at = "idle", proc'[q].at = "sent"
    PROVE  Preflight(q)
<1> USE DEF WallInv, Shape, Move, IdleProc
<1>1. ASSUME NEW h \in Hooks,
             HookReads(h) \/ HookSaves(h) \/ HookAnswers(h) \/ HookFails(h) \/ HookStops(h)
                 \/ Turn(h) \/ GoOn(h)
      PROVE  FALSE
  <2>1. CASE HookReads(h) /\ IsPaused
    BY <2>1 DEF HookReads
  <2>2. CASE HookReads(h) /\ ~IsPaused
    <3>1. PICK fs, j :
             /\ j.at = "judged"
             /\ proc' = [p \in DOMAIN proc |-> CASE p = h -> j
                            [] p \in fs -> [at |-> "spawned"] [] OTHER -> proc[p]]
      BY <1>1, <2>2, HookReadsMoves
    <3> QED
      BY <3>1
  <2>3. CASE HookSaves(h)
    BY <2>3 DEF HookSaves
  <2>4. CASE HookAnswers(h)
    BY <2>4 DEF HookAnswers
  <2>5. CASE HookFails(h) \/ HookStops(h) \/ Turn(h) \/ GoOn(h)
    BY <2>5 DEF HookFails, HookStops, Turn, GoOn
  <2> QED
    BY <1>1, <2>1, <2>2, <2>3, <2>4, <2>5
<1>2. ASSUME NEW r \in Requests, (Preflight(r) /\ r # q) \/ Answered(r) \/ Unanswered(r) \/ Meter(r)
      PROVE  FALSE
  BY <1>2, Zenon DEF Preflight, Answered, Unanswered, Meter
<1>3. ASSUME NEW f \in Refreshes, RefreshUsage(f) \/ UsageArrives(f) \/ UsageRefused(f)
      PROVE  FALSE
  <2>1. \E next : next.at # "sent" /\ proc' = [proc EXCEPT ![f] = next]
    <3>1. CASE RefreshUsage(f)
      BY <3>1 DEF RefreshUsage
    <3>2. CASE UsageArrives(f) \/ UsageRefused(f)
      BY <3>2, Zenon DEF UsageArrives, UsageRefused
    <3> QED
      BY <1>3, <3>1, <3>2
  <2> QED
    BY <2>1
<1>4. ASSUME Statusline \/ RestartProxy \/ SetBudget \/ SetLimits \/ Pause \/ Resume
                 \/ ResetLedger \/ Tick
      PROVE  FALSE
  <2>1. CASE Statusline
    BY <2>1 DEF Statusline
  <2>2. CASE RestartProxy
    BY <2>2 DEF RestartProxy
  <2>3. CASE SetBudget \/ SetLimits \/ Pause \/ Resume \/ ResetLedger \/ Tick
    BY <2>3 DEF SetBudget, SetLimits, Pause, Resume, ResetLedger, Tick
  <2> QED
    BY <1>4, <2>1, <2>2, <2>3
<1> QED
  BY <1>1, <1>2, <1>3, <1>4 DEF Next

LEMMA NextWall == WallInv /\ [Next]_vars => WallInv'
<1> SUFFICES ASSUME WallInv, [Next]_vars PROVE WallInv'
  OBVIOUS
<1>1. CASE UNCHANGED vars
  BY <1>1, Bystander DEF vars, WallInv, Shape
<1>2. CASE Next
  BY <1>2, HookStepsWall, RequestStepsWall, RefreshStepsWall, StatuslineWall, OtherStepsWall,
     TickWall DEF Next
<1> QED
  BY <1>1, <1>2

(* A request over the cap gets through only on a plan the provider has shown
   lately, or that is pinned, and never for an agent that pays by the token
   (dollarWallSuppressed). *)
THEOREM WallAlwaysStands == Spec => WallStands
<1> DEFINE Passes(q) == proc[q].at = "idle" /\ proc'[q].at = "sent" /\ proc'[q].over
           Entitled  == /\ flavor = "anthropic"
                        /\ served.plan = "pinned"
                              \/ (hist.lastSeen # None /\ now - hist.lastSeen < FiveHours)
<1>1. WallInv /\ [Next]_vars => [\A q \in Requests : Passes(q) => Entitled]_vars
  <2> SUFFICES ASSUME WallInv, Next, NEW q \in Requests, Passes(q) PROVE Entitled
    BY DEF vars
  <2>1. Preflight(q)
    BY OnlyPreflightSends
  <2>2. DollarWallSuppressed
    BY <2>1 DEF Preflight, Move, IdleProc, WallInv, Shape
  <2>3. ASSUME Taken(limits), now - limits.at < FiveHours, HasWindow(limits)
        PROVE  hist.lastSeen # None /\ now - hist.lastSeen < FiveHours
    BY <2>3, GuardConstantsOK DEF Taken, WallInv, Shape, StampIsPast
  <2> QED
    BY <2>2, <2>3 DEF DollarWallSuppressed
<1> QED
  BY <1>1, InitWall, NextWall, PTL DEF Spec, WallStands
--------------------------------------------------------------------------------
(* What the proxy has metered.  A hook's copy is a ledger of all sessions, and it
   says of the proxy what the file says unless the hook is about to overwrite it,
   which is a race. *)

Book(b)   == DOMAIN b = Sessions /\ \A s \in Sessions : {"cost", "last", "told"} = DOMAIN b[s]
Histories == {"raced", "excused", "metered", "reset", "toldUntil", "late", "cut", "overlap", "lastSeen"}

(* What the endpoint answers is no business of the ledger's. *)
LEMMA HistUnraced ==
    ASSUME DOMAIN hist = Histories, NEW f \in Refreshes,
           RefreshUsage(f) \/ UsageArrives(f) \/ UsageRefused(f)
    PROVE  /\ ledger' = ledger /\ DOMAIN hist' = Histories /\ hist'.metered = hist.metered
           /\ hist'.raced = hist.raced /\ hist'.reset = hist.reset
           /\ hist'.excused = hist.excused
<1>1. CASE RefreshUsage(f)
  BY <1>1, Zenon DEF RefreshUsage, Histories
<1>2. CASE UsageArrives(f)
  BY <1>2 DEF UsageArrives, Shown, Histories
<1>3. CASE UsageRefused(f)
  BY <1>3, Zenon DEF UsageRefused, Histories
<1> QED
  BY <1>1, <1>2, <1>3

Holding   == {"judged", "answering"}

Kept ==
    /\ Book(ledger) /\ DOMAIN hist = Histories
    /\ DOMAIN proc = Hooks \cup Requests \cup Refreshes
    /\ \A h \in Hooks : proc[h].at \in Holding => Book(proc[h].copy)
MeterInv == Kept /\ LedgerIsTrueInTurn

LEMMA ProxyIsNoHook == Proxy \in Sessions /\ Proxy \notin Hooks /\ Hooks \subseteq Sessions
  BY GuardConstantsOK DEF Sessions

LEMMA InitMeter == Init => MeterInv
<1> SUFFICES ASSUME Init PROVE MeterInv
  OBVIOUS
<1>1. Book(ledger)
  BY DEF Init, Empty, NoRecord, Book
<1>2. DOMAIN hist = Histories /\ hist.metered = 0
  BY DEF Init, Histories
<1>3. /\ DOMAIN proc = Hooks \cup Requests \cup Refreshes
      /\ \A h \in Hooks : proc[h].at \notin Holding
  BY DEF Init, IdleProc, Holding
<1>4. ledger[Proxy].cost = 0
  BY ProxyIsNoHook DEF Init, Empty, NoRecord
<1> QED
  BY <1>1, <1>2, <1>3, <1>4 DEF MeterInv, Kept, LedgerIsTrueInTurn

LEMMA BookFacts ==
    ASSUME NEW book, Book(book), NEW s \in Sessions
    PROVE  /\ \A cost : Book(SetSessionCost(book, s, cost)) /\ Book(AddSessionCost(book, s, cost))
           /\ \A cost : AddSessionCost(book, s, cost)[s].cost = book[s].cost + cost
           /\ \A x : Book([book EXCEPT ![s].told = @ \cup x])
           /\ Book([book EXCEPT ![s] = NoRecord])
  BY DEF Book, SetSessionCost, AddSessionCost, NoRecord

(* Nobody writes the ledger or says that it was raced or reset; the hooks that
   hold a copy keep it. *)
LEMMA LedgerRests ==
    ASSUME MeterInv, ledger' = ledger, DOMAIN hist' = Histories, hist'.metered = hist.metered,
           hist'.raced = hist.raced, hist'.reset = hist.reset, DOMAIN proc' = DOMAIN proc,
           \A h \in Hooks : proc'[h].at \in Holding => proc'[h] = proc[h] \/ Book(proc'[h].copy)
    PROVE  MeterInv'
<1>1. LedgerIsTrueInTurn'
  BY DEF MeterInv, LedgerIsTrueInTurn
<1>2. Kept'
  BY DEF MeterInv, Kept, Book
<1> QED
  BY <1>1, <1>2 DEF MeterInv

(* A save of the hook's own record leaves the proxy's, or it is a race. *)
LEMMA SaveMeters ==
    ASSUME MeterInv, NEW h \in Hooks, NEW copy, Book(copy), Saves(h, copy),
           DOMAIN proc' = DOMAIN proc,
           \A g \in Hooks : proc'[g].at \in Holding => proc'[g] = proc[g] \/ Book(proc'[g].copy)
    PROVE  MeterInv'
<1>1. /\ DOMAIN hist' = Histories /\ hist'.metered = hist.metered /\ hist'.reset = hist.reset
      /\ hist'.raced = (hist.raced \/ \E s \in Sessions \ {h} : ledger[s] # copy[s])
  BY DEF Saves, MeterInv, Kept, Histories
<1>2. ~hist'.raced => ~hist.raced /\ ledger[Proxy] = copy[Proxy]
  BY <1>1, ProxyIsNoHook, Zenon
<1>3. ledger' = copy
  BY DEF Saves
<1>4. LedgerIsTrueInTurn'
  BY <1>1, <1>2, <1>3 DEF MeterInv, LedgerIsTrueInTurn
<1>5. Kept'
  BY <1>1, <1>3 DEF MeterInv, Kept, Book
<1> QED
  BY <1>4, <1>5 DEF MeterInv

LEMMA HookStepsMeter ==
    ASSUME MeterInv, NEW h \in Hooks,
           HookReads(h) \/ HookSaves(h) \/ HookAnswers(h) \/ HookFails(h) \/ HookStops(h)
               \/ Turn(h) \/ GoOn(h)
    PROVE  MeterInv'
<1> USE DEF MeterInv, Kept, Move, IdleProc
<1>1. CASE HookReads(h) /\ IsPaused
  BY <1>1, LedgerRests DEF HookReads, Holding
<1>2. CASE HookReads(h) /\ ~IsPaused
  <2>1. PICK readable \in {TRUE} \cup (IF events < MaxEvents THEN {FALSE} ELSE {}),
            fs \in Chosen(Throttle) :
         /\ proc' = [p \in DOMAIN proc |-> CASE p = h -> Judged(h, IF readable THEN truth[h] ELSE 0)
                     [] p \in fs -> [at |-> "spawned"] [] OTHER -> proc[p]]
         /\ hist' = [hist EXCEPT !.excused = @ \/ ~readable]
    BY <1>2, Zenon DEF HookReads
  <2>2. /\ DOMAIN hist' = Histories /\ hist'.metered = hist.metered
        /\ hist'.raced = hist.raced /\ hist'.reset = hist.reset
    BY <2>1 DEF Histories
  <2>3. Book(Judged(h, IF readable THEN truth[h] ELSE 0).copy)
    BY BookFacts, ProxyIsNoHook DEF Judged
  <2>4. \A g \in Hooks : proc'[g].at \in Holding => proc'[g] = proc[g] \/ Book(proc'[g].copy)
    BY <2>1, <2>3 DEF Holding
  <2>5. ledger' = ledger /\ DOMAIN proc' = DOMAIN proc
    BY <1>2, <2>1 DEF HookReads
  <2> QED
    BY <2>2, <2>4, <2>5, LedgerRests
<1>3. CASE HookSaves(h)
  <2>1. Book(proc[h].copy)
    BY <1>3 DEF HookSaves, Holding
  <2>2. PICK copy : /\ copy = proc[h].copy
                        \/ \E x : copy = [proc[h].copy EXCEPT ![h].told = @ \cup x]
                    /\ Saves(h, copy)
                    /\ proc' = [proc EXCEPT ![h] = [proc[h] EXCEPT !.at = "answering", !.copy = copy]]
    BY <1>3, Zenon DEF HookSaves
  <2>3. Book(copy)
    <3>1. \A x : Book([proc[h].copy EXCEPT ![h].told = @ \cup x])
      BY <2>1, BookFacts, ProxyIsNoHook
    <3> QED
      BY <2>1, <2>2, <3>1
  <2>4. \A g \in Hooks : proc'[g].at \in Holding => proc'[g] = proc[g] \/ Book(proc'[g].copy)
    BY <2>2, <2>3
  <2> QED
    BY <2>2, <2>3, <2>4, SaveMeters
<1>4. CASE HookAnswers(h)
  <2>1. Book(proc[h].copy)
    BY <1>4 DEF HookAnswers, Holding
  <2>2. /\ UNCHANGED <<ledger, hist>> \/ \E x : Saves(h, [proc[h].copy EXCEPT ![h].told = @ \cup x])
        /\ \E next \in {"deny", "allow"} : proc' = [proc EXCEPT ![h] = [at |-> next]]
    BY <1>4 DEF HookAnswers
  <2>3. /\ DOMAIN proc' = DOMAIN proc
        /\ \A g \in Hooks : proc'[g].at \in Holding => proc'[g] = proc[g]
    BY <2>2 DEF Holding
  <2>4. CASE UNCHANGED <<ledger, hist>>
    BY <2>3, <2>4, LedgerRests
  <2>5. CASE \E x : Saves(h, [proc[h].copy EXCEPT ![h].told = @ \cup x])
    BY <2>1, <2>3, <2>5, BookFacts, ProxyIsNoHook, SaveMeters
  <2> QED
    BY <2>2, <2>4, <2>5
<1>5. CASE HookFails(h) \/ HookStops(h) \/ Turn(h) \/ GoOn(h)
  <2>1. /\ ledger' = ledger /\ DOMAIN hist' = Histories /\ hist'.metered = hist.metered
        /\ hist'.raced = hist.raced /\ hist'.reset = hist.reset
    BY <1>5 DEF HookFails, HookStops, Turn, GoOn, Histories
  <2>2. /\ DOMAIN proc' = DOMAIN proc
        /\ \A g \in Hooks : proc'[g].at \in Holding => proc'[g] = proc[g]
    BY <1>5 DEF HookFails, HookStops, Turn, GoOn, Holding
  <2> QED
    BY <2>1, <2>2, LedgerRests
<1> QED
  BY <1>1, <1>2, <1>3, <1>4, <1>5
LEMMA RequestStepsMeter ==
    ASSUME MeterInv, NEW q \in Requests, Preflight(q) \/ Answered(q) \/ Unanswered(q) \/ Meter(q)
    PROVE  MeterInv'
<1> USE DEF MeterInv, Kept, Move, IdleProc
<1>1. CASE Preflight(q) \/ Answered(q) \/ Unanswered(q)
  <2>1. /\ ledger' = ledger /\ DOMAIN hist' = Histories /\ hist'.metered = hist.metered
        /\ hist'.raced = hist.raced /\ hist'.reset = hist.reset
    BY <1>1 DEF Preflight, Answered, Shown, Unanswered, Histories
  <2>2. /\ DOMAIN proc' = DOMAIN proc
        /\ \A h \in Hooks : proc'[h].at \in Holding => proc'[h] = proc[h]
    BY <1>1 DEF Preflight, Answered, Unanswered, Holding
  <2> QED
    BY <2>1, <2>2, LedgerRests
<1>2. CASE Meter(q)
  <2>1. PICK found \in BOOLEAN : \E e :
           /\ ledger' = IF found THEN AddSessionCost(ledger, Proxy, 1) ELSE ledger
           /\ hist' = [hist EXCEPT !.metered = IF found THEN @ + 1 ELSE @, !.excused = e]
           /\ proc' = [proc EXCEPT ![q] = IdleProc]
    BY <1>2, Zenon DEF Meter
  <2>2. /\ DOMAIN hist' = Histories
        /\ hist'.metered = IF found THEN hist.metered + 1 ELSE hist.metered
        /\ hist'.raced = hist.raced /\ hist'.reset = hist.reset
    BY <2>1 DEF Histories
  <2>3. /\ DOMAIN proc' = DOMAIN proc
        /\ \A h \in Hooks : proc'[h].at \in Holding => proc'[h] = proc[h]
    BY <2>1 DEF Holding
  <2>4. /\ Book(ledger) /\ Proxy \in Sessions
        /\ ledger' = IF found THEN AddSessionCost(ledger, Proxy, 1) ELSE ledger
    BY <2>1, ProxyIsNoHook
  <2>5. /\ Book(ledger')
        /\ ledger'[Proxy].cost = IF found THEN ledger[Proxy].cost + 1 ELSE ledger[Proxy].cost
    <3>1. CASE found
      BY <2>4, <3>1, BookFacts
    <3>2. CASE ~found
      BY <2>4, <3>2
    <3> QED
      BY <3>1, <3>2
  <2>6. LedgerIsTrueInTurn'
    BY <2>2, <2>5 DEF LedgerIsTrueInTurn
  <2>7. Kept'
    BY <2>2, <2>3, <2>5
  <2> QED
    BY <2>6, <2>7
<1> QED
  BY <1>1, <1>2

(* Every reset says so. *)
LEMMA ResetMeter == ASSUME MeterInv, ResetLedger PROVE MeterInv'
<1> USE DEF MeterInv, Kept
<1>1. Book(ledger')
  <2>1. Book(Empty)
    BY DEF Empty, NoRecord, Book
  <2>2. \A s \in Sessions : Book([ledger EXCEPT ![s] = NoRecord])
    BY BookFacts
  <2>3. Book([s \in Sessions |->
              IF ledger[s].last # None /\ ledger[s].last \div Day = now \div Day THEN NoRecord
              ELSE ledger[s]])
    BY DEF Book, NoRecord
  <2>4. (cast.who \cap Hooks) \cup {Proxy} \subseteq Sessions
    BY ProxyIsNoHook
  <2> QED
    BY <2>1, <2>2, <2>3, <2>4 DEF ResetLedger
<1>2. proc' = proc /\ DOMAIN hist' = Histories /\ hist'.reset
  BY DEF ResetLedger, Histories
<1>3. LedgerIsTrueInTurn'
  BY <1>2 DEF LedgerIsTrueInTurn
<1>4. Kept'
  BY <1>1, <1>2
<1> QED
  BY <1>3, <1>4

LEMMA OtherStepsMeter ==
    ASSUME MeterInv,
           \/ \E f \in Refreshes : RefreshUsage(f) \/ UsageArrives(f) \/ UsageRefused(f)
           \/ Statusline \/ RestartProxy \/ SetBudget \/ SetLimits \/ Pause \/ Resume \/ Tick
    PROVE  MeterInv'
<1> USE DEF MeterInv, Kept, Move, IdleProc
<1>1. CASE \E f \in Refreshes : RefreshUsage(f) \/ UsageArrives(f) \/ UsageRefused(f)
  <2>1. PICK f \in Refreshes : RefreshUsage(f) \/ UsageArrives(f) \/ UsageRefused(f)
    BY <1>1
  <2>2. /\ ledger' = ledger /\ DOMAIN hist' = Histories /\ hist'.metered = hist.metered
        /\ hist'.raced = hist.raced /\ hist'.reset = hist.reset
    BY <2>1, HistUnraced
  <2>3. \E next : next.at \notin Holding /\ proc' = [proc EXCEPT ![f] = next]
    <3>1. CASE RefreshUsage(f)
      BY <3>1 DEF RefreshUsage, Holding
    <3>2. CASE UsageArrives(f) \/ UsageRefused(f)
      BY <3>2, Zenon DEF UsageArrives, UsageRefused, Holding
    <3> QED
      BY <2>1, <3>1, <3>2
  <2>4. /\ DOMAIN proc' = DOMAIN proc
        /\ \A h \in Hooks : proc'[h].at \in Holding => proc'[h] = proc[h]
    BY <2>3
  <2> QED
    BY <2>2, <2>4, LedgerRests
<1>2. CASE Statusline
  <2>1. /\ ledger' = ledger /\ DOMAIN hist' = Histories /\ hist'.metered = hist.metered
        /\ hist'.raced = hist.raced /\ hist'.reset = hist.reset
    BY <1>2 DEF Statusline, Histories
  <2>2. PICK fs : proc' = [p \in DOMAIN proc |-> IF p \in fs THEN [at |-> "spawned"] ELSE proc[p]]
    BY <1>2 DEF Statusline
  <2>3. /\ DOMAIN proc' = DOMAIN proc
        /\ \A h \in Hooks : proc'[h].at \in Holding => proc'[h] = proc[h]
    BY <2>2 DEF Holding
  <2> QED
    BY <2>1, <2>3, LedgerRests
<1>3. CASE RestartProxy \/ SetBudget \/ SetLimits \/ Pause \/ Resume \/ Tick
  <2>1. /\ ledger' = ledger /\ DOMAIN hist' = Histories /\ hist'.metered = hist.metered
        /\ hist'.raced = hist.raced /\ hist'.reset = hist.reset
    BY <1>3 DEF RestartProxy, SetBudget, SetLimits, Pause, Resume, Tick, Intervened, Histories
  <2>2. /\ DOMAIN proc' = DOMAIN proc
        /\ \A h \in Hooks : proc'[h].at \in Holding => proc'[h] = proc[h]
    BY <1>3 DEF RestartProxy, SetBudget, SetLimits, Pause, Resume, Tick, Holding
  <2> QED
    BY <2>1, <2>2, LedgerRests
<1> QED
  BY <1>1, <1>2, <1>3

LEMMA NextMeter == MeterInv /\ [Next]_vars => MeterInv'
<1> SUFFICES ASSUME MeterInv, [Next]_vars PROVE MeterInv'
  OBVIOUS
<1>1. CASE UNCHANGED vars
  BY <1>1, LedgerRests DEF vars, MeterInv, Kept
<1>2. CASE Next
  BY <1>2, HookStepsMeter, RequestStepsMeter, ResetMeter, OtherStepsMeter DEF Next
<1> QED
  BY <1>1, <1>2

(* Unless a save overtook another or somebody reset it, the ledger holds of the
   proxy exactly what was metered (ledger.ts, addSessionCost). *)
THEOREM LedgerStaysTrue == Spec => []LedgerIsTrueInTurn
<1>1. MeterInv => LedgerIsTrueInTurn
  BY DEF MeterInv
<1> QED
  BY <1>1, InitMeter, NextMeter, PTL DEF Spec
--------------------------------------------------------------------------------
(* Sums.  A set of numbers has a least one; so a family of subsets of a finite
   set that holds the empty one, and every one whose smaller ones by an element
   it holds, holds them all. *)
LEMMA Least == ASSUME NEW N \in SUBSET Nat, N # {} PROVE \E n \in N : \A m \in N : n <= m
<1> DEFINE R == OpToRel(<, Nat)
<1>1. IsWellFoundedOn(R, Nat)
  BY NatLessThanWellFounded, Zenon
<1>2. \A m, n \in Nat : <<m, n>> \notin R => ~(m < n)
  BY DEF OpToRel
<1> HIDE DEF R
<1>3. PICK n \in N : \A m \in N : <<m, n>> \notin R
  BY <1>1, WFMin
<1>4. n \in Nat /\ \A m \in N : m \in Nat /\ ~(m < n)
  BY <1>2, <1>3
<1> QED
  BY <1>4

LEMMA BySize ==
    ASSUME NEW S, IsFiniteSet(S), NEW G, {} \in G,
           \A s \in SUBSET S : (s # {} /\ \A x \in s : s \ {x} \in G) => s \in G
    PROVE  \A s \in SUBSET S : s \in G
<1> DEFINE Bad == {s \in SUBSET S : s \notin G}
           Sizes == {Cardinality(s) : s \in Bad}
<1> SUFFICES ASSUME Bad # {} PROVE FALSE
  OBVIOUS
<1>1. \A s \in SUBSET S : IsFiniteSet(s) /\ Cardinality(s) \in Nat
  BY FS_Subset, FS_CardinalityType
<1>2. Sizes \in SUBSET Nat /\ Sizes # {}
  BY <1>1
<1>3. PICK n \in Sizes : \A m \in Sizes : n <= m
  BY <1>2, Least
<1>4. PICK s \in Bad : Cardinality(s) = n
  BY <1>3
<1>5. \A x \in s : s \ {x} \in G
  <2> SUFFICES ASSUME NEW x \in s PROVE s \ {x} \in G
    OBVIOUS
  <2>1. Cardinality(s \ {x}) = n - 1 /\ n \in Nat
    BY <1>1, <1>4, FS_RemoveElement
  <2>2. s \ {x} \notin Bad
    <3> SUFFICES ASSUME s \ {x} \in Bad PROVE FALSE
      OBVIOUS
    <3>1. n - 1 \in Sizes
      BY <2>1
    <3> QED
      BY <1>3, <2>1, <3>1
  <2> QED
    BY <2>2
<1> QED
  BY <1>4, <1>5

(* The function that MapThenSumSet recurses with. *)
Iterates(f, cost, A) ==
    f = [s \in A |-> IF s = {} THEN 0
                     ELSE LET x == CHOOSE y \in s : TRUE IN cost[x] + f[s \ {x}]]

LEMMA IteratesAgree ==
    ASSUME NEW cost, NEW S, IsFiniteSet(S), NEW T \in SUBSET S, NEW f, NEW g,
           Iterates(f, cost, SUBSET S), Iterates(g, cost, SUBSET T)
    PROVE  g[T] = f[T]
<1> DEFINE G == {s \in SUBSET T : g[s] = f[s]}
<1>1. IsFiniteSet(T) /\ T \in SUBSET T
  BY FS_Subset
<1>2. {} \in G
  BY DEF Iterates
<1>3. ASSUME NEW s \in SUBSET T, s # {}, \A x \in s : s \ {x} \in G PROVE s \in G
  <2> DEFINE x == CHOOSE y \in s : TRUE
  <2>1. x \in s
    BY <1>3
  <2>2. g[s] = cost[x] + g[s \ {x}] /\ f[s] = cost[x] + f[s \ {x}]
    BY <1>3 DEF Iterates
  <2> QED
    BY <1>3, <2>1, <2>2
<1> HIDE DEF G
<1>4. T \in G
  BY <1>1, <1>2, <1>3, BySize
<1> QED
  BY <1>4 DEF G

LEMMA IteratesExist ==
    ASSUME NEW cost, NEW S, IsFiniteSet(S) PROVE \E f : Iterates(f, cost, SUBSET S)
<1> DEFINE Smaller(n) == {s \in SUBSET S : Cardinality(s) < n}
           Bad == {n \in Nat : ~\E f : Iterates(f, cost, Smaller(n))}
<1>1. \A s \in SUBSET S : IsFiniteSet(s) /\ Cardinality(s) \in Nat
  BY FS_Subset, FS_CardinalityType
<1>2. Bad = {}
  <2> SUFFICES ASSUME Bad # {} PROVE FALSE
    OBVIOUS
  <2>1. PICK n \in Bad : \A m \in Bad : n <= m
    BY Least
  <2>2. CASE n = 0
    <3>1. Smaller(0) = {}
      BY <1>1
    <3>2. Iterates([s \in {} |-> 0], cost, Smaller(0))
      BY <3>1 DEF Iterates
    <3> QED
      BY <2>1, <2>2, <3>2
  <2>3. CASE n # 0
    <3>1. n - 1 \in Nat /\ n - 1 \notin Bad
      <4> HIDE DEF Bad
      <4>1. n \in Nat
        BY DEF Bad
      <4> QED
        BY <2>1, <2>3, <4>1
    <3>2. PICK g : Iterates(g, cost, Smaller(n - 1))
      BY <3>1
    <3> DEFINE f == [s \in Smaller(n) |-> IF s = {} THEN 0
                        ELSE LET x == CHOOSE y \in s : TRUE IN cost[x] + g[s \ {x}]]
    <3>3. ASSUME NEW s \in Smaller(n), s # {}, NEW x \in s PROVE f[s \ {x}] = g[s \ {x}]
      <4>1. s \ {x} \in Smaller(n - 1) /\ s \ {x} \in Smaller(n)
        BY <1>1, <2>1, <3>3, FS_RemoveElement
      <4> QED
        BY <3>2, <4>1 DEF Iterates
    <3>4. ASSUME NEW s \in Smaller(n)
          PROVE  f[s] = IF s = {} THEN 0 ELSE LET x == CHOOSE y \in s : TRUE IN cost[x] + f[s \ {x}]
      <4>1. CASE s = {}
        BY <4>1
      <4>2. CASE s # {}
        <5> DEFINE x == CHOOSE y \in s : TRUE
        <5>1. x \in s
          BY <4>2
        <5>2. f[s \ {x}] = g[s \ {x}]
          BY <3>3, <4>2, <5>1
        <5> QED
          BY <4>2, <5>2
      <4> QED
        BY <4>1, <4>2
    <3>5. Iterates(f, cost, Smaller(n))
      <4>1. f = [s \in Smaller(n) |-> IF s = {} THEN 0
                    ELSE LET x == CHOOSE y \in s : TRUE IN cost[x] + f[s \ {x}]]
        <5>1. f = [s \in Smaller(n) |-> f[s]]
          OBVIOUS
        <5> HIDE DEF f
        <5> QED
          BY <3>4, <5>1
      <4> HIDE DEF f
      <4> QED
        BY <4>1 DEF Iterates
    <3> HIDE DEF f
    <3> QED
      BY <2>1, <3>5
  <2> QED
    BY <2>2, <2>3
<1>3. Cardinality(S) + 1 \in Nat
  BY <1>1
<1>4. Smaller(Cardinality(S) + 1) = SUBSET S
  <2>1. \A s \in SUBSET S : Cardinality(s) <= Cardinality(S)
    BY FS_Subset
  <2> QED
    BY <1>1, <2>1
<1> QED
  BY <1>2, <1>3, <1>4

LEMMA TotalRecurses ==
    ASSUME NEW cost, NEW S, IsFiniteSet(S)
    PROVE  /\ S = {} => Total(cost, S) = 0
           /\ S # {} => \E x \in S : Total(cost, S) = cost[x] + Total(cost, S \ {x})
<1>1. \A T : IsFiniteSet(T) => \E f : Iterates(f, cost, SUBSET T) /\ Total(cost, T) = f[T]
  <2> SUFFICES ASSUME NEW T, IsFiniteSet(T)
               PROVE  \E f : Iterates(f, cost, SUBSET T) /\ Total(cost, T) = f[T]
    OBVIOUS
  <2>1. PICK g : Iterates(g, cost, SUBSET T)
    BY IteratesExist
  <2> QED
    BY <2>1 DEF Iterates, Total, MapThenSumSet, MapThenFoldSet
<1>2. PICK f : Iterates(f, cost, SUBSET S) /\ Total(cost, S) = f[S]
  BY <1>1
<1>3. S = {} => Total(cost, S) = 0
  BY <1>2 DEF Iterates
<1>4. ASSUME S # {} PROVE \E x \in S : Total(cost, S) = cost[x] + Total(cost, S \ {x})
  <2> DEFINE x == CHOOSE y \in S : TRUE
  <2>1. x \in S
    BY <1>4
  <2>2. f[S] = cost[x] + f[S \ {x}]
    BY <1>2, <1>4 DEF Iterates
  <2> HIDE DEF x
  <2>3. IsFiniteSet(S \ {x}) /\ S \ {x} \in SUBSET S
    BY FS_Subset
  <2>4. PICK g : Iterates(g, cost, SUBSET (S \ {x})) /\ Total(cost, S \ {x}) = g[S \ {x}]
    BY <1>1, <2>3
  <2>5. g[S \ {x}] = f[S \ {x}]
    BY <1>2, <2>3, <2>4, IteratesAgree
  <2> QED
    BY <1>2, <2>1, <2>2, <2>4, <2>5
<1> QED
  BY <1>3, <1>4

Numbers(f, S) == \A x \in S : f[x] \in Int

LEMMA TotalIsInt ==
    ASSUME NEW f, NEW S, IsFiniteSet(S), Numbers(f, S) PROVE Total(f, S) \in Int
<1> DEFINE G == {s \in SUBSET S : Total(f, s) \in Int}
<1>1. \A s \in SUBSET S : IsFiniteSet(s)
  BY FS_Subset
<1>2. {} \in G
  BY <1>1, TotalRecurses
<1>3. ASSUME NEW s \in SUBSET S, s # {}, \A x \in s : s \ {x} \in G PROVE s \in G
  <2>1. PICK x \in s : Total(f, s) = f[x] + Total(f, s \ {x})
    BY <1>1, <1>3, TotalRecurses
  <2> QED
    BY <1>3, <2>1 DEF Numbers
<1> HIDE DEF G
<1>4. \A s \in SUBSET S : s \in G
  BY <1>2, <1>3, BySize
<1> QED
  BY <1>4 DEF G

(* Any of the elements may be counted first. *)
LEMMA TotalOneLess ==
    ASSUME NEW f, NEW S, IsFiniteSet(S), Numbers(f, S), NEW x \in S
    PROVE  Total(f, S) = f[x] + Total(f, S \ {x})
<1> DEFINE G == {s \in SUBSET S : \A y \in s : Total(f, s) = f[y] + Total(f, s \ {y})}
<1>1. \A s \in SUBSET S : IsFiniteSet(s) /\ Total(f, s) \in Int
  <2> SUFFICES ASSUME NEW s \in SUBSET S PROVE IsFiniteSet(s) /\ Total(f, s) \in Int
    OBVIOUS
  <2>1. IsFiniteSet(s) /\ Numbers(f, s)
    BY FS_Subset DEF Numbers
  <2> QED
    BY <2>1, TotalIsInt
<1>2. {} \in G
  OBVIOUS
<1>3. ASSUME NEW s \in SUBSET S, s # {}, \A y \in s : s \ {y} \in G PROVE s \in G
  <2>1. PICK c \in s : Total(f, s) = f[c] + Total(f, s \ {c})
    BY <1>1, <1>3, TotalRecurses
  <2> SUFFICES ASSUME NEW y \in s, y # c PROVE Total(f, s) = f[y] + Total(f, s \ {y})
    BY <2>1
  <2>2. Total(f, s \ {c}) = f[y] + Total(f, (s \ {c}) \ {y})
    BY <1>3
  <2>3. Total(f, s \ {y}) = f[c] + Total(f, (s \ {y}) \ {c})
    BY <1>3
  <2>4. (s \ {c}) \ {y} = (s \ {y}) \ {c}
    OBVIOUS
  <2>5. Total(f, (s \ {c}) \ {y}) \in Int /\ f[c] \in Int /\ f[y] \in Int
    BY <1>1 DEF Numbers
  <2> DEFINE t == Total(f, (s \ {c}) \ {y})
             u == Total(f, s \ {y})
             v == Total(f, s \ {c})
  <2>6. u = f[c] + t
    BY <2>3, <2>4
  <2>7. v = f[y] + t /\ t \in Int /\ Total(f, s) = f[c] + v
    BY <2>1, <2>2, <2>5
  <2> HIDE DEF t, u, v
  <2>8. Total(f, s) = f[y] + u
    BY <2>5, <2>6, <2>7
  <2> QED
    BY <2>8 DEF u
<1> HIDE DEF G
<1>4. \A s \in SUBSET S : s \in G
  BY <1>2, <1>3, BySize
<1> QED
  BY <1>4 DEF G

LEMMA TotalsCompare ==
    ASSUME NEW S, IsFiniteSet(S), NEW f, NEW g, NEW a, NEW b,
           \A x \in S : /\ f[x] \in Int /\ g[x] \in Int /\ a[x] \in Int /\ b[x] \in Int
                        /\ f[x] + g[x] <= a[x] + b[x]
    PROVE  /\ Total(f, S) \in Int /\ Total(g, S) \in Int /\ Total(a, S) \in Int /\ Total(b, S) \in Int
           /\ Total(f, S) + Total(g, S) <= Total(a, S) + Total(b, S)
<1> DEFINE G == {s \in SUBSET S : Total(f, s) + Total(g, s) <= Total(a, s) + Total(b, s)}
<1>1. \A s \in SUBSET S : /\ IsFiniteSet(s)
                          /\ Numbers(f, s) /\ Numbers(g, s) /\ Numbers(a, s) /\ Numbers(b, s)
  BY FS_Subset DEF Numbers
<1>2. \A s \in SUBSET S : /\ Total(f, s) \in Int /\ Total(g, s) \in Int
                          /\ Total(a, s) \in Int /\ Total(b, s) \in Int
  BY <1>1, TotalIsInt
<1>3. {} \in G
  BY <1>1, TotalRecurses
<1>4. ASSUME NEW s \in SUBSET S, s # {}, \A x \in s : s \ {x} \in G PROVE s \in G
  <2>1. PICK x \in s : TRUE
    BY <1>4
  <2>2. /\ Total(f, s) = f[x] + Total(f, s \ {x}) /\ Total(g, s) = g[x] + Total(g, s \ {x})
        /\ Total(a, s) = a[x] + Total(a, s \ {x}) /\ Total(b, s) = b[x] + Total(b, s \ {x})
    BY <1>1, TotalOneLess
  <2>3. /\ Total(f, s \ {x}) \in Int /\ Total(g, s \ {x}) \in Int
        /\ Total(a, s \ {x}) \in Int /\ Total(b, s \ {x}) \in Int
    BY <1>2
  <2>4. Total(f, s \ {x}) + Total(g, s \ {x}) <= Total(a, s \ {x}) + Total(b, s \ {x})
    BY <1>4
  <2> QED
    BY <2>2, <2>3, <2>4
<1> HIDE DEF G
<1>5. \A s \in SUBSET S : s \in G
  BY <1>3, <1>4, BySize
<1> QED
  BY <1>2, <1>5 DEF G

LEMMA TotalsAgree ==
    ASSUME NEW S, IsFiniteSet(S), NEW f, NEW g, Numbers(f, S), \A x \in S : f[x] = g[x]
    PROVE  Total(f, S) = Total(g, S)
<1> DEFINE z == [x \in S |-> 0]
<1>1. \A x \in S : f[x] \in Int /\ g[x] \in Int /\ z[x] \in Int
                  /\ f[x] + z[x] <= g[x] + z[x] /\ g[x] + z[x] <= f[x] + z[x]
  BY DEF Numbers
<1> HIDE DEF z
<1>2. Total(f, S) \in Int /\ Total(g, S) \in Int /\ Total(z, S) \in Int
  BY <1>1, TotalIsInt DEF Numbers
<1>3. Total(f, S) + Total(z, S) <= Total(g, S) + Total(z, S)
  BY <1>1, TotalsCompare
<1>4. Total(g, S) + Total(z, S) <= Total(f, S) + Total(z, S)
  BY <1>1, TotalsCompare
<1> QED
  BY <1>2, <1>3, <1>4

(* One term changes. *)
LEMMA TotalOneChanges ==
    ASSUME NEW S, IsFiniteSet(S), NEW f, NEW g, Numbers(f, S), Numbers(g, S), NEW x \in S,
           \A y \in S \ {x} : f[y] = g[y]
    PROVE  Total(g, S) = Total(f, S) - f[x] + g[x]
<1>1. IsFiniteSet(S \ {x}) /\ Numbers(f, S \ {x})
  BY FS_Subset DEF Numbers
<1>2. Total(f, S \ {x}) = Total(g, S \ {x}) /\ Total(f, S \ {x}) \in Int
  BY <1>1, TotalsAgree, TotalIsInt
<1>3. Total(f, S) = f[x] + Total(f, S \ {x}) /\ Total(g, S) = g[x] + Total(g, S \ {x})
  BY TotalOneLess
<1>4. f[x] \in Int /\ g[x] \in Int
  BY DEF Numbers
<1> QED
  BY <1>2, <1>3, <1>4

(* Two for each of some of the elements. *)
LEMMA TotalOfPairs ==
    ASSUME NEW S, IsFiniteSet(S), NEW A, NEW f, \A x \in S : f[x] = IF x \in A THEN 2 ELSE 0
    PROVE  Total(f, S) = 2 * Cardinality(A \cap S)
<1> DEFINE G == {s \in SUBSET S : Total(f, s) = 2 * Cardinality(A \cap s)}
<1>1. \A s \in SUBSET S : IsFiniteSet(s) /\ Numbers(f, s) /\ IsFiniteSet(A \cap s)
                         /\ Cardinality(A \cap s) \in Nat
  <2> SUFFICES ASSUME NEW s \in SUBSET S
               PROVE  IsFiniteSet(s) /\ Numbers(f, s) /\ IsFiniteSet(A \cap s)
                         /\ Cardinality(A \cap s) \in Nat
    OBVIOUS
  <2>1. IsFiniteSet(s) /\ IsFiniteSet(A \cap s)
    BY FS_Subset
  <2> QED
    BY <2>1, FS_CardinalityType DEF Numbers
<1>2. {} \in G
  BY <1>1, TotalRecurses, FS_EmptySet
<1>3. ASSUME NEW s \in SUBSET S, s # {}, \A x \in s : s \ {x} \in G PROVE s \in G
  <2>1. PICK x \in s : TRUE
    BY <1>3
  <2>2. Total(f, s) = f[x] + Total(f, s \ {x})
    <3>1. IsFiniteSet(s) /\ Numbers(f, s)
      BY <1>1
    <3> QED
      BY <3>1, TotalOneLess
  <2>3. Total(f, s \ {x}) = 2 * Cardinality(A \cap (s \ {x})) /\ Cardinality(A \cap (s \ {x})) \in Nat
    BY <1>1, <1>3
  <2>4. CASE x \in A
    <3>1. A \cap (s \ {x}) = (A \cap s) \ {x} /\ x \in A \cap s
      BY <2>4
    <3>2. IsFiniteSet(A \cap s)
      BY <1>1
    <3>3. Cardinality((A \cap s) \ {x}) = Cardinality(A \cap s) - 1
      BY <3>1, <3>2, FS_RemoveElement
    <3>4. Cardinality(A \cap s) \in Nat /\ f[x] = 2
      BY <1>1, <2>4
    <3>5. Cardinality(A \cap (s \ {x})) = Cardinality(A \cap s) - 1
      BY <3>1, <3>3
    <3> QED
      BY <2>2, <2>3, <3>4, <3>5
  <2>5. CASE x \notin A
    <3>1. A \cap (s \ {x}) = A \cap s
      BY <2>5
    <3> QED
      <4>1. f[x] = 0 /\ Cardinality(A \cap s) \in Nat
        BY <1>1, <2>5
      <4> QED
        BY <2>2, <2>3, <3>1, <4>1
  <2> QED
    BY <2>4, <2>5
<1> HIDE DEF G
<1>4. \A s \in SUBSET S : s \in G
  BY <1>2, <1>3, BySize
<1> QED
  BY <1>4 DEF G
(* What does not count adds nothing. *)
LEMMA TotalOfSome ==
    ASSUME NEW S, IsFiniteSet(S), NEW A \in SUBSET S, NEW f, Numbers(f, S), \A x \in S \ A : f[x] = 0
    PROVE  Total(f, A) = Total(f, S)
<1> DEFINE G == {s \in SUBSET S : Total(f, A \cap s) = Total(f, s)}
<1>1. \A s \in SUBSET S : IsFiniteSet(s) /\ Numbers(f, s) /\ Total(f, s) \in Int
  <2> SUFFICES ASSUME NEW s \in SUBSET S PROVE IsFiniteSet(s) /\ Numbers(f, s) /\ Total(f, s) \in Int
    OBVIOUS
  <2>1. IsFiniteSet(s) /\ Numbers(f, s)
    BY FS_Subset DEF Numbers
  <2> QED
    BY <2>1, TotalIsInt
<1>2. {} \in G
  OBVIOUS
<1>3. ASSUME NEW s \in SUBSET S, s # {}, \A x \in s : s \ {x} \in G PROVE s \in G
  <2>1. PICK x \in s : TRUE
    BY <1>3
  <2>2. IsFiniteSet(s) /\ Numbers(f, s)
    BY <1>1
  <2>3. Total(f, s) = f[x] + Total(f, s \ {x})
    BY <2>2, TotalOneLess
  <2>4. Total(f, A \cap (s \ {x})) = Total(f, s \ {x})
    BY <1>3
  <2>5. CASE x \in A
    <3>1. IsFiniteSet(A \cap s) /\ Numbers(f, A \cap s) /\ x \in A \cap s
      BY <1>1, <2>5
    <3>2. Total(f, A \cap s) = f[x] + Total(f, (A \cap s) \ {x})
      BY <3>1, TotalOneLess
    <3>3. (A \cap s) \ {x} = A \cap (s \ {x})
      OBVIOUS
    <3> QED
      BY <2>3, <2>4, <3>2, <3>3
  <2>6. CASE x \notin A
    <3>1. A \cap (s \ {x}) = A \cap s /\ f[x] = 0 /\ Total(f, s \ {x}) \in Int
      BY <1>1, <2>6
    <3>2. Total(f, A \cap (s \ {x})) = Total(f, A \cap s)
      BY <3>1
    <3>3. f[x] = 0 /\ Total(f, s \ {x}) \in Int
      BY <3>1
    <3> QED
      BY <2>3, <2>4, <3>2, <3>3
  <2> QED
    BY <2>5, <2>6
<1> HIDE DEF G
<1>4. \A s \in SUBSET S : s \in G
  BY <1>2, <1>3, BySize
<1>5. A \cap S = A /\ S \in G
  BY <1>4
<1> QED
  BY <1>5 DEF G
--------------------------------------------------------------------------------
(* The overshoot.  As long as nothing excuses more, what has been paid, with
   the requests let through that are still to be paid and the turns the hooks
   have still to allow, stays below the cap and what is in flight: whoever lets
   something through has just found the books below the cap, and what the books
   do not hold yet is then no more than one for every other request and for
   every session. *)

Undisturbed == ~hist.raced /\ ~hist.excused /\ ~subscriber
Cap         == FirstBudget.dailyHard
At(where)   == {q \in Requests : proc[q].at = where}
Costs(book) == [s \in Sessions |-> book[s].cost]

(* The turns a session has, before a hook stops it or lets it through again:
   the one that is allowed, and the one in which it says that it was denied. *)
TurnsLeft == [h \in Hooks |->
    IF ~Here(h) \/ proc[h].at = "stopped" THEN 0
    ELSE IF proc[h].at = "allow" \/ (proc[h].at = "answering" /\ proc[h].verdict # "block") THEN 2
    ELSE 1]

Numeric(book) == \A s \in Sessions : book[s].cost \in Int /\ book[s].last \in Int
Counted ==
    /\ truth \in [Sessions -> Int] /\ now \in Nat /\ Numeric(ledger)
    /\ \A h \in Hooks : proc[h].at \in Holding => Numeric(proc[h].copy)

AsConfigured ==
    /\ config.budget = FirstBudget /\ config.plan = "auto" /\ served = config
    /\ paused = None /\ limits.at = None
OfToday ==
    \A s \in Sessions : IF ledger[s].last = None THEN ledger[s].cost = 0
                        ELSE now - ledger[s].last < Day
Metered ==
    /\ truth[Proxy] = ledger[Proxy].cost + Cardinality(At("metering"))
    /\ At("sent") \cup At("metering") \subseteq cast.who
Owing(h) ==
    /\ proc[h].at \in {"idle", "judged", "answering", "allow", "deny", "stopped"}
    /\ ~Here(h) => proc[h].at = "idle" /\ truth[h] = 0 /\ ledger[h].cost = 0
    /\ truth[h] - ledger[h].cost \in {0, 1}
    /\ proc[h].at \in {"answering", "allow", "deny"} => truth[h] = ledger[h].cost
    /\ proc[h].at \in Holding =>
        /\ proc[h].copy[h].cost = truth[h] /\ proc[h].copy[h].last # None
        /\ ~proc[h].plan
        /\ Cap > 0 /\ proc[h].verdict # "block" => Total(Costs(proc[h].copy), Sessions) < Cap
Bounded ==
    Cap > 0 => Total(truth, Sessions) + Cardinality(At("sent")) + Total(TurnsLeft, Hooks)
                 < Cap + InFlight

Accounted ==
    Undisturbed => AsConfigured /\ OfToday /\ Metered /\ (\A h \in Hooks : Owing(h)) /\ Bounded
SpendInv == MeterInv /\ Counted /\ Accounted

LEMMA Finite ==
    /\ IsFiniteSet(Sessions) /\ IsFiniteSet(Hooks)
    /\ \A where : IsFiniteSet(At(where)) /\ Cardinality(At(where)) \in Nat
    /\ Cardinality(cast.who \cap Requests) \in Nat /\ Cardinality(cast.who \cap Hooks) \in Nat
    /\ IsFiniteSet(cast.who \cap Requests)
<1>1. IsFiniteSet(Hooks) /\ IsFiniteSet(Requests)
  BY GuardConstantsOK
<1>2. IsFiniteSet(Sessions)
  BY <1>1, FS_AddElement DEF Sessions
<1>3. \A where : IsFiniteSet(At(where)) /\ Cardinality(At(where)) \in Nat
  <2> SUFFICES ASSUME NEW where PROVE IsFiniteSet(At(where)) /\ Cardinality(At(where)) \in Nat
    OBVIOUS
  <2>1. At(where) \in SUBSET Requests
    BY DEF At
  <2> QED
    BY <1>1, <2>1, FS_Subset, FS_CardinalityType
<1>4. cast.who \cap Requests \in SUBSET Requests /\ cast.who \cap Hooks \in SUBSET Hooks
  OBVIOUS
<1>5. IsFiniteSet(cast.who \cap Requests) /\ IsFiniteSet(cast.who \cap Hooks)
  BY <1>1, <1>4, FS_Subset
<1> QED
  BY <1>1, <1>2, <1>3, <1>5, FS_CardinalityType

LEMMA TurnsAreFew == \A h \in Hooks : TurnsLeft[h] \in {0, 1, 2} /\ (~Here(h) => TurnsLeft[h] = 0)
  BY DEF TurnsLeft

(* What the requests hold between them. *)
LEMMA RequestsInFlight ==
    ASSUME At("sent") \cup At("metering") \subseteq cast.who
    PROVE  Cardinality(At("sent")) + Cardinality(At("metering")) <= Cardinality(cast.who \cap Requests)
<1>1. At("sent") \cap At("metering") = {}
      /\ At("sent") \cup At("metering") \in SUBSET (cast.who \cap Requests)
  BY DEF At
<1>2. Cardinality(At("sent") \cup At("metering")) <= Cardinality(cast.who \cap Requests)
  BY <1>1, Finite, FS_Subset
<1>3. Cardinality(At("sent") \cup At("metering"))
        = Cardinality(At("sent")) + Cardinality(At("metering")) - Cardinality({})
  <2>1. IsFiniteSet(At("sent")) /\ IsFiniteSet(At("metering"))
    BY Finite
  <2>2. Cardinality(At("sent") \cup At("metering"))
        = Cardinality(At("sent")) + Cardinality(At("metering"))
            - Cardinality(At("sent") \cap At("metering"))
    BY <2>1, FS_Union
  <2> QED
    BY <1>1, <2>2
<1>4. Cardinality({}) = 0
  BY FS_EmptySet
<1> QED
  BY <1>2, <1>3, <1>4, Finite

LEMMA RequestsInFlightNext ==
    ASSUME (At("sent") \cup At("metering") \subseteq cast.who)'
    PROVE  Cardinality(At("sent")') + Cardinality(At("metering")') <= Cardinality(cast'.who \cap Requests)
<1>1. (At("sent") \cup At("metering") \subseteq cast.who =>
        Cardinality(At("sent")) + Cardinality(At("metering")) <= Cardinality(cast.who \cap Requests))'
  BY RequestsInFlight, PTL
<1> QED
  BY <1>1

(* Whoever lets something through has found the books below the cap: t is then
   what has been paid, c what is booked, p the turns left, n and m the requests
   sent and still to be metered. *)
LEMMA LetThrough ==
    ASSUME NEW t, NEW c, NEW p, Numbers(t, Sessions), Numbers(c, Sessions), Numbers(p, Hooks),
           NEW n \in Nat, NEW m \in Nat, n + m <= Cardinality(cast.who \cap Requests),
           t[Proxy] = c[Proxy] + m,
           \A h \in Hooks : t[h] + p[h] <= c[h] + (IF Here(h) THEN 2 ELSE 0),
           Cap \in Int, Total(c, Sessions) < Cap
    PROVE  Total(t, Sessions) + n + Total(p, Hooks) < Cap + InFlight
<1> DEFINE two == [h \in Hooks |-> IF h \in cast.who THEN 2 ELSE 0]
<1>1. /\ IsFiniteSet(Sessions) /\ IsFiniteSet(Hooks) /\ Sessions \ {Proxy} = Hooks /\ Proxy \in Sessions
      /\ Hooks \subseteq Sessions
  BY Finite, GuardConstantsOK DEF Sessions
<1>2. Total(two, Hooks) = 2 * Cardinality(cast.who \cap Hooks)
  BY <1>1, TotalOfPairs
<1>3. \A h \in Hooks : /\ t[h] \in Int /\ p[h] \in Int /\ c[h] \in Int /\ two[h] \in Int
                       /\ t[h] + p[h] <= c[h] + two[h]
  BY <1>1 DEF Numbers, Here
<1> HIDE DEF two
<1>4. /\ Total(t, Hooks) \in Int /\ Total(p, Hooks) \in Int
      /\ Total(c, Hooks) \in Int /\ Total(two, Hooks) \in Int
      /\ Total(t, Hooks) + Total(p, Hooks) <= Total(c, Hooks) + Total(two, Hooks)
  BY <1>1, <1>3, TotalsCompare
<1>5. Total(t, Sessions) = t[Proxy] + Total(t, Sessions \ {Proxy})
      /\ Total(c, Sessions) = c[Proxy] + Total(c, Sessions \ {Proxy})
  BY <1>1, TotalOneLess
<1>6. Total(t, Sessions) = t[Proxy] + Total(t, Hooks) /\ Total(c, Sessions) = c[Proxy] + Total(c, Hooks)
  BY <1>1, <1>5
<1>7. t[Proxy] \in Int /\ c[Proxy] \in Int
  BY <1>1 DEF Numbers
<1>8. Cardinality(cast.who \cap Requests) \in Nat /\ Cardinality(cast.who \cap Hooks) \in Nat
  BY Finite
<1> QED
  BY <1>2, <1>4, <1>6, <1>7, <1>8 DEF InFlight

(* The day's figure is all that is booked, while all of it is of today; and a
   verdict that does not block has found it below the cap. *)
LEMMA DayIsAll ==
    ASSUME NEW book, Numeric(book), now \in Nat,
           \A s \in Sessions : IF book[s].last = None THEN book[s].cost = 0
                               ELSE now - book[s].last < Day
    PROVE  RollingDailyCost(book) = Total(Costs(book), Sessions)
<1>1. Active(book) \in SUBSET Sessions
  BY DEF Active
<1>2. Numbers(Costs(book), Sessions) /\ \A s \in Sessions \ Active(book) : Costs(book)[s] = 0
  BY DEF Costs, Numeric, Numbers, Active
<1>3. Total(Costs(book), Active(book)) = Total(Costs(book), Sessions)
  BY <1>1, <1>2, Finite, TotalOfSome
<1> QED
  BY <1>3 DEF RollingDailyCost, Costs

LEMMA BelowTheCap ==
    ASSUME NEW session, NEW daily \in Int, Evaluate(session, daily, FirstBudget) # "block", Cap > 0
    PROVE  daily < Cap /\ Cap \in Int
<1>1. Cap \in Int
  BY GuardConstantsOK DEF Cap
<1>2. ~Crossed(daily, Cap)
  BY DEF Evaluate, Cap
<1> QED
  BY <1>1, <1>2 DEF Crossed

LEMMA NoPlan ==
    ASSUME AsConfigured PROVE ~(LimitsReport.headers \/ config.plan = "pinned") /\ ~DollarWallSuppressed
                              /\ ~IsPaused
<1>1. ~Taken(limits) /\ config.plan # "pinned" /\ served.plan # "pinned"
  BY DEF AsConfigured, Taken
<1>2. ~DollarWallSuppressed
  BY <1>1 DEF DollarWallSuppressed
<1>3. LimitsReport.headers = FALSE
  BY <1>1 DEF LimitsReport
<1>4. ~IsPaused
  BY DEF AsConfigured, IsPaused
<1> QED
  BY <1>1, <1>2, <1>3, <1>4

LEMMA NumericFacts ==
    ASSUME NEW book, Book(book), Numeric(book), NEW s \in Sessions
    PROVE  /\ \A cost \in Int : now \in Nat => /\ Numeric(SetSessionCost(book, s, cost))
                                               /\ Numeric(AddSessionCost(book, s, cost))
           /\ \A x : Numeric([book EXCEPT ![s].told = @ \cup x])
  BY DEF Book, Numeric, SetSessionCost, AddSessionCost

LEMMA CountedStays ==
    ASSUME Counted, truth' \in [Sessions -> Int], now' \in Nat, ledger' = ledger \/ Numeric(ledger'),
           \A h \in Hooks : proc'[h].at \in Holding => proc'[h] = proc[h] \/ Numeric(proc'[h].copy)
    PROVE  Counted'
  BY DEF Counted, Numeric

(* Of a session that nothing touches the accounts stay. *)
LEMMA StillOwing ==
    ASSUME NEW g \in Hooks, Owing(g), cast' = cast, proc'[g] = proc[g], truth'[g] = truth[g],
           ledger'[g].cost = ledger[g].cost
    PROVE  Owing(g)'
  BY DEF Owing, Here, Holding, Costs

LEMMA SamePlaces ==
    ASSUME \A q \in Requests : proc'[q].at = proc[q].at
    PROVE  \A where : At(where)' = At(where)
  BY DEF At

(* What a session has paid and is not booked, and what it may yet pay. *)
LEMMA OwesAtMostTwo ==
    ASSUME NEW g \in Hooks, Owing(g), truth[g] \in Int, ledger[g].cost \in Int
    PROVE  truth[g] + TurnsLeft[g] <= ledger[g].cost + (IF Here(g) THEN 2 ELSE 0)
  BY DEF Owing, TurnsLeft, Holding

LEMMA LetThroughNext ==
    ASSUME cast' = cast, Cap > 0,
           Numbers(truth', Sessions), Numbers(Costs(ledger'), Sessions), Numbers(TurnsLeft', Hooks),
           Cardinality(At("sent")') + Cardinality(At("metering")') <= Cardinality(cast.who \cap Requests),
           truth'[Proxy] = Costs(ledger')[Proxy] + Cardinality(At("metering")'),
           \A h \in Hooks : truth'[h] + TurnsLeft'[h] <= Costs(ledger')[h] + (IF Here(h) THEN 2 ELSE 0),
           Total(Costs(ledger'), Sessions) < Cap
    PROVE  Bounded'
<1>1. Cardinality(At("sent")') \in Nat /\ Cardinality(At("metering")') \in Nat
  <2>1. At("sent")' \in SUBSET Requests /\ At("metering")' \in SUBSET Requests
    BY DEF At
  <2> QED
    BY <2>1, GuardConstantsOK, FS_Subset, FS_CardinalityType
<1>2. Cap \in Int
  BY GuardConstantsOK DEF Cap
<1>3. Total(truth', Sessions) + Cardinality(At("sent")') + Total(TurnsLeft', Hooks) < Cap + InFlight
  BY <1>1, <1>2, LetThrough
<1>4. InFlight' = InFlight
  BY DEF InFlight
<1> QED
  BY <1>3, <1>4 DEF Bounded, Cap

(* A turn taken, or no longer to be taken, leaves the sum below the bound. *)
LEMMA HookTrades ==
    ASSUME Counted, Counted', Bounded, NEW h \in Hooks, cast' = cast,
           \A s \in Sessions \ {h} : truth'[s] = truth[s],
           \A g \in Hooks \ {h} : proc'[g] = proc[g],
           \A q \in Requests : proc'[q] = proc[q],
           truth'[h] + TurnsLeft'[h] <= truth[h] + TurnsLeft[h]
    PROVE  Bounded'
<1>1. IsFiniteSet(Sessions) /\ IsFiniteSet(Hooks) /\ h \in Sessions
  BY Finite, ProxyIsNoHook
<1>2. Numbers(truth, Sessions) /\ Numbers(truth', Sessions)
  BY DEF Counted, Numbers
<1>3. \A g \in Hooks : TurnsLeft[g] \in Int /\ TurnsLeft'[g] \in Int
  BY TurnsAreFew DEF TurnsLeft
<1>4. \A g \in Hooks \ {h} : TurnsLeft[g] = TurnsLeft'[g]
  BY DEF TurnsLeft, Here
<1>5. Total(truth', Sessions) = Total(truth, Sessions) - truth[h] + truth'[h]
      /\ Total(truth, Sessions) \in Int
  BY <1>1, <1>2, TotalOneChanges, TotalIsInt
<1>6. Total(TurnsLeft', Hooks) = Total(TurnsLeft, Hooks) - TurnsLeft[h] + TurnsLeft'[h]
      /\ Total(TurnsLeft, Hooks) \in Int
  BY <1>1, <1>3, <1>4, TotalOneChanges, TotalIsInt DEF Numbers
<1>7. At("sent")' = At("sent") /\ Cardinality(At("sent")) \in Nat
  BY Finite DEF At
<1>8. truth[h] \in Int /\ truth'[h] \in Int /\ TurnsLeft[h] \in Int /\ TurnsLeft'[h] \in Int
  BY <1>1, <1>2, <1>3 DEF Numbers
<1>9. Cap \in Int /\ InFlight' = InFlight /\ InFlight \in Int
  BY GuardConstantsOK, Finite DEF Cap, InFlight
<1>10. (Cap > 0)' <=> Cap > 0
  BY DEF Cap
<1> QED
  BY <1>5, <1>6, <1>7, <1>8, <1>9 DEF Bounded, Cap

(* One session goes on: the others, the requests and the proxy's account stay. *)
LEMMA OneHookMoves ==
    ASSUME SpendInv, Counted', NEW h \in Hooks, Undisturbed' => Undisturbed, Here(h),
           now' = now, cast' = cast, UNCHANGED <<config, served, paused, limits>>,
           \A s \in Sessions \ {h} : truth'[s] = truth[s],
           \A g \in Hooks \ {h} : proc'[g] = proc[g],
           \A q \in Requests : proc'[q] = proc[q],
           Undisturbed' =>
             /\ \A s \in Sessions \ {h} : ledger'[s] = ledger[s]
             /\ OfToday'
             /\ Owing(h)'
             /\ truth'[h] + TurnsLeft'[h] <= truth[h] + TurnsLeft[h] \/ Bounded'
    PROVE  Accounted'
<1> SUFFICES ASSUME Undisturbed'
             PROVE  AsConfigured' /\ OfToday' /\ Metered' /\ (\A g \in Hooks : Owing(g))' /\ Bounded'
  BY DEF Accounted
<1>1. AsConfigured /\ Metered /\ (\A g \in Hooks : Owing(g)) /\ Bounded /\ Counted
  BY DEF SpendInv, Accounted
<1>2. AsConfigured'
  BY <1>1 DEF AsConfigured
<1>3. \A where : At(where)' = At(where)
  BY DEF At
<1>4. Metered'
  BY <1>1, <1>3, ProxyIsNoHook DEF Metered
<1>5. (\A g \in Hooks : Owing(g))'
  <2> SUFFICES ASSUME NEW g \in Hooks, g # h PROVE Owing(g)'
    OBVIOUS
  <2> QED
    BY <1>1, StillOwing, ProxyIsNoHook
<1>6. Bounded'
  BY <1>1, HookTrades
<1> QED
  BY <1>2, <1>4, <1>5, <1>6

LEMMA HookReadsSpends ==
    ASSUME SpendInv, NEW h \in Hooks, HookReads(h) PROVE Counted' /\ Accounted'
<1>1. /\ Here(h) /\ proc[h].at = "idle" /\ DOMAIN proc = Hooks \cup Requests \cup Refreshes
      /\ now' = now /\ cast' = cast /\ subscriber' = subscriber /\ ledger' = ledger /\ truth' = truth
      /\ UNCHANGED <<config, served, paused, limits>>
  BY Zenon DEF HookReads, Idle, SpendInv, MeterInv, Kept, fixed
<1>2. Counted /\ Book(ledger) /\ DOMAIN hist = Histories
  BY DEF SpendInv, MeterInv, Kept
<1>3. CASE IsPaused
  <2>1. proc' = [proc EXCEPT ![h] = [at |-> "allow"]] /\ hist' = hist
    BY <1>3, Zenon DEF HookReads, Move
  <2>2. Counted'
    BY <1>1, <1>2, <2>1, CountedStays DEF Counted, Holding
  <2>3. Undisturbed' => Undisturbed
    BY <1>1, <2>1 DEF Undisturbed
  <2>4. ~Undisturbed
    BY <1>3, NoPlan DEF SpendInv, Accounted
  <2> QED
    BY <2>2, <2>3, <2>4 DEF Accounted
<1>4. CASE ~IsPaused
  <2>1. PICK readable \in {TRUE} \cup (IF events < MaxEvents THEN {FALSE} ELSE {}),
            fs \in Chosen(Throttle) :
         /\ proc' = [p \in DOMAIN proc |-> CASE p = h -> Judged(h, IF readable THEN truth[h] ELSE 0)
                     [] p \in fs -> [at |-> "spawned"] [] OTHER -> proc[p]]
         /\ hist' = [hist EXCEPT !.excused = @ \/ ~readable]
    BY <1>4, Zenon DEF HookReads
  <2>2. fs \subseteq Refreshes
    BY DEF Chosen, Spawns
  <2> DEFINE j == Judged(h, IF readable THEN truth[h] ELSE 0)
  <2>3. /\ j.at = "judged" /\ j.copy = SetSessionCost(ledger, h, IF readable THEN truth[h] ELSE 0)
        /\ j.verdict = Evaluate(IF readable THEN truth[h] ELSE 0, RollingDailyCost(j.copy), config.budget)
        /\ j.plan = (LimitsReport.headers \/ config.plan = "pinned")
    BY Zenon DEF Judged
  <2> HIDE DEF j
  <2>4. /\ proc'[h] = j
        /\ \A g \in (Hooks \ {h}) \cup Requests : proc'[g] = proc[g]
    BY <1>1, <2>1, <2>2, GuardConstantsOK DEF j
  <2>5. h \in Sessions /\ truth[h] \in Int
    BY <1>2, ProxyIsNoHook DEF Counted
  <2>6. Numeric(j.copy)
    BY <1>2, <2>3, <2>5, NumericFacts DEF Counted
  <2>7. Counted'
    <3>1. \A g \in Hooks : proc'[g].at \in Holding => proc'[g] = proc[g] \/ Numeric(proc'[g].copy)
      BY <2>4, <2>6
    <3> QED
      BY <1>1, <1>2, <3>1, CountedStays DEF Counted
  <2>8. Undisturbed' => Undisturbed /\ readable
    BY <1>1, <1>2, <2>1 DEF Undisturbed, Histories
  <2>9. ASSUME Undisturbed'
        PROVE  OfToday' /\ Owing(h)' /\ truth'[h] + TurnsLeft'[h] <= truth[h] + TurnsLeft[h]
    <3>1. AsConfigured /\ OfToday /\ Owing(h)
      BY <2>8, <2>9 DEF SpendInv, Accounted
    <3>2. OfToday'
      BY <1>1, <3>1 DEF OfToday
    <3>3. j.copy = SetSessionCost(ledger, h, truth[h])
      BY <2>3, <2>8, <2>9
    <3>4. /\ j.copy[h].cost = truth[h] /\ j.copy[h].last = now
          /\ \A s \in Sessions \ {h} : j.copy[s] = ledger[s]
      BY <1>2, <2>5, <3>3 DEF SetSessionCost, Book
    <3>5. RollingDailyCost(j.copy) = Total(Costs(j.copy), Sessions)
      <4>1. \A s \in Sessions : IF j.copy[s].last = None THEN j.copy[s].cost = 0
                                ELSE now - j.copy[s].last < Day
        BY <1>2, <3>1, <3>4, GuardConstantsOK DEF OfToday, Counted, None
      <4> QED
        BY <1>2, <2>6, <4>1, DayIsAll DEF Counted
    <3>6. ~j.plan
      BY <2>3, <3>1, NoPlan
    <3>7. Cap > 0 /\ j.verdict # "block" => Total(Costs(j.copy), Sessions) < Cap
      <4>1. Numbers(Costs(j.copy), Sessions)
        BY <2>6 DEF Numbers, Costs, Numeric
      <4>2. Total(Costs(j.copy), Sessions) \in Int
        BY <4>1, Finite, TotalIsInt
      <4>3. j.verdict = Evaluate(truth[h], Total(Costs(j.copy), Sessions), FirstBudget)
        BY <2>3, <2>8, <2>9, <3>1, <3>5 DEF AsConfigured
      <4> QED
        BY <4>2, <4>3, BelowTheCap
    <3>8. Owing(h)'
      <4>1. j.copy[h].last # None
        BY <1>2, <3>4 DEF Counted, None
      <4> QED
        BY <1>1, <2>3, <2>4, <3>1, <3>4, <3>6, <3>7, <4>1 DEF Owing, Here, Holding, Costs, Cap
    <3>9. TurnsLeft'[h] = 1 /\ TurnsLeft[h] = 1
      BY <1>1, <2>3, <2>4 DEF TurnsLeft, Here
    <3> QED
      BY <1>1, <2>5, <3>2, <3>8, <3>9
  <2> QED
    BY <1>1, <2>4, <2>7, <2>8, <2>9, OneHookMoves
<1> QED
  BY <1>3, <1>4

(* Saved copies.  One that is not excused is of the day, and says of every other
   session what the file says. *)
LEMMA SavesInTurn ==
    ASSUME Kept, Counted, NEW h \in Hooks, NEW copy, Numeric(copy), Saves(h, copy), subscriber' = subscriber,
           Undisturbed'
    PROVE  /\ Undisturbed /\ ledger' = copy
           /\ \A s \in Sessions \ {h} : ledger'[s] = ledger[s]
           /\ now - copy[h].last < Day
<1>1. /\ hist'.raced = (hist.raced \/ \E s \in Sessions \ {h} : ledger[s] # copy[s])
      /\ hist'.excused = (hist.excused \/ now - copy[h].last >= Day)
      /\ ledger' = copy
  BY Zenon DEF Saves, Kept, Histories
<1>2. Undisturbed /\ (\A s \in Sessions \ {h} : ledger[s] = copy[s]) /\ ~(now - copy[h].last >= Day)
  BY <1>1, Zenon DEF Undisturbed
<1>3. now \in Int /\ copy[h].last \in Int /\ Day \in Int
  BY ProxyIsNoHook, GuardConstantsOK DEF Counted, Numeric
<1> QED
  BY <1>1, <1>2, <1>3

LEMMA SavedOfToday ==
    ASSUME NEW h \in Hooks, OfToday, now' = now, \A s \in Sessions \ {h} : ledger'[s] = ledger[s],
           now - ledger'[h].last < Day, ledger'[h].last # None
    PROVE  OfToday'
  BY DEF OfToday

LEMMA HookSavesSpends ==
    ASSUME SpendInv, NEW h \in Hooks, HookSaves(h) PROVE Counted' /\ Accounted'
<1> DEFINE me == proc[h]
<1>1. /\ Here(h) /\ me.at = "judged" /\ DOMAIN proc = Hooks \cup Requests \cup Refreshes
      /\ now' = now /\ cast' = cast /\ subscriber' = subscriber /\ truth' = truth
      /\ UNCHANGED <<config, served, paused, limits>>
  BY Zenon DEF HookSaves, SpendInv, MeterInv, Kept, fixed
<1>2. Counted /\ Kept /\ h \in Sessions
  BY ProxyIsNoHook DEF SpendInv, MeterInv
<1>3. Book(me.copy) /\ Numeric(me.copy)
  BY <1>1, <1>2 DEF Kept, Counted, Holding
<1>4. PICK copy : /\ copy = me.copy \/ \E x : copy = [me.copy EXCEPT ![h].told = @ \cup x]
                  /\ Saves(h, copy)
                  /\ proc' = [proc EXCEPT ![h] = [me EXCEPT !.at = "answering", !.copy = copy]]
  <2> DEFINE fresh == me.verdict # "ok" /\ me.verdict \notin me.copy[h].told
             copy == IF fresh THEN [me.copy EXCEPT ![h].told = @ \cup {me.verdict}] ELSE me.copy
  <2>1. Saves(h, copy) /\ proc' = [proc EXCEPT ![h] = [me EXCEPT !.at = "answering", !.copy = copy]]
    BY Zenon DEF HookSaves, Move
  <2>2. copy = me.copy \/ \E x : copy = [me.copy EXCEPT ![h].told = @ \cup x]
    BY Zenon
  <2> HIDE DEF copy
  <2> QED
    BY <2>1, <2>2, Zenon
<1>5. /\ Numeric(copy)
      /\ \A s \in Sessions : copy[s].cost = me.copy[s].cost
  BY <1>2, <1>3, <1>4 DEF Book, Numeric
<1>6. /\ \A g \in (Hooks \ {h}) \cup Requests : proc'[g] = proc[g]
      /\ proc'[h] = [me EXCEPT !.at = "answering", !.copy = copy]
  BY <1>1, <1>4, GuardConstantsOK
<1>7. ledger' = copy
  BY <1>4, Zenon DEF Saves
<1>8. proc'[h].at \in Holding => proc'[h].copy = copy \/ proc'[h] = me
  BY <1>6
<1>9. Counted'
  <2>1. \A g \in Hooks : proc'[g].at \in Holding => proc'[g] = proc[g] \/ Numeric(proc'[g].copy)
    BY <1>5, <1>6, <1>8
  <2> QED
    BY <1>1, <1>2, <1>5, <1>7, <2>1, CountedStays DEF Counted
<1>10. ASSUME Undisturbed'
       PROVE  /\ Undisturbed /\ \A s \in Sessions \ {h} : ledger'[s] = ledger[s]
              /\ OfToday' /\ Owing(h)'
              /\ truth'[h] + TurnsLeft'[h] <= truth[h] + TurnsLeft[h] \/ Bounded'
  <2>1. /\ Undisturbed /\ \A s \in Sessions \ {h} : ledger'[s] = ledger[s]
        /\ now - copy[h].last < Day
    BY <1>1, <1>2, <1>4, <1>5, <1>10, SavesInTurn
  <2>2. AsConfigured /\ OfToday /\ Metered /\ (\A g \in Hooks : Owing(g))
    BY <2>1 DEF SpendInv, Accounted
  <2>3. /\ me.copy[h].cost = truth[h] /\ me.copy[h].last # None /\ ~me.plan
        /\ Cap > 0 /\ me.verdict # "block" => Total(Costs(me.copy), Sessions) < Cap
    BY <1>1, <2>2 DEF Owing, Holding
  <2>4. Costs(copy) = Costs(me.copy)
    BY <1>5 DEF Costs
  <2>5. copy[h].last = me.copy[h].last
    BY <1>2, <1>3, <1>4 DEF Book
  <2>6. OfToday'
    BY <1>1, <1>7, <2>1, <2>2, <2>3, <2>5, SavedOfToday
  <2>7. /\ proc'[h].at = "answering" /\ proc'[h].copy = copy /\ proc'[h].plan = me.plan
        /\ proc'[h].verdict = me.verdict
    BY <1>6
  <2>8. truth[h] = ledger'[h].cost /\ truth[h] \in Int
    BY <1>2, <1>5, <1>7, <2>3 DEF Counted
  <2>9. Owing(h)'
    BY <1>1, <1>5, <1>7, <2>3, <2>4, <2>5, <2>7, <2>8 DEF Owing, Here, Holding, Cap
  <2>10. CASE me.verdict = "block"
    <3>1. TurnsLeft'[h] = 1 /\ TurnsLeft[h] = 1
      BY <1>1, <2>7, <2>10 DEF TurnsLeft, Here
    <3> QED
      BY <1>1, <2>1, <2>6, <2>8, <2>9, <3>1
  <2>11. CASE me.verdict # "block" /\ Cap > 0
    <3>1. Total(Costs(ledger'), Sessions) < Cap
      BY <1>7, <2>3, <2>4, <2>11
    <3>2. Numbers(Costs(ledger'), Sessions) /\ Numbers(truth', Sessions)
      BY <1>9 DEF Counted, Numeric, Numbers, Costs
    <3>3. Numbers(TurnsLeft', Hooks)
      BY TurnsAreFew DEF Numbers, TurnsLeft
    <3>4. At("sent")' = At("sent") /\ At("metering")' = At("metering")
      BY <1>6 DEF At
    <3>5. Cardinality(At("sent")') + Cardinality(At("metering")') <= Cardinality(cast.who \cap Requests)
      BY <2>2, <3>4, RequestsInFlight DEF Metered
    <3>6. truth'[Proxy] = Costs(ledger')[Proxy] + Cardinality(At("metering")')
      BY <1>1, <2>1, <2>2, <3>4, ProxyIsNoHook DEF Metered, Costs
    <3>7. ASSUME NEW g \in Hooks
          PROVE  truth'[g] + TurnsLeft'[g] <= Costs(ledger')[g] + (IF Here(g) THEN 2 ELSE 0)
      <4>1. g \in Sessions /\ truth[g] \in Int /\ ledger'[g].cost \in Int /\ Costs(ledger')[g] = ledger'[g].cost
        BY <1>2, <1>9, ProxyIsNoHook DEF Counted, Numeric, Costs
      <4>2. CASE g = h
        <5>1. TurnsLeft'[h] = 2
          BY <1>1, <2>7, <2>11 DEF TurnsLeft, Here
        <5> QED
          BY <1>1, <2>8, <4>1, <4>2, <5>1
      <4>3. CASE g # h
        <5>1. proc'[g] = proc[g] /\ ledger'[g].cost = ledger[g].cost /\ truth'[g] = truth[g] /\ Owing(g)
          BY <1>1, <1>6, <2>1, <2>2, <4>1, <4>3
        <5>2. TurnsLeft'[g] = TurnsLeft[g]
          BY <1>1, <5>1 DEF TurnsLeft, Here
        <5> QED
          BY <4>1, <5>1, <5>2, OwesAtMostTwo
      <4> QED
        BY <4>2, <4>3
    <3>8. Bounded'
      BY <1>1, <2>11, <3>1, <3>2, <3>3, <3>5, <3>6, <3>7, LetThroughNext
    <3> QED
      BY <2>1, <2>6, <2>9, <3>8
  <2>12. CASE ~(Cap > 0)
    BY <2>1, <2>6, <2>9, <2>12 DEF Bounded, Cap
  <2> QED
    BY <2>10, <2>11, <2>12
<1> QED
  BY <1>1, <1>6, <1>9, <1>10, OneHookMoves

LEMMA HookAnswersSpends ==
    ASSUME SpendInv, NEW h \in Hooks, HookAnswers(h) PROVE Counted' /\ Accounted'
<1> DEFINE me == proc[h]
<1>1. /\ Here(h) /\ me.at = "answering" /\ DOMAIN proc = Hooks \cup Requests \cup Refreshes
      /\ now' = now /\ cast' = cast /\ subscriber' = subscriber /\ truth' = truth
      /\ UNCHANGED <<config, served, paused, limits>>
  BY Zenon DEF HookAnswers, SpendInv, MeterInv, Kept, fixed
<1>2. Counted /\ Kept /\ h \in Sessions
  BY ProxyIsNoHook DEF SpendInv, MeterInv
<1>3. Book(me.copy) /\ Numeric(me.copy)
  BY <1>1, <1>2 DEF Kept, Counted, Holding
<1>4. /\ UNCHANGED <<ledger, hist>> \/ \E x : Saves(h, [me.copy EXCEPT ![h].told = @ \cup x])
      /\ proc' = [proc EXCEPT ![h] = [at |-> IF me.verdict = "block" /\ ~me.plan THEN "deny" ELSE "allow"]]
  BY Zenon DEF HookAnswers, Move
<1>5. \A g \in (Hooks \ {h}) \cup Requests : proc'[g] = proc[g]
  BY <1>1, <1>4, GuardConstantsOK
<1>6. proc'[h].at = (IF me.verdict = "block" /\ ~me.plan THEN "deny" ELSE "allow")
  BY <1>1, <1>4
<1>7. UNCHANGED <<ledger, hist>> \/ \E copy : /\ Saves(h, copy) /\ Numeric(copy)
                                              /\ copy[h].cost = me.copy[h].cost
                                              /\ copy[h].last = me.copy[h].last
  <2>1. ASSUME NEW x PROVE LET copy == [me.copy EXCEPT ![h].told = @ \cup x]
                           IN  Numeric(copy) /\ copy[h].cost = me.copy[h].cost /\ copy[h].last = me.copy[h].last
    BY <1>2, <1>3 DEF Book, Numeric
  <2> QED
    BY <1>4, <2>1, Zenon
<1>8. Counted'
  <2>1. \A g \in Hooks : proc'[g].at \in Holding => proc'[g] = proc[g]
    BY <1>5, <1>6 DEF Holding
  <2>2. ledger' = ledger \/ Numeric(ledger')
    BY <1>7, Zenon DEF Saves
  <2> QED
    BY <1>1, <1>2, <2>1, <2>2, CountedStays DEF Counted
<1>9. ASSUME Undisturbed'
      PROVE  /\ Undisturbed /\ \A s \in Sessions \ {h} : ledger'[s] = ledger[s]
             /\ OfToday' /\ Owing(h)'
             /\ truth'[h] + TurnsLeft'[h] <= truth[h] + TurnsLeft[h]
  <2>1. Undisturbed
    <3>1. CASE UNCHANGED <<ledger, hist>>
      BY <1>1, <1>9, <3>1 DEF Undisturbed
    <3>2. CASE \E copy : Saves(h, copy) /\ Numeric(copy)
      BY <1>1, <1>2, <1>9, <3>2, SavesInTurn
    <3> QED
      BY <1>7, <3>1, <3>2
  <2>2. OfToday /\ Owing(h)
    BY <2>1 DEF SpendInv, Accounted
  <2>3. /\ me.copy[h].cost = truth[h] /\ me.copy[h].last # None /\ ~me.plan
        /\ truth[h] = ledger[h].cost
    BY <1>1, <2>2 DEF Owing, Holding
  <2>4. /\ \A s \in Sessions \ {h} : ledger'[s] = ledger[s]
        /\ OfToday' /\ ledger'[h].cost = ledger[h].cost
    <3>1. CASE UNCHANGED <<ledger, hist>>
      BY <1>1, <2>2, <3>1 DEF OfToday
    <3>2. CASE \E copy : /\ Saves(h, copy) /\ Numeric(copy)
                         /\ copy[h].cost = me.copy[h].cost
                         /\ copy[h].last = me.copy[h].last
      <4>1. PICK copy : /\ Saves(h, copy) /\ Numeric(copy)
                        /\ copy[h].cost = me.copy[h].cost
                        /\ copy[h].last = me.copy[h].last
        BY <3>2
      <4>2. /\ ledger' = copy /\ \A s \in Sessions \ {h} : ledger'[s] = ledger[s]
            /\ now - copy[h].last < Day
        BY <1>1, <1>2, <1>9, <4>1, SavesInTurn
      <4>3. OfToday'
        BY <1>1, <2>2, <2>3, <4>1, <4>2, SavedOfToday
      <4> QED
        BY <2>3, <4>1, <4>2, <4>3
    <3> QED
      BY <1>7, <3>1, <3>2
  <2>5. truth[h] \in Int
    BY <1>2 DEF Counted
  <2>6. Owing(h)'
    BY <1>1, <1>6, <2>3, <2>4, <2>5 DEF Owing, Here, Holding
  <2>7. TurnsLeft'[h] = TurnsLeft[h] /\ TurnsLeft[h] \in Int
    BY <1>1, <1>6, <2>3 DEF TurnsLeft, Here
  <2> QED
    BY <1>1, <2>1, <2>4, <2>5, <2>6, <2>7
<1> QED
  BY <1>1, <1>5, <1>8, <1>9, OneHookMoves

(* The agent goes on, or a Stop event ends the hook. *)
LEMMA HookMovesOnSpends ==
    ASSUME SpendInv, NEW h \in Hooks, HookStops(h) \/ Turn(h) PROVE Counted' /\ Accounted'
<1>1. /\ Here(h) /\ DOMAIN proc = Hooks \cup Requests \cup Refreshes
      /\ now' = now /\ cast' = cast /\ subscriber' = subscriber /\ ledger' = ledger /\ hist' = hist
      /\ UNCHANGED <<config, served, paused, limits>>
  BY Zenon DEF HookStops, Turn, SpendInv, MeterInv, Kept, fixed
<1>2. Counted /\ Kept /\ h \in Sessions /\ truth[h] \in Int
  BY ProxyIsNoHook DEF SpendInv, MeterInv, Counted
<1>3. \/ proc[h].at = "answering" /\ truth' = truth /\ proc' = [proc EXCEPT ![h] = [at |-> "idle"]]
      \/ /\ truth' = [truth EXCEPT ![h] = @ + 1]
         /\ \/ proc[h].at = "allow" /\ proc' = [proc EXCEPT ![h] = [at |-> "idle"]]
            \/ proc[h].at = "deny" /\ proc' = [proc EXCEPT ![h] = [at |-> "stopped"]]
  BY DEF HookStops, Turn, Move, IdleProc
<1>4. \A g \in (Hooks \ {h}) \cup Requests : proc'[g] = proc[g]
  BY <1>1, <1>3, GuardConstantsOK
<1>5. \/ proc[h].at = "answering" /\ truth'[h] = truth[h] /\ proc'[h].at = "idle"
      \/ /\ truth'[h] = truth[h] + 1
         /\ \/ proc[h].at = "allow" /\ proc'[h].at = "idle"
            \/ proc[h].at = "deny" /\ proc'[h].at = "stopped"
  BY <1>1, <1>2, <1>3 DEF Counted
<1>6. truth' \in [Sessions -> Int] /\ \A s \in Sessions \ {h} : truth'[s] = truth[s]
  BY <1>2, <1>3 DEF Counted
<1>7. Counted'
  <2>1. \A g \in Hooks : proc'[g].at \in Holding => proc'[g] = proc[g]
    BY <1>4, <1>5 DEF Holding
  <2> QED
    BY <1>1, <1>2, <1>6, <2>1, CountedStays DEF Counted
<1>8. Undisturbed' => Undisturbed
  BY <1>1 DEF Undisturbed
<1>9. ASSUME Undisturbed'
      PROVE  OfToday' /\ Owing(h)' /\ truth'[h] + TurnsLeft'[h] <= truth[h] + TurnsLeft[h]
  <2>1. OfToday /\ Owing(h)
    BY <1>8, <1>9 DEF SpendInv, Accounted
  <2>2. OfToday'
    BY <1>1, <2>1 DEF OfToday
  <2>3. truth[h] = ledger[h].cost
    BY <1>5, <2>1 DEF Owing
  <2>4. Owing(h)'
    BY <1>1, <1>2, <1>5, <2>3 DEF Owing, Here, Holding
  <2>5. truth'[h] + TurnsLeft'[h] <= truth[h] + TurnsLeft[h]
    BY <1>1, <1>2, <1>5 DEF TurnsLeft, Here
  <2> QED
    BY <2>2, <2>4, <2>5
<1> QED
  BY <1>1, <1>4, <1>6, <1>7, <1>8, <1>9, OneHookMoves

LEMMA HookStepsSpend ==
    ASSUME SpendInv, NEW h \in Hooks,
           HookReads(h) \/ HookSaves(h) \/ HookAnswers(h) \/ HookFails(h) \/ HookStops(h)
               \/ Turn(h) \/ GoOn(h)
    PROVE  Counted' /\ Accounted'
<1>1. CASE HookFails(h) \/ GoOn(h)
  <2>1. /\ \E at : at \notin Holding /\ proc' = [proc EXCEPT ![h] = [at |-> at]]
        /\ ledger' = ledger /\ truth' = truth /\ now' = now
    BY <1>1 DEF HookFails, GoOn, Move, IdleProc, Holding
  <2>2. hist'.excused
    BY <1>1, Zenon DEF HookFails, GoOn, SpendInv, MeterInv, Kept, Histories
  <2>3. Counted /\ DOMAIN proc = Hooks \cup Requests \cup Refreshes
    BY DEF SpendInv, MeterInv, Kept
  <2>4. \A g \in Hooks : proc'[g].at \in Holding => proc'[g] = proc[g]
    BY <2>1, <2>3
  <2>5. Counted'
    BY <2>1, <2>3, <2>4, CountedStays DEF Counted
  <2> QED
    BY <2>2, <2>5 DEF Accounted, Undisturbed
<1> QED
  BY <1>1, HookReadsSpends, HookSavesSpends, HookAnswersSpends, HookMovesOnSpends

(* A request moves: the sessions of the hooks stay. *)
LEMMA OneRequestMoves ==
    ASSUME SpendInv, cast' = cast, Undisturbed' => Undisturbed /\ limits' = limits,
           UNCHANGED <<config, served, paused>>,
           \A h \in Hooks : /\ proc'[h] = proc[h] /\ truth'[h] = truth[h]
                            /\ ledger'[h].cost = ledger[h].cost,
           Undisturbed' => OfToday' /\ Metered' /\ Bounded'
    PROVE  Accounted'
<1> SUFFICES ASSUME Undisturbed'
             PROVE  AsConfigured' /\ OfToday' /\ Metered' /\ (\A g \in Hooks : Owing(g))' /\ Bounded'
  BY DEF Accounted
<1>1. AsConfigured /\ (\A g \in Hooks : Owing(g))
  BY DEF SpendInv, Accounted
<1>2. AsConfigured'
  BY <1>1 DEF AsConfigured
<1>3. (\A g \in Hooks : Owing(g))'
  <2> SUFFICES ASSUME NEW g \in Hooks PROVE Owing(g)'
    OBVIOUS
  <2> QED
    BY <1>1, StillOwing
<1> QED
  BY <1>2, <1>3

(* Paid for, or no longer to be paid. *)
LEMMA RequestTrades ==
    ASSUME Counted, Counted', Bounded, cast' = cast,
           \A h \in Hooks : proc'[h] = proc[h] /\ truth'[h] = truth[h],
           truth'[Proxy] + Cardinality(At("sent")') <= truth[Proxy] + Cardinality(At("sent")),
           Cardinality(At("sent")') \in Nat
    PROVE  Bounded'
<1>1. IsFiniteSet(Sessions) /\ Proxy \in Sessions /\ Sessions \ {Proxy} \subseteq Hooks
  BY Finite, ProxyIsNoHook DEF Sessions
<1>2. Numbers(truth, Sessions) /\ Numbers(truth', Sessions)
  BY DEF Counted, Numbers
<1>3. Total(truth', Sessions) = Total(truth, Sessions) - truth[Proxy] + truth'[Proxy]
      /\ Total(truth, Sessions) \in Int
  BY <1>1, <1>2, TotalOneChanges, TotalIsInt
<1>4. TurnsLeft' = TurnsLeft
  BY DEF TurnsLeft, Here
<1>5. Total(TurnsLeft, Hooks) \in Int
  BY Finite, TurnsAreFew, TotalIsInt DEF Numbers
<1>6. truth[Proxy] \in Int /\ truth'[Proxy] \in Int /\ Cardinality(At("sent")) \in Nat
  BY <1>1, <1>2, Finite DEF Numbers
<1>7. Cap \in Int /\ InFlight' = InFlight /\ InFlight \in Int
  BY GuardConstantsOK, Finite DEF Cap, InFlight
<1>8. Total(TurnsLeft', Hooks) = Total(TurnsLeft, Hooks)
  BY <1>4
<1> QED
  BY <1>3, <1>5, <1>6, <1>7, <1>8 DEF Bounded, Cap

LEMMA PreflightSpends ==
    ASSUME SpendInv, NEW q \in Requests, Preflight(q) PROVE Counted' /\ Accounted'
<1> DEFINE verdict == Evaluate(ledger[Proxy].cost, RollingDailyCost(ledger), served.budget)
           blocked == verdict = "block" /\ ~IsPaused /\ ~DollarWallSuppressed
<1>1. /\ Here(q) /\ proc[q].at = "idle" /\ DOMAIN proc = Hooks \cup Requests \cup Refreshes
      /\ now' = now /\ cast' = cast /\ subscriber' = subscriber /\ ledger' = ledger /\ hist' = hist
      /\ truth' = truth /\ UNCHANGED <<config, served, paused, limits>>
  BY Zenon DEF Preflight, Idle, SpendInv, MeterInv, Kept, fixed
<1>2. /\ blocked => proc' = [proc EXCEPT ![q] = [at |-> "idle"]]
      /\ ~blocked => \E next : next.at = "sent" /\ proc' = [proc EXCEPT ![q] = next]
  <2> DEFINE next == [at |-> "sent", plan |-> DollarWallSuppressed, over |-> verdict = "block" /\ ~IsPaused]
  <2>1. proc' = [proc EXCEPT ![q] = IF blocked THEN [at |-> "idle"] ELSE next]
    BY Zenon DEF Preflight, Move, IdleProc
  <2>2. next.at = "sent"
    OBVIOUS
  <2> HIDE DEF next, blocked
  <2> QED
    BY <2>1, <2>2
<1> HIDE DEF blocked
<1>3. \A p \in (Requests \ {q}) \cup Hooks : proc'[p] = proc[p]
  BY <1>1, <1>2, GuardConstantsOK
<1>4. proc'[q].at = IF blocked THEN "idle" ELSE "sent"
  BY <1>1, <1>2
<1>5. Counted /\ Undisturbed' = Undisturbed
  BY <1>1 DEF SpendInv, Undisturbed
<1>6. Counted'
  BY <1>1, <1>3, <1>5, CountedStays DEF Counted
<1>7. ASSUME Undisturbed PROVE OfToday' /\ Metered' /\ Bounded'
  <2>1. AsConfigured /\ OfToday /\ Metered /\ (\A g \in Hooks : Owing(g)) /\ Bounded
    BY <1>7 DEF SpendInv, Accounted
  <2>2. OfToday'
    BY <1>1, <2>1 DEF OfToday
  <2>3. At("metering")' = At("metering") /\ At("sent")' \subseteq At("sent") \cup {q}
    BY <1>1, <1>3, <1>4 DEF At
  <2>4. Metered'
    BY <1>1, <2>1, <2>3 DEF Metered, Here
  <2>5. CASE blocked
    <3>1. At("sent")' = At("sent")
      BY <1>1, <1>3, <1>4, <2>5 DEF At
    <3> QED
      BY <1>1, <1>3, <1>5, <1>6, <2>1, <2>2, <2>4, <3>1, RequestTrades, ProxyIsNoHook, Finite DEF Counted
  <2>6. CASE ~blocked
    <3>1. verdict # "block"
      BY <2>1, <2>6, NoPlan DEF blocked
    <3>2. Numbers(Costs(ledger'), Sessions) /\ Numbers(truth', Sessions)
      BY <1>6 DEF Counted, Numeric, Numbers, Costs
    <3>3. Numbers(TurnsLeft', Hooks)
      BY TurnsAreFew DEF Numbers, TurnsLeft
    <3>4. Cap > 0 => Total(Costs(ledger'), Sessions) < Cap
      <4>1. RollingDailyCost(ledger) = Total(Costs(ledger), Sessions)
        BY <1>5, <2>1, DayIsAll DEF Counted, OfToday
      <4>2. Total(Costs(ledger), Sessions) \in Int
        BY <1>1, <3>2, Finite, TotalIsInt
      <4> QED
        BY <1>1, <2>1, <3>1, <4>1, <4>2, BelowTheCap DEF AsConfigured
    <3>5. Cardinality(At("sent")') + Cardinality(At("metering")') <= Cardinality(cast.who \cap Requests)
      <4>1. (At("sent") \cup At("metering") \subseteq cast.who)'
        BY <2>4 DEF Metered
      <4> QED
        BY <1>1, <4>1, RequestsInFlightNext
    <3>6. truth'[Proxy] = Costs(ledger')[Proxy] + Cardinality(At("metering")')
      BY <1>1, <2>1, <2>3, ProxyIsNoHook DEF Metered, Costs
    <3>7. ASSUME NEW g \in Hooks
          PROVE  truth'[g] + TurnsLeft'[g] <= Costs(ledger')[g] + (IF Here(g) THEN 2 ELSE 0)
      <4>1. /\ g \in Sessions /\ truth[g] \in Int /\ ledger[g].cost \in Int
            /\ Costs(ledger')[g] = ledger[g].cost /\ TurnsLeft'[g] = TurnsLeft[g]
        BY <1>1, <1>3, <1>5, ProxyIsNoHook DEF Counted, Numeric, Costs, TurnsLeft, Here
      <4> QED
        BY <1>1, <2>1, <4>1, OwesAtMostTwo
    <3>8. Bounded'
      <4>1. CASE Cap > 0
        BY <1>1, <3>2, <3>3, <3>4, <3>5, <3>6, <3>7, <4>1, LetThroughNext
      <4>2. CASE ~(Cap > 0)
        BY <4>2 DEF Bounded, Cap
      <4> QED
        BY <4>1, <4>2
    <3> QED
      BY <2>2, <2>4, <3>8
  <2> QED
    BY <2>5, <2>6
<1> QED
  BY <1>1, <1>3, <1>5, <1>6, <1>7, OneRequestMoves

LEMMA AnsweredSpends ==
    ASSUME SpendInv, NEW q \in Requests, Answered(q) PROVE Counted' /\ Accounted'
<1>1. /\ Here(q) /\ proc[q].at = "sent" /\ DOMAIN proc = Hooks \cup Requests \cup Refreshes
      /\ now' = now /\ cast' = cast /\ subscriber' = subscriber /\ ledger' = ledger
      /\ truth' = [truth EXCEPT ![Proxy] = @ + 1] /\ UNCHANGED <<config, served, paused>>
  BY Zenon DEF Answered, SpendInv, MeterInv, Kept, fixed
<1>2. /\ \E next : next.at = "metering" /\ proc' = [proc EXCEPT ![q] = next]
      /\ ~subscriber => limits' = limits /\ hist' = hist
  BY DEF Answered, Move
<1>3. \A p \in (Requests \ {q}) \cup Hooks : proc'[p] = proc[p]
  BY <1>1, <1>2, GuardConstantsOK
<1>4. proc'[q].at = "metering"
  BY <1>1, <1>2
<1>5. Counted /\ (Undisturbed' => Undisturbed /\ limits' = limits)
  BY <1>1, <1>2 DEF SpendInv, Undisturbed
<1>6. truth' \in [Sessions -> Int] /\ truth'[Proxy] = truth[Proxy] + 1 /\ truth[Proxy] \in Int
      /\ \A h \in Hooks : truth'[h] = truth[h]
  BY <1>1, <1>5, ProxyIsNoHook DEF Counted
<1>7. Counted'
  BY <1>1, <1>3, <1>5, <1>6, CountedStays DEF Counted
<1>8. ASSUME Undisturbed PROVE OfToday' /\ Metered' /\ Bounded'
  <2>1. AsConfigured /\ OfToday /\ Metered /\ Bounded
    BY <1>8 DEF SpendInv, Accounted
  <2>2. OfToday'
    BY <1>1, <2>1 DEF OfToday
  <2>3. /\ At("metering")' = At("metering") \cup {q} /\ q \notin At("metering")
        /\ At("sent")' = At("sent") \ {q} /\ q \in At("sent")
    BY <1>1, <1>3, <1>4 DEF At
  <2>4. /\ Cardinality(At("metering")') = Cardinality(At("metering")) + 1
        /\ Cardinality(At("sent")') = Cardinality(At("sent")) - 1
    BY <2>3, Finite, FS_AddElement, FS_RemoveElement
  <2>5. /\ Cardinality(At("metering")) \in Nat /\ Cardinality(At("sent")) \in Nat
        /\ Cardinality(At("sent")') \in Nat
    BY <2>3, Finite, FS_RemoveElement, FS_CardinalityType
  <2>6. ledger[Proxy].cost \in Int
    BY <1>5, ProxyIsNoHook DEF Counted, Numeric
  <2>7. Metered'
    BY <1>1, <1>6, <2>1, <2>3, <2>4, <2>5, <2>6 DEF Metered, Here
  <2>8. Bounded'
    BY <1>1, <1>3, <1>5, <1>6, <1>7, <2>1, <2>4, <2>5, RequestTrades
  <2> QED
    BY <2>2, <2>7, <2>8
<1> QED
  BY <1>1, <1>3, <1>5, <1>6, <1>7, <1>8, OneRequestMoves

LEMMA MeterSpends ==
    ASSUME SpendInv, NEW q \in Requests, Meter(q) PROVE Counted' /\ Accounted'
<1>1. /\ Here(q) /\ proc[q].at = "metering" /\ DOMAIN proc = Hooks \cup Requests \cup Refreshes
      /\ now' = now /\ cast' = cast /\ subscriber' = subscriber /\ truth' = truth
      /\ UNCHANGED <<config, served, paused, limits>>
  BY Zenon DEF Meter, SpendInv, MeterInv, Kept, fixed
<1>2. PICK found \in BOOLEAN : \E m :
         /\ ledger' = IF found THEN AddSessionCost(ledger, Proxy, 1) ELSE ledger
         /\ hist' = [hist EXCEPT !.metered = m, !.excused = @ \/ ~found]
         /\ proc' = [proc EXCEPT ![q] = [at |-> "idle"]]
  BY Zenon DEF Meter, Move, IdleProc
<1>3. \A p \in (Requests \ {q}) \cup Hooks : proc'[p] = proc[p]
  BY <1>1, <1>2, GuardConstantsOK, Zenon
<1>4. proc'[q].at = "idle"
  <2>1. proc' = [proc EXCEPT ![q] = [at |-> "idle"]]
    BY <1>2, Zenon
  <2> QED
    BY <1>1, <2>1
<1>5. Counted /\ Book(ledger) /\ DOMAIN hist = Histories /\ Proxy \in Sessions
  BY ProxyIsNoHook DEF SpendInv, MeterInv, Kept
<1>6. Undisturbed' => Undisturbed /\ found
  <2>1. hist'.raced = hist.raced /\ hist'.excused = (hist.excused \/ ~found)
    BY <1>2, <1>5, Zenon DEF Histories
  <2> QED
    BY <1>1, <2>1, Zenon DEF Undisturbed
<1>7. Numeric(ledger')
  <2>1. Numeric(AddSessionCost(ledger, Proxy, 1)) /\ Numeric(ledger)
    BY <1>5, NumericFacts DEF Counted
  <2>2. ledger' = AddSessionCost(ledger, Proxy, 1) \/ ledger' = ledger
    BY <1>2, Zenon
  <2> QED
    BY <2>1, <2>2
<1>8. \A h \in Hooks : ledger'[h] = ledger[h]
  <2>1. \A h \in Hooks : AddSessionCost(ledger, Proxy, 1)[h] = ledger[h]
    BY <1>5, ProxyIsNoHook DEF AddSessionCost, Book
  <2>2. ledger' = AddSessionCost(ledger, Proxy, 1) \/ ledger' = ledger
    BY <1>2, Zenon
  <2> QED
    BY <2>1, <2>2
<1>9. Counted'
  BY <1>1, <1>3, <1>5, <1>7, CountedStays DEF Counted
<1>10. ASSUME Undisturbed' PROVE OfToday' /\ Metered' /\ Bounded'
  <2>1. AsConfigured /\ OfToday /\ Metered /\ Bounded
    BY <1>6, <1>10 DEF SpendInv, Accounted
  <2>2. ledger' = AddSessionCost(ledger, Proxy, 1)
    BY <1>2, <1>6, <1>10, Zenon
  <2>3. ledger'[Proxy].cost = ledger[Proxy].cost + 1 /\ ledger'[Proxy].last = now
        /\ now \in Nat /\ ledger[Proxy].cost \in Int
    BY <1>5, <2>2 DEF AddSessionCost, Book, Counted, Numeric
  <2>4. OfToday'
    <3>1. Sessions \ {Proxy} = Hooks
      BY ProxyIsNoHook DEF Sessions
    <3> QED
      BY <1>1, <1>8, <2>1, <2>3, <3>1, GuardConstantsOK DEF OfToday, None
  <2>5. At("metering")' = At("metering") \ {q} /\ q \in At("metering") /\ At("sent")' = At("sent")
    BY <1>1, <1>3, <1>4 DEF At
  <2>6. /\ Cardinality(At("metering")') = Cardinality(At("metering")) - 1
        /\ Cardinality(At("metering")) \in Nat /\ Cardinality(At("sent")) \in Nat
    BY <2>5, Finite, FS_RemoveElement
  <2>7. Metered'
    BY <1>1, <2>1, <2>3, <2>5, <2>6 DEF Metered
  <2>8. truth[Proxy] \in Int
    BY <1>5 DEF Counted
  <2>9. Bounded'
    BY <1>1, <1>3, <1>5, <1>9, <2>1, <2>5, <2>6, <2>8, RequestTrades, ProxyIsNoHook
  <2> QED
    BY <2>4, <2>7, <2>9
<1> QED
  BY <1>1, <1>3, <1>6, <1>8, <1>9, <1>10, OneRequestMoves

LEMMA RequestStepsSpend ==
    ASSUME SpendInv, NEW q \in Requests, Preflight(q) \/ Answered(q) \/ Unanswered(q) \/ Meter(q)
    PROVE  Counted' /\ Accounted'
<1>1. CASE Unanswered(q)
  <2>1. /\ proc' = [proc EXCEPT ![q] = [at |-> "idle"]]
        /\ ledger' = ledger /\ now' = now
        /\ \E paid \in {0, 1} : truth' = [truth EXCEPT ![Proxy] = @ + paid]
    BY <1>1, Zenon DEF Unanswered, Move, IdleProc
  <2>2. hist'.excused
    BY <1>1, Zenon DEF Unanswered, SpendInv, MeterInv, Kept, Histories
  <2>3. Counted /\ DOMAIN proc = Hooks \cup Requests \cup Refreshes /\ Proxy \in Sessions
    BY ProxyIsNoHook DEF SpendInv, MeterInv, Kept
  <2>4. \A g \in Hooks : proc'[g] = proc[g]
    BY <2>1, <2>3, GuardConstantsOK
  <2>5. truth' \in [Sessions -> Int]
    BY <2>1, <2>3 DEF Counted
  <2>6. Counted'
    BY <2>1, <2>3, <2>4, <2>5, CountedStays DEF Counted
  <2> QED
    BY <2>2, <2>6 DEF Accounted, Undisturbed
<1> QED
  BY <1>1, PreflightSpends, AnsweredSpends, MeterSpends

(* The rest writes no accounts: refreshes, the status line, the human. *)
LEMMA OthersSpend ==
    ASSUME SpendInv,
           \/ \E f \in Refreshes : RefreshUsage(f) \/ UsageArrives(f) \/ UsageRefused(f)
           \/ Statusline \/ Resume \/ Tick \/ UNCHANGED vars
    PROVE  Counted' /\ Accounted'
<1>1. /\ cast' = cast /\ subscriber' = subscriber /\ ledger' = ledger /\ truth' = truth
      /\ UNCHANGED <<config, served>>
  BY Zenon DEF RefreshUsage, UsageArrives, UsageRefused, Statusline, Resume, Tick, vars, fixed
<1>2. paused' = paused \/ paused' = None
  BY Zenon DEF RefreshUsage, UsageArrives, UsageRefused, Statusline, Resume, Tick, vars
<1>3. Counted /\ DOMAIN hist = Histories /\ DOMAIN proc = Hooks \cup Requests \cup Refreshes
  BY DEF SpendInv, MeterInv, Kept
<1>4. \A p \in Hooks \cup Requests : proc'[p] = proc[p]
  <2>1. \/ proc' = proc
        \/ \E f \in Refreshes : \E next : proc' = [proc EXCEPT ![f] = next]
        \/ \E fs : fs \subseteq Refreshes
              /\ proc' = [p \in DOMAIN proc |-> IF p \in fs THEN [at |-> "spawned"] ELSE proc[p]]
    <3>1. CASE \E f \in Refreshes : RefreshUsage(f) \/ UsageArrives(f) \/ UsageRefused(f)
      BY <3>1, Zenon DEF RefreshUsage, UsageArrives, UsageRefused, Move
    <3>2. CASE Statusline
      <4>1. \A throttle : \A fs \in Chosen(throttle) : fs \subseteq Refreshes
        BY DEF Chosen, Spawns
      <4> QED
        BY <3>2, <4>1, Zenon DEF Statusline
    <3>3. CASE Resume \/ Tick \/ UNCHANGED vars
      BY <3>3, Zenon DEF Resume, Tick, vars
    <3> QED
      BY <3>1, <3>2, <3>3
  <2> QED
    BY <1>3, <2>1, GuardConstantsOK
<1>5. now' = now \/ now' = now + 1
  BY Zenon DEF RefreshUsage, UsageArrives, UsageRefused, Statusline, Resume, Tick, vars
<1>6. Counted'
  BY <1>1, <1>3, <1>4, <1>5, CountedStays DEF Counted
<1>7. Undisturbed' => /\ Undisturbed /\ limits' = limits
                      /\ now' = now \/ \A s \in Active(ledger) : ~(now + 1 - ledger[s].last >= Day)
  <2>1. CASE \E f \in Refreshes : RefreshUsage(f) \/ UsageArrives(f) \/ UsageRefused(f)
    <3>1. hist'.raced = hist.raced /\ hist'.excused = hist.excused /\ now' = now
      <4>1. now' = now
        BY <2>1, Zenon DEF RefreshUsage, UsageArrives, UsageRefused
      <4> QED
        BY <1>3, <2>1, <4>1, HistUnraced
    <3>2. limits' = limits \/ subscriber
      BY <2>1, Zenon DEF RefreshUsage, UsageArrives, UsageRefused
    <3> QED
      BY <1>1, <3>1, <3>2 DEF Undisturbed
  <2>2. CASE Statusline
    <3>1. hist'.raced = hist.raced /\ hist'.excused = hist.excused /\ now' = now
      BY <1>3, <2>2, Zenon DEF Statusline, Histories
    <3>2. limits' = limits \/ subscriber
      BY <2>2 DEF Statusline
    <3> QED
      BY <1>1, <3>1, <3>2 DEF Undisturbed
  <2>3. CASE Resume \/ UNCHANGED vars
    <3>1. hist' = hist /\ now' = now /\ limits' = limits
      BY <2>3, Zenon DEF Resume, vars
    <3> QED
      BY <1>1, <3>1 DEF Undisturbed
  <2>4. CASE Tick
    <3>1. /\ hist'.raced = hist.raced /\ limits' = limits
          /\ hist'.excused = (hist.excused \/ \E s \in Active(ledger) : now + 1 - ledger[s].last >= Day)
      BY <1>3, <2>4, Zenon DEF Tick, Histories
    <3> QED
      BY <1>1, <3>1, Zenon DEF Undisturbed
  <2> QED
    BY <2>1, <2>2, <2>3, <2>4
<1> SUFFICES ASSUME Undisturbed'
             PROVE  AsConfigured' /\ OfToday' /\ Metered' /\ (\A g \in Hooks : Owing(g))' /\ Bounded'
  BY <1>6 DEF Accounted
<1>8. AsConfigured /\ OfToday /\ Metered /\ (\A g \in Hooks : Owing(g)) /\ Bounded
  BY <1>7 DEF SpendInv, Accounted
<1>9. OfToday'
  BY <1>1, <1>3, <1>5, <1>7, <1>8, GuardConstantsOK DEF OfToday, Active, Counted, Numeric
<1>10. At("metering")' = At("metering") /\ At("sent")' = At("sent")
  BY <1>4 DEF At
<1>11. Metered' /\ AsConfigured'
  BY <1>1, <1>2, <1>7, <1>8, <1>10 DEF Metered, AsConfigured
<1>12. (\A g \in Hooks : Owing(g))'
  <2> SUFFICES ASSUME NEW g \in Hooks PROVE Owing(g)'
    OBVIOUS
  <2> QED
    BY <1>1, <1>4, <1>8, StillOwing
<1>13. TurnsLeft' = TurnsLeft /\ InFlight' = InFlight
  BY <1>1, <1>4 DEF TurnsLeft, Here, InFlight
<1>14. Bounded'
  BY <1>1, <1>8, <1>10, <1>13 DEF Bounded, Cap
<1> QED
  BY <1>9, <1>11, <1>12, <1>14

(* What a human does, and a restart of the proxy, are excuses. *)
LEMMA ExcusesSpend ==
    ASSUME SpendInv, MeterInv', RestartProxy \/ SetBudget \/ SetLimits \/ Pause \/ ResetLedger
    PROVE  Counted' /\ Accounted'
<1>1. DOMAIN hist = Histories /\ Counted /\ Book(ledger)
  BY DEF SpendInv, MeterInv, Kept
<1>2. hist'.excused
  BY <1>1, Zenon DEF RestartProxy, SetBudget, SetLimits, Pause, ResetLedger, Intervened, Histories
<1>3. truth' = truth /\ now' = now
  BY Zenon DEF RestartProxy, SetBudget, SetLimits, Pause, ResetLedger
<1>4. \A h \in Hooks : proc'[h] = proc[h]
  BY <1>1, GuardConstantsOK DEF RestartProxy, SetBudget, SetLimits, Pause, ResetLedger, SpendInv, MeterInv, Kept
<1>5. ledger' = ledger \/ Numeric(ledger')
  <2>1. CASE ResetLedger
    <3>1. /\ Numeric(Empty)
          /\ \A s \in Sessions : Numeric([ledger EXCEPT ![s] = NoRecord])
          /\ Numeric([s \in Sessions |->
              IF ledger[s].last # None /\ ledger[s].last \div Day = now \div Day THEN NoRecord
              ELSE ledger[s]])
      BY <1>1 DEF Empty, NoRecord, Numeric, Counted, Book, None
    <3>2. (cast.who \cap Hooks) \cup {Proxy} \subseteq Sessions
      BY ProxyIsNoHook
    <3> QED
      BY <2>1, <3>1, <3>2 DEF ResetLedger
  <2>2. CASE RestartProxy \/ SetBudget \/ SetLimits \/ Pause
    BY <2>2, Zenon DEF RestartProxy, SetBudget, SetLimits, Pause
  <2> QED
    BY <2>1, <2>2
<1>6. Counted'
  BY <1>1, <1>3, <1>4, <1>5, CountedStays DEF Counted
<1> QED
  BY <1>2, <1>6 DEF Accounted, Undisturbed

LEMMA InitSpend == Init => SpendInv
<1> SUFFICES ASSUME Init PROVE SpendInv
  OBVIOUS
<1>1. /\ now = 0 /\ truth = [s \in Sessions |-> 0] /\ ledger = Empty /\ paused = None
      /\ limits = NoSnapshot /\ served = config /\ config = [budget |-> FirstBudget, plan |-> "auto"]
      /\ proc = [p \in Hooks \cup Requests \cup Refreshes |-> IdleProc]
  BY Zenon DEF Init
<1>2. \A s \in Sessions : ledger[s].cost = 0 /\ ledger[s].last = None /\ truth[s] = 0
  BY <1>1 DEF Empty, NoRecord
<1>3. \A p \in Hooks \cup Requests : proc[p].at = "idle"
  BY <1>1 DEF IdleProc
<1>4. Counted
  BY <1>1, <1>2, <1>3 DEF Counted, Numeric, Holding, None
<1>5. AsConfigured /\ OfToday
  BY <1>1, <1>2 DEF AsConfigured, OfToday, NoSnapshot
<1>6. At("sent") = {} /\ At("metering") = {} /\ Cardinality({}) = 0
  BY <1>3, FS_EmptySet DEF At
<1>7. Metered
  <2>1. Cardinality(At("metering")) = 0 /\ At("sent") \cup At("metering") = {}
    BY <1>6
  <2> QED
    BY <1>2, <2>1, ProxyIsNoHook DEF Metered
<1>8. \A h \in Hooks : Owing(h)
  BY <1>2, <1>3, ProxyIsNoHook DEF Owing, Holding
<1>9. Bounded
  <2> SUFFICES ASSUME Cap > 0
               PROVE  Total(truth, Sessions) + Cardinality(At("sent")) + Total(TurnsLeft, Hooks) < Cap + InFlight
    BY DEF Bounded
  <2>1. Numbers(truth, Sessions) /\ Numbers(Costs(ledger), Sessions) /\ Numbers(TurnsLeft, Hooks)
    BY <1>2, TurnsAreFew DEF Numbers, Costs
  <2>2. Total(Costs(ledger), Sessions) = 0
    <3>1. Total(Costs(ledger), {}) = Total(Costs(ledger), Sessions)
      BY <1>2, <2>1, Finite, TotalOfSome DEF Costs
    <3>2. Total(Costs(ledger), {}) = 0
      BY FS_EmptySet, TotalRecurses
    <3> QED
      BY <3>1, <3>2
  <2>3. \A h \in Hooks : truth[h] + TurnsLeft[h] <= Costs(ledger)[h] + (IF Here(h) THEN 2 ELSE 0)
    BY <1>2, TurnsAreFew, ProxyIsNoHook DEF Costs
  <2>4. truth[Proxy] = Costs(ledger)[Proxy] + 0
    BY <1>2, ProxyIsNoHook DEF Costs
  <2>5. Cap \in Int /\ Total(Costs(ledger), Sessions) < Cap
    BY <2>2, GuardConstantsOK DEF Cap
  <2>6. 0 + 0 <= Cardinality(cast.who \cap Requests)
    BY Finite
  <2>7. Total(truth, Sessions) + 0 + Total(TurnsLeft, Hooks) < Cap + InFlight
    BY <2>1, <2>3, <2>4, <2>5, <2>6, LetThrough
  <2> QED
    BY <1>6, <2>7
<1> QED
  BY <1>4, <1>5, <1>7, <1>8, <1>9, InitMeter DEF SpendInv, Accounted

LEMMA NextSpend == SpendInv /\ [Next]_vars => SpendInv'
<1> SUFFICES ASSUME SpendInv, [Next]_vars PROVE SpendInv'
  OBVIOUS
<1>1. MeterInv'
  BY NextMeter DEF SpendInv
<1>2. CASE \E h \in Hooks : HookReads(h) \/ HookSaves(h) \/ HookAnswers(h)
                             \/ HookFails(h) \/ HookStops(h) \/ Turn(h) \/ GoOn(h)
  BY <1>1, <1>2, HookStepsSpend DEF SpendInv
<1>3. CASE \E q \in Requests : Preflight(q) \/ Answered(q) \/ Unanswered(q) \/ Meter(q)
  BY <1>1, <1>3, RequestStepsSpend DEF SpendInv
<1>4. CASE \/ \E f \in Refreshes : RefreshUsage(f) \/ UsageArrives(f) \/ UsageRefused(f)
           \/ Statusline \/ Resume \/ Tick \/ UNCHANGED vars
  BY <1>1, <1>4, OthersSpend DEF SpendInv
<1>5. CASE RestartProxy \/ SetBudget \/ SetLimits \/ Pause \/ ResetLedger
  BY <1>1, <1>5, ExcusesSpend DEF SpendInv
<1> QED
  BY <1>2, <1>3, <1>4, <1>5 DEF Next

(* The hard cap of a day (budget.ts, hook.ts, proxy.ts): whatever hooks and
   requests run at once, and however often they read before the others have
   written, what has been paid for stays below the cap and one for each request
   and two for each session; when dollars are real, no save was lost or came a
   day late, no answer lacked its usage, and no human stepped in. *)
THEOREM OvershootStaysBounded == Spec => []OvershootIsBounded
<1>1. SpendInv => OvershootIsBounded
  <2> SUFFICES ASSUME SpendInv, Undisturbed, config.budget.dailyHard > 0
               PROVE  Total(truth, Sessions) < config.budget.dailyHard + InFlight
    BY DEF OvershootIsBounded, Undisturbed
  <2>1. Cap = config.budget.dailyHard /\ Bounded /\ Counted
    BY DEF SpendInv, Accounted, AsConfigured, Cap
  <2>2. Total(truth, Sessions) + Cardinality(At("sent")) + Total(TurnsLeft, Hooks) < Cap + InFlight
    BY <2>1 DEF Bounded
  <2>3. Total(truth, Sessions) \in Int /\ Numbers(TurnsLeft, Hooks)
    BY <2>1, Finite, TurnsAreFew, TotalIsInt DEF Numbers, Counted
  <2>4. Total(TurnsLeft, Hooks) \in Int /\ Total(TurnsLeft, Hooks) >= 0
    <3> DEFINE none == [h \in Hooks |-> 0]
    <3>1. Total(none, Hooks) = 0
      <4>1. Numbers(none, Hooks) /\ \A h \in Hooks : none[h] = 0
        BY DEF Numbers
      <4> HIDE DEF none
      <4>2. Total(none, {}) = Total(none, Hooks)
        BY <4>1, Finite, TotalOfSome
      <4>3. Total(none, {}) = 0
        BY FS_EmptySet, TotalRecurses
      <4> QED
        BY <4>2, <4>3
    <3>2. \A h \in Hooks : none[h] \in Int /\ TurnsLeft[h] \in Int /\ none[h] + none[h] <= TurnsLeft[h] + none[h]
      BY TurnsAreFew
    <3> HIDE DEF none
    <3>3. Total(TurnsLeft, Hooks) \in Int /\ Total(none, Hooks) + Total(none, Hooks)
             <= Total(TurnsLeft, Hooks) + Total(none, Hooks)
      BY <3>2, Finite, TotalsCompare
    <3> QED
      BY <3>1, <3>3
  <2>5. Cardinality(At("sent")) \in Nat /\ Cap \in Int /\ InFlight \in Int
    BY Finite, GuardConstantsOK DEF Cap, InFlight
  <2> QED
    BY <2>1, <2>2, <2>3, <2>4, <2>5
<1> QED
  BY <1>1, InitSpend, NextSpend, PTL DEF Spec
--------------------------------------------------------------------------------
(* The wait a 429 asks for.  The file says until when, or that time is past; who
   is asking has waited.  It is the single writer that matters: an answer that
   arrives beside a refusal wipes the refusal out. *)

Waited ==
    ~hist.overlap =>
        /\ \/ meta.until \in Nat /\ Due <= meta.until
           \/ Due <= now
        /\ \A f \in Refreshes : proc[f].at = "asking" => Due <= now
        /\ \A f, g \in Refreshes : proc[f].at = "asking" /\ proc[g].at = "asking" => f = g

WaitShape ==
    /\ DOMAIN hist = Histories /\ DOMAIN meta = {"last", "authorized", "streak", "until"}
    /\ hist.toldUntil \in Nat /\ hist.late \in Nat /\ hist.cut \in Nat
    /\ \A f \in Refreshes : proc[f].at = "asking" => proc[f].since \in Nat /\ proc[f].since <= now
WaitInv == WallInv /\ WaitShape /\ Waited

(* No other answer of the endpoint has said how long to wait. *)
SameWait == hist'.toldUntil = hist.toldUntil /\ hist'.late = hist.late /\ hist'.cut = hist.cut

LEMMA InitWait == Init => WaitInv
<1> SUFFICES ASSUME Init PROVE WaitInv
  OBVIOUS
<1>1. WallInv
  BY InitWall
<1>2. \A f \in Refreshes : proc[f].at # "asking"
  BY DEF Init, IdleProc
<1>3. DOMAIN hist = Histories /\ hist.toldUntil = 0 /\ hist.late = 0 /\ hist.cut = 0 /\ now = 0
  BY DEF Init, Histories, SameWait
<1>4. DOMAIN meta = {"last", "authorized", "streak", "until"}
  BY DEF Init
<1> QED
  BY <1>1, <1>2, <1>3, <1>4 DEF WaitInv, WaitShape, Waited, Due

NoNewAsker == \A f \in Refreshes : proc'[f].at = "asking" => proc'[f] = proc[f]

(* Nobody begins to ask, or is told to wait. *)
LEMMA NobodyAsks ==
    ASSUME WaitInv, WallInv', now' \in Nat, now <= now',
           DOMAIN hist' = Histories, SameWait,
           hist'.overlap = hist.overlap, DOMAIN meta' = DOMAIN meta, meta'.until = meta.until,
           \A f \in Refreshes : proc'[f].at = "asking" => proc'[f] = proc[f]
    PROVE  WaitInv' /\ NoNewAsker
<1>1. WaitShape' /\ NoNewAsker
  BY DEF WaitInv, WallInv, Shape, WaitShape, NoNewAsker, SameWait
<1>2. Waited'
  BY DEF WaitInv, WallInv, Shape, WaitShape, Waited, SameWait, Due
<1> QED
  BY <1>1, <1>2 DEF WaitInv

LEMMA ClaimedFacts ==
    ASSUME WaitShape, NEW fs
    PROVE  DOMAIN Claimed(fs) = DOMAIN meta /\ Claimed(fs).until = meta.until
  BY DEF Claimed, WaitShape

LEMMA HookStepsWait ==
    ASSUME WaitInv, WallInv', NEW h \in Hooks,
           HookReads(h) \/ HookSaves(h) \/ HookAnswers(h) \/ HookFails(h) \/ HookStops(h)
               \/ Turn(h) \/ GoOn(h)
    PROVE  WaitInv' /\ NoNewAsker
<1> USE DEF WaitInv, WaitShape, WallInv, Shape, Move, IdleProc
<1>1. now' = now
  BY DEF HookReads, HookSaves, HookAnswers, HookFails, HookStops, Turn, GoOn
<1>2. CASE HookReads(h) /\ IsPaused
  BY <1>1, <1>2, NobodyAsks DEF HookReads, SameWait
<1>3. CASE HookReads(h) /\ ~IsPaused
  <2>1. PICK readable \in {TRUE} \cup (IF events < MaxEvents THEN {FALSE} ELSE {}),
            fs \in Chosen(Throttle) :
         /\ proc' = [p \in DOMAIN proc |-> CASE p = h -> Judged(h, IF readable THEN truth[h] ELSE 0)
                     [] p \in fs -> [at |-> "spawned"] [] OTHER -> proc[p]]
         /\ meta' = Claimed(fs)
         /\ hist' = [hist EXCEPT !.excused = @ \/ ~readable]
    BY <1>3, Zenon DEF HookReads
  <2>2. /\ DOMAIN hist' = Histories /\ SameWait
        /\ hist'.overlap = hist.overlap
    BY <2>1 DEF Histories, SameWait
  <2>3. Judged(h, IF readable THEN truth[h] ELSE 0).at = "judged"
    BY DEF Judged
  <2>4. \A f \in Refreshes : proc'[f].at = "asking" => proc'[f] = proc[f]
    BY <2>1, <2>3
  <2>5. DOMAIN meta' = DOMAIN meta /\ meta'.until = meta.until
    BY <2>1, ClaimedFacts
  <2> QED
    BY <1>1, <2>2, <2>4, <2>5, NobodyAsks
<1>4. CASE HookSaves(h) \/ HookAnswers(h) \/ HookFails(h) \/ HookStops(h) \/ Turn(h) \/ GoOn(h)
  <2>1. /\ DOMAIN hist' = Histories /\ SameWait
        /\ hist'.overlap = hist.overlap /\ meta' = meta
    <3>1. CASE HookSaves(h) \/ HookAnswers(h)
      BY <3>1, Zenon DEF HookSaves, HookAnswers, Saves, Histories, SameWait
    <3>2. CASE HookFails(h) \/ HookStops(h) \/ Turn(h) \/ GoOn(h)
      BY <3>2 DEF HookFails, HookStops, Turn, GoOn, Histories, SameWait
    <3> QED
      BY <1>4, <3>1, <3>2
  <2>2. \A f \in Refreshes : proc'[f].at = "asking" => proc'[f] = proc[f]
    <3>1. CASE HookSaves(h)
      BY <3>1 DEF HookSaves
    <3>2. CASE HookAnswers(h)
      BY <3>2 DEF HookAnswers
    <3>3. CASE HookFails(h) \/ HookStops(h) \/ Turn(h) \/ GoOn(h)
      BY <3>3 DEF HookFails, HookStops, Turn, GoOn
    <3> QED
      BY <1>4, <3>1, <3>2, <3>3
  <2> QED
    BY <1>1, <2>1, <2>2, NobodyAsks
<1> QED
  BY <1>2, <1>3, <1>4
LEMMA RequestStepsWait ==
    ASSUME WaitInv, WallInv', NEW q \in Requests,
           Preflight(q) \/ Answered(q) \/ Unanswered(q) \/ Meter(q)
    PROVE  WaitInv' /\ NoNewAsker
<1> USE DEF WaitInv, WaitShape, WallInv, Shape, Move, IdleProc
<1>1. now' = now /\ meta' = meta
  BY Zenon DEF Preflight, Answered, Unanswered, Meter
<1>2. DOMAIN hist' = Histories /\ SameWait /\ hist'.overlap = hist.overlap
  <2>1. CASE Meter(q)
    <3>1. PICK m, e : hist' = [hist EXCEPT !.metered = m, !.excused = e]
      BY <2>1, Zenon DEF Meter
    <3> QED
      BY <3>1 DEF Histories, SameWait
  <2>2. CASE Preflight(q) \/ Answered(q) \/ Unanswered(q)
    BY <2>2 DEF Preflight, Answered, Shown, Unanswered, Histories, SameWait
  <2> QED
    BY <2>1, <2>2
<1>3. \A f \in Refreshes : proc'[f].at = "asking" => proc'[f] = proc[f]
  <2>1. CASE Meter(q)
    <3>1. proc' = [proc EXCEPT ![q] = IdleProc]
      BY <2>1, Zenon DEF Meter
    <3> QED
      BY <3>1
  <2>2. CASE Preflight(q) \/ Answered(q) \/ Unanswered(q)
    BY <2>2 DEF Preflight, Answered, Unanswered
  <2> QED
    BY <2>1, <2>2
<1> QED
  BY <1>1, <1>2, <1>3, NobodyAsks

(* A refresh begins to ask only when the file lets it, and is then the only one,
   or this is an overlap. *)
LEMMA RefreshUsageWait ==
    ASSUME WaitInv, WallInv', NEW f \in Refreshes, RefreshUsage(f)
    PROVE  /\ WaitInv'
           /\ proc'[f].at = "asking" => now >= Due \/ hist'.overlap
           /\ \A g \in Refreshes \ {f} : proc'[g] = proc[g]
<1> USE DEF WaitInv, WaitShape, WallInv, Shape, Move
<1>1. now' = now /\ DOMAIN proc' = DOMAIN proc
  BY DEF RefreshUsage
<1>2. \A g \in Refreshes \ {f} : proc'[g] = proc[g]
  BY DEF RefreshUsage
<1> DEFINE Turns == /\ proc' = [proc EXCEPT ![f] = IdleProc] /\ UNCHANGED hist
                    /\ meta' = meta \/ meta' = [meta EXCEPT !.last = now]
           Asks  == /\ ~(now < meta.until)
                    /\ proc' = [proc EXCEPT ![f] = [at |-> "asking", since |-> now, streak |-> meta.streak]]
                    /\ \E a : meta' = [meta EXCEPT !.authorized = a]
                    /\ hist' = [hist EXCEPT !.overlap = @ \/ \E g \in Refreshes \ {f} : proc[g].at = "asking"]
<1>3. CASE Turns
  <2>1. \A g \in Refreshes : proc'[g].at = "asking" => proc'[g] = proc[g]
    BY <1>3 DEF IdleProc
  <2>2. DOMAIN meta' = DOMAIN meta /\ meta'.until = meta.until
    BY <1>3
  <2>3. proc'[f].at # "asking"
    BY <1>3 DEF IdleProc
  <2> QED
    BY <1>1, <1>2, <1>3, <2>1, <2>2, <2>3, NobodyAsks DEF SameWait
<1>4. CASE Asks
  <2>1. proc'[f].since = now
    BY <1>4
  <2>2. DOMAIN meta' = DOMAIN meta /\ meta'.until = meta.until
    BY <1>4
  <2>3. /\ DOMAIN hist' = Histories /\ SameWait
        /\ hist'.overlap = (hist.overlap \/ \E g \in Refreshes \ {f} : proc[g].at = "asking")
    BY <1>4 DEF Histories, SameWait
  <2>4. ~hist'.overlap => ~hist.overlap /\ \A g \in Refreshes \ {f} : proc[g].at # "asking"
    BY <2>3, Zenon
  <2>5. ~hist.overlap => Due <= now
    BY <1>4 DEF Waited, Due
  <2>6. WaitShape'
    BY <1>1, <1>2, <2>1, <2>2, <2>3 DEF SameWait
  <2>7. Waited'
    <3>1. Due' = Due
      BY <2>3 DEF Due, SameWait
    <3> QED
      BY <1>1, <1>2, <2>1, <2>2, <2>3, <2>4, <2>5, <3>1 DEF Waited
  <2> QED
    BY <1>2, <2>4, <2>5, <2>6, <2>7
<1>5. Turns \/ Asks
  <2>1. PICK foreground, forced, token \in BOOLEAN :
           LET recent == ~forced /\ meta.last # None /\ now - meta.last < Throttle /\ Taken(limits)
               waits  == recent \/ now < meta.until
           IN IF waits THEN Move(f, IdleProc) /\ UNCHANGED <<meta, hist>>
              ELSE IF ~token THEN Move(f, IdleProc) /\ meta' = [meta EXCEPT !.last = now] /\ UNCHANGED hist
              ELSE /\ Move(f, [at |-> "asking", since |-> now, streak |-> meta.streak])
                   /\ meta' = [meta EXCEPT !.authorized = @ \/ foreground]
                   /\ hist' = [hist EXCEPT !.overlap = @ \/ \E g \in Refreshes \ {f} : proc[g].at = "asking"]
    BY Zenon DEF RefreshUsage
  <2>2. CASE now < meta.until
    BY <2>1, <2>2
  <2>3. CASE ~(now < meta.until)
    BY <2>1, <2>3
  <2> QED
    BY <2>2, <2>3
<1> QED
  BY <1>3, <1>4, <1>5
(* An answer clears the wait, of one who has waited; a refusal sets it. *)
LEMMA AnswersWait ==
    ASSUME WaitInv, WallInv', NEW f \in Refreshes, UsageArrives(f) \/ UsageRefused(f)
    PROVE  WaitInv' /\ NoNewAsker
<1> USE DEF WaitInv, WaitShape, WallInv, Shape, Move
<1>1. now' = now /\ proc' = [proc EXCEPT ![f] = IdleProc] /\ proc[f].at = "asking"
  BY Zenon DEF UsageArrives, UsageRefused
<1>2. \A g \in Refreshes : proc'[g].at = "asking" => proc'[g] = proc[g]
  BY <1>1 DEF IdleProc
<1> USE DEF NoNewAsker
<1>3. hist.overlap \/ Due <= now
  BY <1>1 DEF Waited
<1>4. CASE UsageArrives(f)
  <2>1. /\ DOMAIN hist' = Histories /\ SameWait
        /\ hist'.overlap = hist.overlap
    BY <1>4 DEF UsageArrives, Shown, Histories, SameWait
  <2>2. DOMAIN meta' = DOMAIN meta
    BY <1>4 DEF UsageArrives
  <2>3. WaitShape'
    BY <1>1, <1>2, <2>1, <2>2 DEF SameWait
  <2>4. Waited'
    BY <1>1, <1>2, <1>3, <2>1 DEF Waited, SameWait, Due
  <2> QED
    BY <1>2, <2>3, <2>4
<1>5. CASE UsageRefused(f)
  <2>1. PICK told \in RetryAfters \cup {None} :
           /\ meta' = [meta EXCEPT !.last = proc[f].since, !.streak = proc[f].streak + 1,
                                   !.until = Until(f, told)]
           /\ hist' = IF told = None THEN hist
                      ELSE [hist EXCEPT !.toldUntil = Larger(@, now + told),
                                        !.late = Larger(@, now - proc[f].since),
                                        !.cut = Larger(@, told - AtMost(told))]
    BY <1>5, Zenon DEF UsageRefused
  <2>2. DOMAIN meta' = DOMAIN meta /\ meta'.until = Until(f, told)
    BY <2>1
  <2>3. DOMAIN hist' = Histories /\ hist'.overlap = hist.overlap
    BY <2>1 DEF Histories
  <2>4. \A g \in Refreshes : ~hist.overlap => proc'[g].at # "asking"
    BY <1>1 DEF Waited, IdleProc
  <2>5. CASE told = None
    <3>1. hist' = hist
      BY <2>1, <2>5
    <3>2. WaitShape'
      BY <1>1, <1>2, <2>2, <3>1
    <3>3. Waited'
      BY <1>1, <1>3, <2>4, <3>1 DEF Waited, Due
    <3> QED
      BY <1>2, <3>2, <3>3
  <2>6. CASE told # None
    <3> DEFINE late == now - proc[f].since  cut == told - AtMost(told)
    <3>1. told \in Nat /\ late \in Nat /\ cut \in Nat /\ BackoffMax \in Nat
      BY <1>1, <2>6, GuardConstantsOK DEF AtMost
    <3>2. /\ hist'.toldUntil = Larger(hist.toldUntil, now + told)
          /\ hist'.late = Larger(hist.late, late)
          /\ hist'.cut = Larger(hist.cut, cut)
      BY <2>1, <2>6 DEF Histories
    <3>3. Until(f, told) \in Nat /\ (now + told) - late - cut <= Until(f, told)
      <4>1. CASE told = 0
        BY <1>1, <2>6, <3>1, <4>1, GuardConstantsOK DEF Until, None, AtMost
      <4>2. CASE told # 0
        BY <1>1, <2>6, <3>1, <4>2, GuardConstantsOK DEF Until, AtMost
      <4> QED
        BY <4>1, <4>2
    <3> HIDE DEF late, cut
    <3>4. WaitShape'
      BY <1>1, <1>2, <2>2, <2>3, <3>1, <3>2 DEF Larger
    <3>5. Due' <= Due \/ Due' <= Until(f, told)
      BY <3>1, <3>2, <3>3 DEF Due, Larger
    <3>6. Due' \in Int /\ Due \in Int
      BY <3>4 DEF Due
    <3>7. ~hist.overlap => \/ meta'.until \in Nat /\ Due' <= meta'.until
                           \/ Due' <= now
      BY <1>3, <2>2, <3>3, <3>5, <3>6
    <3>8. Waited'
      BY <1>1, <2>3, <2>4, <3>7 DEF Waited
    <3> QED
      BY <1>2, <3>4, <3>8
  <2> QED
    BY <2>5, <2>6
<1> QED
  BY <1>4, <1>5

LEMMA OtherStepsWait ==
    ASSUME WaitInv, WallInv', Statusline \/ RestartProxy \/ SetBudget \/ SetLimits \/ Pause \/ Resume
                        \/ ResetLedger \/ Tick
    PROVE  WaitInv' /\ NoNewAsker
<1> USE DEF WaitInv, WaitShape, WallInv, Shape, IdleProc
<1>1. CASE Statusline
  <2>1. PICK fs, l :
           /\ hist' = [hist EXCEPT !.lastSeen = l] /\ meta' = Claimed(fs) /\ now' = now
           /\ proc' = [p \in DOMAIN proc |-> IF p \in fs THEN [at |-> "spawned"] ELSE proc[p]]
    BY <1>1 DEF Statusline
  <2>2. /\ DOMAIN hist' = Histories /\ SameWait
        /\ hist'.overlap = hist.overlap
    BY <2>1 DEF Histories, SameWait
  <2>3. DOMAIN meta' = DOMAIN meta /\ meta'.until = meta.until
    BY <2>1, ClaimedFacts
  <2>4. \A f \in Refreshes : proc'[f].at = "asking" => proc'[f] = proc[f]
    BY <2>1
  <2> QED
    BY <2>1, <2>2, <2>3, <2>4, NobodyAsks
<1>2. CASE RestartProxy \/ SetBudget \/ SetLimits \/ Pause \/ Resume \/ ResetLedger \/ Tick
  <2>1. meta' = meta /\ now' \in Nat /\ now <= now'
    BY <1>2 DEF RestartProxy, SetBudget, SetLimits, Pause, Resume, ResetLedger, Tick
  <2>2. /\ DOMAIN hist' = Histories /\ SameWait
        /\ hist'.overlap = hist.overlap
    BY <1>2 DEF RestartProxy, SetBudget, SetLimits, Pause, Resume, ResetLedger, Tick, Intervened,
       Histories, SameWait
  <2>3. \A f \in Refreshes : proc'[f].at = "asking" => proc'[f] = proc[f]
    BY <1>2 DEF RestartProxy, SetBudget, SetLimits, Pause, Resume, ResetLedger, Tick
  <2> QED
    BY <2>1, <2>2, <2>3, NobodyAsks
<1> QED
  BY <1>1, <1>2

LEMMA NextWait == WaitInv /\ [Next]_vars => WaitInv'
<1> SUFFICES ASSUME WaitInv, [Next]_vars PROVE WaitInv'
  OBVIOUS
<1>1. WallInv'
  BY NextWall DEF WaitInv
<1>2. CASE UNCHANGED vars
  BY <1>1, <1>2, NobodyAsks DEF vars, WaitInv, WaitShape, WallInv, Shape, SameWait
<1>3. CASE Next
  BY <1>1, <1>3, HookStepsWait, RequestStepsWait, RefreshUsageWait, AnswersWait, OtherStepsWait
     DEF Next
<1> QED
  BY <1>2, <1>3

(* "A 429 ... which we must honour": of any number of refreshes none asks before
   the time it was told to wait for, less what the hour cuts off it and the time
   the answer took, unless two were asking at once (refreshUsage). *)
THEOREM RetryAfterHonoured == Spec => RetryAfterIsHonoured
<1>1. WaitInv /\ [Next]_vars =>
          [\A f \in Refreshes : proc[f].at # "asking" /\ proc'[f].at = "asking" =>
               now >= Due \/ hist'.overlap]_vars
  <2> SUFFICES ASSUME WaitInv, Next, NEW f \in Refreshes,
                      proc[f].at # "asking", proc'[f].at = "asking"
               PROVE  now >= Due \/ hist'.overlap
    BY DEF vars
  <2>1. ~NoNewAsker
    BY DEF NoNewAsker
  <2>2. \E g \in Refreshes : RefreshUsage(g)
    BY <2>1, NextWall, HookStepsWait, RequestStepsWait, AnswersWait, OtherStepsWait
       DEF Next, WaitInv
  <2> QED
    BY <2>2, NextWall, RefreshUsageWait DEF WaitInv
<1> QED
  BY <1>1, InitWait, NextWait, PTL DEF Spec, RetryAfterIsHonoured

(***************************************************************************)
(* The pacing of a window: products of what was used and of time.  The     *)
(* snapshot that is judged holds a percentage and a time, whoever wrote    *)
(* it last.                                                                *)
(***************************************************************************)
SnapshotOK == now \in Nat /\ limits.util \in Nat \cup {None} /\ limits.reset \in Int

LEMMA InitSnapshot == Init => SnapshotOK
  BY DEF Init, SnapshotOK, NoSnapshot, None

LEMMA SnapshotTypes ==
    ASSUME now \in Nat, NEW reading \in Readings, NEW at
    PROVE  Snapshot(reading, at).util \in Nat \cup {None} /\ Snapshot(reading, at).reset \in Int
  BY GuardConstantsOK DEF Snapshot, None

(* Only a reading, or a reset, replaces the snapshot. *)
LEMMA WhoWritesLimits ==
    ASSUME Next
    PROVE  \/ limits' = limits
           \/ limits' = NoSnapshot
           \/ \E reading \in Readings, at \in {now} \cup {proc[f].since : f \in Refreshes} :
                 limits' = Snapshot(reading, at)
<1>1. ASSUME NEW h \in Hooks, HookReads(h) \/ HookSaves(h) \/ HookAnswers(h) \/ HookFails(h)
                                \/ HookStops(h) \/ Turn(h) \/ GoOn(h)
      PROVE  limits' = limits
  BY <1>1 DEF HookReads, HookSaves, HookAnswers, HookFails, HookStops, Turn, GoOn
<1>2. ASSUME NEW q \in Requests, Preflight(q) \/ Unanswered(q) \/ Meter(q)
      PROVE  limits' = limits
  BY <1>2, Zenon DEF Preflight, Unanswered, Meter
<1>3. ASSUME NEW q \in Requests, Answered(q)
      PROVE  limits' = limits \/ \E reading \in Readings : limits' = Snapshot(reading, now)
  BY <1>3 DEF Answered
<1>4. ASSUME NEW f \in Refreshes, RefreshUsage(f) \/ UsageRefused(f)
      PROVE  limits' = limits
  BY <1>4, Zenon DEF RefreshUsage, UsageRefused
<1>5. ASSUME NEW f \in Refreshes, UsageArrives(f)
      PROVE  \E reading \in Readings : limits' = Snapshot(reading, proc[f].since)
  BY <1>5 DEF UsageArrives
<1>6. ASSUME Statusline
      PROVE  limits' = limits \/ \E reading \in Readings : limits' = Snapshot(reading, now)
  BY <1>6 DEF Statusline
<1>7. ASSUME RestartProxy \/ SetBudget \/ SetLimits \/ Pause \/ Resume \/ Tick
      PROVE  limits' = limits
  BY <1>7 DEF RestartProxy, SetBudget, SetLimits, Pause, Resume, Tick
<1>8. ASSUME ResetLedger PROVE limits' = limits \/ limits' = NoSnapshot
  BY <1>8 DEF ResetLedger
<1> QED
  BY <1>1, <1>2, <1>3, <1>4, <1>5, <1>6, <1>7, <1>8 DEF Next

LEMMA NextSnapshot == WallInv /\ SnapshotOK /\ [Next]_vars => SnapshotOK'
<1> SUFFICES ASSUME WallInv, SnapshotOK, [Next]_vars PROVE SnapshotOK'
  OBVIOUS
<1>1. now' \in Nat
  BY NextWall DEF WallInv, Shape
<1>2. limits'.util \in Nat \cup {None} /\ limits'.reset \in Int
  <2>1. CASE UNCHANGED vars
    BY <2>1 DEF SnapshotOK, vars
  <2>2. CASE Next
    <3>1. NoSnapshot.util \in Nat \cup {None} /\ NoSnapshot.reset \in Int
      BY DEF NoSnapshot, None
    <3> QED
      BY <2>2, <3>1, WhoWritesLimits, SnapshotTypes DEF SnapshotOK
  <2> QED
    BY <2>1, <2>2
<1> QED
  BY <1>1, <1>2 DEF SnapshotOK

(* A product grows with its second factor. *)
LEMMA Grows ==
    ASSUME NEW u \in Nat, NEW x \in Int, NEW y \in Int, x <= y
    PROVE  u * x <= u * y
<1>1. u * (y - x) >= 0
  OBVIOUS
<1>2. u * y = u * x + u * (y - x)
  OBVIOUS
<1> DEFINE a == u * x b == u * y c == u * (y - x)
<1>3. a \in Int /\ b \in Int /\ c \in Int
  OBVIOUS
<1>4. c >= 0 /\ b = a + c
  BY <1>1, <1>2
<1> HIDE DEF a, b, c
<1>5. a <= b
  BY <1>3, <1>4
<1> QED
  BY <1>5 DEF a, b

(* A window that has begun, and has not ended, is as far in as its reset is near. *)
LEMMA ElapsedFacts ==
    ASSUME SnapshotOK, Elapsed(limits) > 0, limits.reset > now
    PROVE  /\ Elapsed(limits) \in Nat
           /\ Elapsed(limits) = Window - (limits.reset - now)
           /\ Elapsed(limits) < Window
<1> DEFINE raw == Window - (limits.reset - now)
<1>1. raw \in Int /\ raw < Window /\ limits.reset # None
  BY GuardConstantsOK DEF SnapshotOK, None
<1>2. Elapsed(limits) = IF raw < 0 THEN 0 ELSE IF raw > Window THEN Window ELSE raw
  BY <1>1 DEF Elapsed
<1> HIDE DEF raw
<1>3. Elapsed(limits) = raw
  BY <1>1, <1>2, GuardConstantsOK
<1> QED
  BY <1>1, <1>3, GuardConstantsOK DEF raw

(* At this pace it is used up before its end: then more is used than has passed. *)
LEMMA UsedUp ==
    ASSUME SnapshotOK, HasWindow(limits), Elapsed(limits) > 0, limits.reset > now,
           NEW t \in 0..(limits.reset - now - 1), UsedBy(limits, Elapsed(limits), t),
           limits.util >= SoftPct
    PROVE  limits.util * Window > 100 * Elapsed(limits)
<1> DEFINE u == limits.util  e == Elapsed(limits)
<1>1. u \in Nat /\ u >= 60 /\ e \in Nat /\ Window \in Nat /\ t \in Nat
  BY ElapsedFacts, GuardConstantsOK DEF SnapshotOK, HasWindow, SoftPct
<1>2. e + t <= Window - 1
  BY ElapsedFacts, GuardConstantsOK DEF SnapshotOK
<1>3. u * (e + t) <= u * (Window - 1)
  BY <1>1, <1>2, Grows
<1>4. u * (Window - 1) = u * Window - u
  BY <1>1
<1>5. u * (e + t) >= 100 * e
  BY DEF UsedBy
<1> DEFINE a == u * (e + t)  b == u * Window  c == 100 * e
<1>6. a \in Int /\ b \in Int /\ c \in Int /\ a <= b - u /\ a >= c
  BY <1>1, <1>3, <1>4, <1>5
<1> HIDE DEF a, b, c, u, e
<1>7. b > c
  BY <1>1, <1>6
<1> QED
  BY <1>7 DEF b, c, u, e

(* The state predicate the property is: arithmetic on any well-typed snapshot. *)
LEMMA PaceArithmetic == SnapshotOK => PaceIsJudged
<1> DEFINE u == limits.util  e == Elapsed(limits)  spent == u * Window  gone == 100 * e
<1> SUFFICES ASSUME SnapshotOK, HasWindow(limits), e > 0, limits.reset > now
             PROVE  /\ (\E t \in 0..(limits.reset - now - 1) : UsedBy(limits, e, t)) /\ u >= SoftPct
                          => AssessWindow(limits) = "danger"
                    /\ spent < gone => AssessWindow(limits) = "ok"
  BY DEF PaceIsJudged
<1>1. u \in Nat /\ e \in Nat /\ e < Window /\ Window \in Nat
  BY ElapsedFacts, GuardConstantsOK DEF SnapshotOK, HasWindow
<1>2. spent \in Int /\ gone \in Int
  BY <1>1
<1>3. ASSUME NEW t \in 0..(limits.reset - now - 1), UsedBy(limits, e, t), u >= SoftPct
      PROVE  AssessWindow(limits) = "danger"
  <2>1. spent > gone
    BY <1>3, UsedUp
  <2>2. u > 0 /\ 2 * u >= SoftPct
    BY <1>1, <1>3 DEF SoftPct
  <2> QED
    BY <1>3, <2>1, <2>2 DEF AssessWindow
<1>4. ASSUME spent < gone PROVE AssessWindow(limits) = "ok"
  <2>1. ~(u >= 100)
    <3> SUFFICES ASSUME u >= 100 PROVE FALSE
      OBVIOUS
    <3>1. Window * 100 <= Window * u
      BY <1>1, Grows
    <3>2. Window * u = spent /\ Window * 100 > gone
      BY <1>1
    <3> HIDE DEF spent, gone, u
    <3> QED
      BY <3>1, <3>2, <1>1, <1>2, <1>4
  <2>2. /\ 2 * u * Window = 2 * spent
        /\ 3 * 100 * e = 3 * gone
    BY <1>1
  <2>3. ~(2 * u * Window >= 3 * 100 * e)
    <3>1. gone >= 0
      BY <1>1
    <3> HIDE DEF spent, gone
    <3>2. 2 * spent < 3 * gone
      BY <1>2, <1>4, <3>1
    <3> QED
      BY <2>2, <3>2, <1>2
  <2>4. ~(spent >= gone) /\ ~(spent > gone)
    BY <1>2, <1>4
  <2> QED
    BY <2>1, <2>3, <2>4 DEF AssessWindow
<1> QED
  BY <1>3, <1>4

(* PaceIsJudged, for every reading and window: whatever the snapshot and   *)
(* whenever it is looked at, a window over the soft threshold that would   *)
(* be used up in time is a danger, and one within its pace raises nothing. *)
THEOREM PaceJudged == Spec => []PaceIsJudged
<1>1. Init => WallInv /\ SnapshotOK
  BY InitWall, InitSnapshot
<1>2. WallInv /\ SnapshotOK /\ [Next]_vars => WallInv' /\ SnapshotOK'
  BY NextWall, NextSnapshot
<1>3. WallInv /\ SnapshotOK => PaceIsJudged
  BY PaceArithmetic
<1> QED
  BY <1>1, <1>2, <1>3, PTL DEF Spec
===============================================================================
