--------------------------- MODULE CloudAccountsProofs ---------------------------
(***************************************************************************)
(* What the workspace promises of its cloud accounts, for any users,       *)
(* workspaces, plans, cloud accounts and number of workers.                *)
(*                                                                         *)
(* The first part is about downgrades: while requests come one at a time   *)
(* and none fails (Brief), what is active in a workspace is what its plan  *)
(* lets it keep, or a handler still has the pausing to do (Paused).  Most  *)
(* steps neither pause nor owe a pause (Even); the two that do are proved  *)
(* apart.                                                                  *)
(*                                                                         *)
(* The second is about credentials, requests coming in any order: while no *)
(* step fails or acts on what has changed (Trusty), every cloud account    *)
(* has a credential of its workspace and every credential a cloud account, *)
(* or a handler carries what will mend it (Matched).  Most steps leave     *)
(* both alone (Errand); the others go through MatchedStays, which asks     *)
(* only about the handler that makes the step and what it changes.         *)
(***************************************************************************)
EXTENDS WorkspaceProofs

(******************************* bystanders ********************************)
(* What neither bills nor handles cloud accounts, nor creates or deletes a *)
(* workspace: the team, budgets, the console, API keys and profiles.       *)
SideWork == BudgetWork \cup SeatWork \cup {"invite", "clear", "profile", "revoke"}
Following(v, more) == job'[v] = IF job[v] = <<>> THEN more ELSE more \o Tail(job[v])
Busied(W) == \A v \in Workers :
    \/ job'[v] = job[v]
    \/ /\ job[v] = <<>> \/ Head(job[v]).do \in W
       /\ \E more : IsSeq(more) /\ (\A x \in Work(more) : x.do \in W) /\ Following(v, more)
SpaceKept(s) ==
    /\ db'.space[s].type = db.space[s].type /\ db'.space[s].owner = db.space[s].owner
    /\ db'.space[s].tier = db.space[s].tier /\ db'.space[s].sub = db.space[s].sub
Undisturbed ==
    /\ ShapeOK' /\ db'.cloud = db.cloud /\ db'.cred = db.cred
    /\ \A s \in Spaces : SpaceKept(s)
Untouching == hist'.touched = hist.touched
Bystander ==
    \/ "failed" \in hist'.lapses
    \/ (ShapeOK => Undisturbed) /\ UNCHANGED stripe /\ Untouching /\ Busied(SideWork)

LEMMA TouchingNothing ==
  ASSUME HistOK,
         \/ UNCHANGED hist \/ hist' = Spend
         \/ \E more : hist' = Noting(hist, more) \/ hist' = Noting(Spend, more)
         \/ \E more, f : hist' = [Noting(hist, more) EXCEPT !.faults = f]
         \/ \E f : hist' = [Spend EXCEPT !.sent = f]
         \/ \E more, f : hist' = [Noting(Spend, more) EXCEPT !.sent = f]
         \/ \E t, f : hist' = [hist EXCEPT !.sent[t] = f]
  PROVE  Untouching
  <1>1. CASE UNCHANGED hist \/ hist' = Spend
    BY <1>1 DEF HistOK, HistFields, Spend, Untouching
  <1>2. CASE \E more : hist' = Noting(hist, more) \/ hist' = Noting(Spend, more)
    BY <1>2 DEF HistOK, HistFields, Spend, Noting, Untouching
  <1>3. CASE \E more, f : hist' = [Noting(hist, more) EXCEPT !.faults = f]
    BY <1>3 DEF HistOK, HistFields, Spend, Noting, Untouching
  <1>4. CASE \E f : hist' = [Spend EXCEPT !.sent = f]
    BY <1>4 DEF HistOK, HistFields, Spend, Noting, Untouching
  <1>5. CASE \E more, f : hist' = [Noting(Spend, more) EXCEPT !.sent = f]
    BY <1>5 DEF HistOK, HistFields, Spend, Noting, Untouching
  <1>6. CASE \E t, f : hist' = [hist EXCEPT !.sent[t] = f]
    BY <1>6 DEF HistOK, HistFields, Spend, Noting, Untouching
  <1> QED BY <1>1, <1>2, <1>3, <1>4, <1>5, <1>6

LEMMA BusiedStill ==
  ASSUME NEW W, UNCHANGED job
  PROVE  Busied(W)
  BY DEF Busied

LEMMA BusiedStart ==
  ASSUME Base, NEW W, NEW w \in Workers, NEW steps, IsSeq(steps), \A x \in Work(steps) : x.do \in W,
         Begin(w, steps)
  PROVE  Busied(W) /\ Untouching
  <1>1. job' = [job EXCEPT ![w] = steps] /\ job[w] = <<>>
    BY DEF Begin, Idle
  <1>2. hist' = Noting(Spend, Crowded)
    BY DEF Begin
  <1>3. Untouching
    BY <1>2, TouchingNothing DEF Base
  <1>4. Following(w, steps)
    BY <1>1 DEF Following, Base, JobsOK
  <1>5. \A v \in Workers : v # w => job'[v] = job[v]
    BY <1>1 DEF Base, JobsOK
  <1> QED BY <1>1, <1>3, <1>4, <1>5 DEF Busied

LEMMA BusiedOn ==
  ASSUME Base, NEW W, NEW w \in Workers, NEW d \in W, Doing(w, d),
         NEW more, IsSeq(more), \A x \in Work(more) : x.do \in W, Proceed(w, more)
  PROVE  Busied(W)
  <1>1. job' = [job EXCEPT ![w] = more \o Tail(job[w])] /\ job[w] # <<>> /\ Head(job[w]).do = d
    BY DEF Proceed, Doing, Idle
  <1>2. Following(w, more)
    BY <1>1 DEF Following, Base, JobsOK
  <1>3. \A v \in Workers : v # w => job'[v] = job[v]
    BY <1>1 DEF Base, JobsOK
  <1> QED BY <1>1, <1>2, <1>3 DEF Busied

LEMMA BusiedStarts ==
  ASSUME Base, NEW W, NEW w \in Workers, NEW a, a.do \in W, Begin(w, <<a>>)
  PROVE  Busied(W) /\ Untouching
  BY WorkOfOne, BusiedStart

LEMMA BusiedGoes ==
  ASSUME Base, NEW W, NEW w \in Workers, NEW d \in W, Doing(w, d), NEW more, Proceed(w, more),
         more = <<>> \/ \E a : a.do \in W /\ more = <<a>>
  PROVE  Busied(W)
  <1>1. IsSeq(more) /\ \A x \in Work(more) : x.do \in W
    BY WorkOfNone, WorkOfOne
  <1> QED BY <1>1, BusiedOn

(* Fields that say nothing of workspaces and of cloud accounts.            *)
SideDb ==
    /\ db'.space = db.space /\ db'.cloud = db.cloud /\ db'.cred = db.cred
    /\ DOMAIN db'.active = DOMAIN db.active
LEMMA SideDbUndisturbed ==
  ASSUME SideDb, ShapeOK
  PROVE  Undisturbed
  BY DEF SideDb, ShapeOK, Undisturbed, SpaceKept

LEMMA AsideInDb ==
  ASSUME DbOK, NEW f \in DbFields \ {"space", "cloud", "cred", "active"}, NEW v, db' = [db EXCEPT ![f] = v]
  PROVE  SideDb
  BY DEF DbOK, DbFields, SideDb

LEMMA ActiveAside ==
  ASSUME DbOK, NEW u, NEW v, db' = [db EXCEPT !.active[u] = v]
  PROVE  SideDb
  BY DEF DbOK, DbFields, SideDb

LEMMA ChannelsAside ==
  ASSUME DbOK, ShapeOK, NEW s, NEW v, db' = [db EXCEPT !.space[s].channels = v]
  PROVE  Undisturbed
  <1>1. db'.cloud = db.cloud /\ db'.cred = db.cred /\ db'.active = db.active
    BY DEF DbOK, DbFields
  <1>2. db'.space = [db.space EXCEPT ![s].channels = v]
    BY DEF DbOK, DbFields
  <1>3. DOMAIN db'.space = Spaces /\ \A x \in Spaces : DOMAIN db'.space[x] = DOMAIN NoSpace /\ SpaceKept(x)
    BY <1>2 DEF ShapeOK, SpaceKept, NoSpace
  <1> QED BY <1>1, <1>3 DEF ShapeOK, Undisturbed

LEMMA TeamStandsBy ==
  ASSUME Base, TeamNext
  PROVE  Bystander
  <1> USE DEF SideWork, BudgetWork, SeatWork
  <1>0. SideDb => (ShapeOK => Undisturbed)
    BY SideDbUndisturbed
  <1>s. UNCHANGED db => SideDb
    BY DEF SideDb
  <1>1. ASSUME NEW w \in Workers, NEW u, NEW i, Accept(w, u, i) PROVE Bystander
    <2>1. \E steps : Begin(w, steps) /\ ((\E a : a.do = "settle" /\ steps = <<a>>)
                                          \/ (\E a, b : a.do = "seat" /\ b.do = "settle" /\ steps = <<a, b>>))
      <3>1. PICK late \in BOOLEAN : Begin(w, IF late THEN <<Settle(i, "expired")>>
                                     ELSE <<[do |-> "seat", user |-> u, inv |-> db.invite[i], from |-> i],
                                            Settle(i, "accepted")>>)
        <4>1. (db.invite[i].late) \in BOOLEAN \/ db.invite[i].late \notin BOOLEAN
          OBVIOUS
        <4> QED BY <1>1, Zenon DEF Accept
      <3>2. Settle(i, "expired").do = "settle" /\ Settle(i, "accepted").do = "settle"
        BY DEF Settle
      <3>3. CASE late
        BY <3>1, <3>2, <3>3
      <3>4. CASE ~late
        BY <3>1, <3>2, <3>4
      <3> QED BY <3>3, <3>4
    <2>2. PICK steps : Begin(w, steps) /\ ((\E a : a.do = "settle" /\ steps = <<a>>)
                                          \/ (\E a, b : a.do = "seat" /\ b.do = "settle" /\ steps = <<a, b>>))
      BY <2>1
    <2>3. IsSeq(steps) /\ \A x \in Work(steps) : x.do \in SideWork
      BY <2>2, WorkOfOne, WorkOfTwo
    <2>4. UNCHANGED <<db, stripe>>
      BY <1>1, Zenon DEF Accept
    <2> QED BY <1>0, <1>s, <2>2, <2>3, <2>4, BusiedStart DEF Bystander
  <1>2. ASSUME NEW w \in Workers, NEW u, NEW s, Switch(w, u, s) PROVE Bystander
    <2>1. UNCHANGED <<db, stripe>> /\ Begin(w, <<[do |-> "profile", user |-> u, of |-> s]>>)
      BY <1>2, Zenon DEF Switch
    <2> QED BY <1>0, <1>s, <2>1, BusiedStarts DEF Bystander
  <1>3. ASSUME NEW w \in Workers, NEW u, NEW email, NEW role, Invite(w, u, email, role) PROVE Bystander
    <2>1. PICK s : UNCHANGED <<db, stripe>> /\ Begin(w, <<[do |-> "invite", of |-> s, email |-> email, role |-> role]>>)
      BY <1>3, Zenon DEF Invite
    <2> QED BY <1>0, <1>s, <2>1, BusiedStarts DEF Bystander
  <1>4. ASSUME NEW w \in Workers, NEW u, NEW m, RemoveMember(w, u, m) PROVE Bystander
    <2>1. /\ UNCHANGED stripe /\ Begin(w, <<[do |-> "clear", user |-> m.user, of |-> m.of]>>)
          /\ \E v : db' = [db EXCEPT !.member = v]
      BY <1>4, Zenon DEF RemoveMember
    <2>2. SideDb
      BY <2>1, AsideInDb DEF Base, DbFields
    <2> QED BY <1>0, <2>1, <2>2, BusiedStarts DEF Bystander
  <1>5. ASSUME NEW u, NEW i, Revoke(u, i) PROVE Bystander
    <2>1. AtOnce /\ UNCHANGED stripe /\ db' = [db EXCEPT !.invite[i].status = "revoked"]
      BY <1>5, Zenon DEF Revoke
    <2>2. SideDb
      BY <2>1 DEF Base, DbOK, DbFields, SideDb
    <2> QED BY <1>0, <2>1, <2>2, BusiedStill, TouchingNothing DEF Bystander, AtOnce, Base
  <1>6. ASSUME NEW u, NEW m, NEW role, SetRole(u, m, role) PROVE Bystander
    <2>1. AtOnce /\ UNCHANGED stripe /\ \E v : db' = [db EXCEPT !.member = v]
      BY <1>6, Zenon DEF SetRole
    <2>2. SideDb
      BY <2>1, AsideInDb DEF Base, DbFields
    <2> QED BY <1>0, <2>1, <2>2, BusiedStill, TouchingNothing DEF Bystander, AtOnce, Base
  <1>7. ASSUME NEW i, Expires(i) PROVE Bystander
    <2>1. hist' = Spend /\ UNCHANGED <<job, stripe>> /\ db' = [db EXCEPT !.invite[i].late = TRUE]
      BY <1>7, Zenon DEF Expires
    <2>2. SideDb
      BY <2>1 DEF Base, DbOK, DbFields, SideDb
    <2> QED BY <1>0, <2>1, <2>2, BusiedStill, TouchingNothing DEF Bystander, Base
  <1>8. ASSUME NEW w \in Workers, SendInvite(w) PROVE Bystander
    <2>1. /\ Doing(w, "invite") /\ Proceed(w, <<>>) /\ UNCHANGED stripe
          /\ \E more : With(more)
          /\ \E i, v : db' = [db EXCEPT !.invite[i] = v]
      BY <1>8, Zenon DEF SendInvite
    <2>2. SideDb
      BY <2>1 DEF Base, DbOK, DbFields, SideDb
    <2> QED BY <1>0, <2>1, <2>2, BusiedGoes, TouchingNothing DEF Bystander, Base, With
  <1>9. ASSUME NEW w \in Workers, Seat(w) PROVE Bystander
    <2>1. \/ Throws(w)
          \/ /\ Doing(w, "seat") /\ Proceed(w, <<>>) /\ UNCHANGED stripe
             /\ \E more : With(more)
             /\ \E v : db' = [db EXCEPT !.member = v]
      BY <1>9, Zenon DEF Seat
    <2>2. CASE Throws(w)
      <3>1. hist'.lapses = hist.lapses \cup {"failed"}
        BY <2>2, NotingMore DEF Throws, With, Base
      <3> QED BY <3>1 DEF Bystander
    <2>3. CASE ~Throws(w)
      <3>2. SideDb
        BY <2>1, <2>3, AsideInDb DEF Base, DbFields
      <3> QED BY <1>0, <2>1, <2>3, <3>2, BusiedGoes, TouchingNothing DEF Bystander, Base, With
    <2> QED BY <2>2, <2>3
  <1>10. ASSUME NEW w \in Workers, SettleInvite(w) PROVE Bystander
    <2>1. /\ Doing(w, "settle") /\ Proceed(w, <<>>) /\ UNCHANGED stripe
          /\ \E more : With(more)
          /\ \E i, v : db' = [db EXCEPT !.invite[i].status = v]
      BY <1>10, Zenon DEF SettleInvite
    <2>2. SideDb
      BY <2>1 DEF Base, DbOK, DbFields, SideDb
    <2> QED BY <1>0, <2>1, <2>2, BusiedGoes, TouchingNothing DEF Bystander, Base, With
  <1>11. ASSUME NEW w \in Workers, ClearProfile(w) PROVE Bystander
    <2>1. /\ Doing(w, "clear") /\ Proceed(w, <<>>) /\ UNCHANGED stripe
          /\ \/ \E u, v : db' = [db EXCEPT !.active[u] = v] /\ Clean
             \/ UNCHANGED db /\ \E more, f : hist' = [Noting(hist, more) EXCEPT !.faults = f]
      BY <1>11, Zenon DEF ClearProfile
    <2>2. SideDb
      BY <2>1, <1>s, ActiveAside DEF Base
    <2>3. Untouching
      BY <2>1, TouchingNothing DEF Base, Clean
    <2> QED BY <1>0, <2>1, <2>2, <2>3, BusiedGoes DEF Bystander
  <1> QED BY <1>1, <1>2, <1>3, <1>4, <1>5, <1>6, <1>7, <1>8, <1>9, <1>10, <1>11, Zenon DEF TeamNext

LEMMA AlertingGoes ==
  ASSUME NEW b, NEW spent
  PROVE  Alerting(b, spent) = <<>> \/ \E a : a.do = "alert" /\ Alerting(b, spent) = <<a>>
  <1>1. CASE Due(b, spent) = {}
    BY <1>1 DEF Alerting
  <1>2. CASE Due(b, spent) # {}
    BY <1>2 DEF Alerting
  <1> QED BY <1>1, <1>2

LEMMA BudgetsStandBy ==
  ASSUME Base, BudgetsNext
  PROVE  Bystander
  <1> USE DEF SideWork, BudgetWork, SeatWork
  <1>0. SideDb => (ShapeOK => Undisturbed)
    BY SideDbUndisturbed
  <1>s. UNCHANGED db => SideDb
    BY DEF SideDb
  <1>1. ASSUME NEW w \in Workers, NEW u, CheckBudgets(w, u) PROVE Bystander
    <2>1. UNCHANGED <<db, stripe>> /\ Begin(w, <<[do |-> "period", budget |-> db.budget]>>)
      BY <1>1, Zenon DEF CheckBudgets
    <2> QED BY <1>0, <1>s, <2>1, BusiedStarts DEF Bystander
  <1>2. ASSUME NEW u, CreateBudget(u) PROVE Bystander
    <2>1. /\ UNCHANGED <<stripe, job>> /\ \E v : db' = [db EXCEPT !.budget = v]
          /\ \E more, f : hist' = [Noting(Spend, more) EXCEPT !.sent = f]
      BY <1>2, Zenon DEF CreateBudget
    <2>2. SideDb
      BY <2>1, AsideInDb DEF Base, DbFields
    <2> QED BY <1>0, <2>1, <2>2, BusiedStill, TouchingNothing DEF Bystander, Base
  <1>3. ASSUME NEW u, DeleteBudget(u) PROVE Bystander
    <2>1. AtOnce /\ UNCHANGED stripe /\ \E v : db' = [db EXCEPT !.budget = v]
      BY <1>3, Zenon DEF DeleteBudget
    <2>2. SideDb
      BY <2>1, AsideInDb DEF Base, DbFields
    <2> QED BY <1>0, <2>1, <2>2, BusiedStill, TouchingNothing DEF Bystander, AtOnce, Base
  <1>4. ASSUME NEW u, NEW at, NEW on, PatchBudget(u, at, on) PROVE Bystander
    <2>1. AtOnce /\ UNCHANGED stripe /\ db' = [db EXCEPT !.budget.at = at, !.budget.on = on]
      BY <1>4, Zenon DEF PatchBudget
    <2>2. SideDb
      BY <2>1 DEF Base, DbOK, DbFields, SideDb
    <2> QED BY <1>0, <2>1, <2>2, BusiedStill, TouchingNothing DEF Bystander, AtOnce, Base
  <1>5. ASSUME NEW w \in Workers, RollPeriod(w) PROVE Bystander
    <2>1. /\ Doing(w, "period") /\ Clean /\ UNCHANGED stripe
          /\ \E b : Proceed(w, <<[do |-> "spend", budget |-> b]>>)
          /\ UNCHANGED db \/ db' = [db EXCEPT !.budget.told = {}, !.budget.started = db.period]
      BY <1>5, Zenon DEF RollPeriod
    <2>2. SideDb
      BY <2>1 DEF Base, DbOK, DbFields, SideDb
    <2> QED BY <1>0, <2>1, <2>2, BusiedGoes, TouchingNothing DEF Bystander, Clean, Base
  <1>6. ASSUME NEW w \in Workers, ReadSpend(w) PROVE Bystander
    <2>1. /\ Doing(w, "spend") /\ Clean /\ UNCHANGED <<db, stripe>>
          /\ \E b, n : Proceed(w, Alerting(b, n))
      BY <1>6, Zenon DEF ReadSpend
    <2> QED BY <1>0, <1>s, <2>1, AlertingGoes, BusiedGoes, TouchingNothing DEF Bystander, Clean, Base
  <1>7. ASSUME NEW w \in Workers, SendAlert(w) PROVE Bystander
    <2>1. /\ Doing(w, "alert") /\ UNCHANGED <<db, stripe>>
          /\ \E b, t, n : Proceed(w, <<[do |-> "told", budget |-> b, at |-> t, spent |-> n]>>)
          /\ UNCHANGED hist \/ \E t, f : hist' = [hist EXCEPT !.sent[t] = f]
      BY <1>7, Zenon DEF SendAlert
    <2> QED BY <1>0, <1>s, <2>1, BusiedGoes, TouchingNothing DEF Bystander, Base
  <1>8. ASSUME NEW w \in Workers, MarkTold(w) PROVE Bystander
    <2>1. /\ Doing(w, "told") /\ Clean /\ UNCHANGED stripe
          /\ \E b, n : Proceed(w, Alerting(b, n))
          /\ UNCHANGED db \/ \E v : db' = [db EXCEPT !.budget.told = v]
      BY <1>8, Zenon DEF MarkTold
    <2>2. SideDb
      BY <2>1 DEF Base, DbOK, DbFields, SideDb
    <2> QED BY <1>0, <2>1, <2>2, AlertingGoes, BusiedGoes, TouchingNothing DEF Bystander, Clean, Base
  <1>9. ASSUME SpendMore PROVE Bystander
    <2>1. hist' = Spend /\ UNCHANGED <<job, stripe>> /\ \E v : db' = [db EXCEPT !.spent = v]
      BY <1>9, Zenon DEF SpendMore
    <2>2. SideDb
      BY <2>1, AsideInDb DEF Base, DbFields
    <2> QED BY <1>0, <2>1, <2>2, BusiedStill, TouchingNothing DEF Bystander, Base
  <1>10. ASSUME NewPeriod PROVE Bystander
    <2>1. /\ \E f : hist' = [Spend EXCEPT !.sent = f]
          /\ UNCHANGED <<job, stripe>>
          /\ \E p : db' = [db EXCEPT !.period = p, !.spent = 0, !.before = db.spent]
      BY <1>10, Zenon DEF NewPeriod
    <2>2. SideDb
      BY <2>1 DEF Base, DbOK, DbFields, SideDb
    <2> QED BY <1>0, <2>1, <2>2, BusiedStill, TouchingNothing DEF Bystander, Base
  <1> QED BY <1>1, <1>2, <1>3, <1>4, <1>5, <1>6, <1>7, <1>8, <1>9, <1>10, Zenon DEF BudgetsNext

(* The console has no worker of its own. *)
LEMMA ConsoleLeaves ==
  ASSUME Base, UNCHANGED <<job, stripe>>,
         \/ UNCHANGED hist \/ hist' = Spend
         \/ \E more : hist' = Noting(hist, more) \/ hist' = Noting(Spend, more)
         \/ \E more, f : hist' = [Noting(hist, more) EXCEPT !.faults = f],
         \/ UNCHANGED db
         \/ \E s, v : db' = [db EXCEPT !.space[s].channels = v]
         \/ \E s, v : db' = [db EXCEPT !.rules[s] = v]
         \/ \E u, s : db' = [db EXCEPT !.active[u] = s]
  PROVE  Bystander
  <1>1. Untouching
    BY TouchingNothing DEF Base
  <1>2. CASE UNCHANGED db \/ \E s, v : db' = [db EXCEPT !.rules[s] = v]
    <2>1. SideDb
      BY <1>2 DEF Base, DbOK, DbFields, SideDb
    <2> QED BY <1>1, <2>1, SideDbUndisturbed, BusiedStill DEF Bystander
  <1>3. CASE \E u, s : db' = [db EXCEPT !.active[u] = s]
    <2>1. SideDb
      BY <1>3, ActiveAside DEF Base
    <2> QED BY <1>1, <2>1, SideDbUndisturbed, BusiedStill DEF Bystander
  <1>4. CASE \E s, v : db' = [db EXCEPT !.space[s].channels = v]
    <2>1. ShapeOK => Undisturbed
      BY <1>4, ChannelsAside DEF Base
    <2> QED BY <1>1, <2>1, BusiedStill DEF Bystander
  <1> QED BY <1>2, <1>3, <1>4

LEMMA ConsoleStandsBy ==
  ASSUME Base, ConsoleNext
  PROVE  Bystander
  <1>1. ASSUME NEW page, Visit(page) PROVE Bystander
    BY <1>1, ConsoleLeaves, Zenon DEF Visit
  <1>c. ASSUME NEW t, Clicks(t) PROVE Bystander
    BY <1>c, ConsoleLeaves, Zenon DEF Clicks
  <1>r. ASSUME NEW n, NEW t, Receives(n, t) PROVE Bystander
    BY <1>r, ConsoleLeaves, Zenon DEF Receives
  <1>w. ASSUME NEW n, NEW t, Shown(n, t) PROVE Bystander
    BY <1>w, ConsoleLeaves, Zenon DEF Shown, With
  <1>d. ASSUME NEW n, NEW permission, NEW data, Reads(n, permission, data) PROVE Bystander
    BY <1>d, ConsoleLeaves, Zenon DEF Reads, With
  <1>2. ASSUME NEW s, ClickSwitch(s) PROVE Bystander
    BY <1>2, <1>c, Zenon DEF ClickSwitch
  <1>3. ASSUME NEW s, Fired(s) PROVE Bystander
    BY <1>3, ConsoleLeaves, Zenon DEF Fired
  <1>4. ASSUME ClickRefresh PROVE Bystander
    BY <1>4, <1>c, Zenon DEF ClickRefresh
  <1>5. ASSUME ClickChannels PROVE Bystander
    BY <1>5, <1>c, Zenon DEF ClickChannels
  <1>6. ASSUME ClickRules PROVE Bystander
    BY <1>6, <1>c, Zenon DEF ClickRules
  <1>7. ASSUME NEW n, Sends(n) PROVE Bystander
    BY <1>7, ConsoleLeaves, Zenon DEF Sends
  <1>8. ASSUME NEW n, ServeSwitch(n) PROVE Bystander
    BY <1>8, ConsoleLeaves, Zenon DEF ServeSwitch, With
  <1>9. ASSUME NEW n, ServeMe(n) PROVE Bystander
    BY <1>9, ConsoleLeaves, Zenon DEF ServeMe
  <1>10. ASSUME NEW n, ServeChannels(n) PROVE Bystander
    BY <1>10, <1>d, Zenon DEF ServeChannels
  <1>11. ASSUME NEW n, ServeRules(n) PROVE Bystander
    BY <1>11, <1>d, Zenon DEF ServeRules
  <1>12. ASSUME NEW n, Switched(n) PROVE Bystander
    BY <1>12, ConsoleLeaves, Zenon DEF Switched
  <1>13. ASSUME NEW n, Refreshed(n) PROVE Bystander
    BY <1>13, ConsoleLeaves, Zenon DEF Refreshed
  <1>14. ASSUME NEW n, ReceiveChannels(n) PROVE Bystander
    BY <1>14, <1>w, Zenon DEF ReceiveChannels
  <1>15. ASSUME NEW n, ReceivePut(n) PROVE Bystander
    BY <1>15, <1>r, Zenon DEF ReceivePut
  <1>16. ASSUME NEW n, ReceiveRules(n) PROVE Bystander
    BY <1>16, <1>w, Zenon DEF ReceiveRules
  <1>17. ASSUME NEW n, ReceiveRule(n) PROVE Bystander
    BY <1>17, <1>r, Zenon DEF ReceiveRule
  <1>18. ASSUME NEW n, ServePut(n) PROVE Bystander
    BY <1>18, ConsoleLeaves, Zenon DEF ServePut, Changes, Refuse, Crosses, With
  <1>19. ASSUME NEW n, ServeRule(n) PROVE Bystander
    BY <1>19, ConsoleLeaves, Zenon DEF ServeRule, Changes, Refuse, Crosses, With
  <1> QED BY <1>1, <1>2, <1>3, <1>4, <1>5, <1>6, <1>7, <1>8, <1>9, <1>10, <1>11, <1>12, <1>13, <1>14,
             <1>15, <1>16, <1>17, <1>18, <1>19 DEF ConsoleNext

LEMMA KeysStandBy ==
  ASSUME Base, NEW u, NEW k, NEW w \in Workers,
         CreateKey(u) \/ RevokeKey(u, k) \/ RollKey(w, u, k) \/ RevokeRolled(w) \/ SetProfile(w)
  PROVE  Bystander
  <1> USE DEF SideWork, BudgetWork, SeatWork
  <1>0. SideDb => (ShapeOK => Undisturbed)
    BY SideDbUndisturbed
  <1>1. CASE CreateKey(u)
    <2>1. /\ AtOnce /\ UNCHANGED stripe
          /\ \E s : db' = [db EXCEPT !.keys = @ \cup {Key(db.keyed + 1, s)}, !.keyed = @ + 1]
      BY <1>1, Zenon DEF CreateKey
    <2>2. SideDb
      BY <2>1 DEF Base, DbOK, DbFields, SideDb
    <2> QED BY <1>0, <2>1, <2>2, BusiedStill, TouchingNothing DEF Bystander, AtOnce, Base
  <1>2. CASE RevokeKey(u, k)
    <2>1. AtOnce /\ UNCHANGED stripe /\ \E v : db' = [db EXCEPT !.keys = v]
      BY <1>2, Zenon DEF RevokeKey
    <2>2. SideDb
      BY <2>1, AsideInDb DEF Base, DbFields
    <2> QED BY <1>0, <2>1, <2>2, BusiedStill, TouchingNothing DEF Bystander, AtOnce, Base
  <1>3. CASE RollKey(w, u, k)
    <2>1. /\ UNCHANGED stripe /\ Begin(w, <<[do |-> "revoke", key |-> k]>>)
          /\ db' = [db EXCEPT !.keys = @ \cup {Key(db.keyed + 1, k.of)}, !.keyed = @ + 1]
      BY <1>3, Zenon DEF RollKey
    <2>2. SideDb
      BY <2>1 DEF Base, DbOK, DbFields, SideDb
    <2> QED BY <1>0, <2>1, <2>2, BusiedStarts DEF Bystander
  <1>4. CASE RevokeRolled(w)
    <2>1. /\ Doing(w, "revoke") /\ Proceed(w, <<>>) /\ UNCHANGED stripe
          /\ \E more : With(more)
          /\ \E v : db' = [db EXCEPT !.keys = v]
      BY <1>4, Zenon DEF RevokeRolled
    <2>2. SideDb
      BY <2>1, AsideInDb DEF Base, DbFields
    <2> QED BY <1>0, <2>1, <2>2, BusiedGoes, TouchingNothing DEF Bystander, Base, With
  <1>5. CASE SetProfile(w)
    <2>1. /\ Doing(w, "profile") /\ Proceed(w, <<>>) /\ UNCHANGED stripe
          /\ \E more : With(more)
          /\ \E x, v : db' = [db EXCEPT !.active[x] = v]
      BY <1>5, Zenon DEF SetProfile
    <2>2. SideDb
      BY <2>1, ActiveAside DEF Base
    <2> QED BY <1>0, <2>1, <2>2, BusiedGoes, TouchingNothing DEF Bystander, Base, With
  <1> QED BY <1>1, <1>2, <1>3, <1>4, <1>5

(****************************** downgrades *********************************)
(* While requests come one at a time and none fails: a workspace whose     *)
(* cloud accounts nobody has touched has all of them active, or the oldest *)
(* its free plan allows, or those and the ones still to be paused; and on  *)
(* the free plan it is owed a reconciliation until only the oldest are.    *)
Brief == Barring({"failed", "stale", "overlap"})
OldestOf(s) == Oldest(CloudsOf(s), CloudLimit["free"])
Pausing(w, s) ==
    /\ Doing(w, "pause") /\ This(w).clouds # {} /\ This(w).clouds \subseteq CloudsOf(s)
    /\ s \in Spaces \ hist.touched =>
          ActiveOf(s) = This(w).clouds \cup OldestOf(s) /\ This(w).clouds \cap OldestOf(s) = {}
Owed(j, s) == \E i \in 1 .. Len(j) : j[i] = Reconciling(s)
FreePlan(s) == Live(s) /\ db.space[s].tier = "free"
Paused(s) ==
    \/ ActiveOf(s) = OldestOf(s)
    \/ \E w \in Workers : Pausing(w, s)
    \/ ActiveOf(s) = CloudsOf(s) /\ (FreePlan(s) => \E w \in Workers : Owed(job[w], s))

(* No plan that is sold is the free one, and a handler that takes a        *)
(* workspace to the free plan reconciles it next.                          *)
Selling == {k \in Subs : stripe.sub[k].plan # "free"}
Selected(e, S) == e.plan # "free" /\ e.sub \in S
OrderOK(j, S) == \A i \in 1 .. Len(j) :
    /\ j[i].do = "save" /\ j[i].tier = "free" => i < Len(j) /\ j[i + 1] = Reconciling(j[i].of)
    /\ j[i].do = "pause" => i = 1
    /\ j[i].do = "upgrade" => j[i].tier # "free"
    /\ j[i].do \in {"completed", "updated"} => Selected(j[i].ev, S)
    /\ j[i].do = "erase" => ~j[i].broke
StripeGood ==
    /\ DOMAIN stripe.sub = Subs /\ \A k \in Subs : DOMAIN stripe.sub[k] = {"plan", "state", "of"}
    /\ \A k \in Subs : stripe.sub[k].state \in {"active", "past_due"} => k \in Selling
    /\ \A c \in stripe.open : c.plan # "free"
    /\ \A e \in stripe.mail : e.kind # "deleted" => Selected(e, Selling)
Grounded == \A c \in Clouds : db.cloud[c].of \in Spaces => db.space[db.cloud[c].of].type # "unborn"
PauseInv == Brief =>
    /\ ShapeOK /\ StripeGood /\ Grounded
    /\ \A w \in Workers : OrderOK(job[w], Selling)
    /\ \A w \in Workers : Doing(w, "pause") => \E s : Pausing(w, s)
    /\ \A s \in Spaces \ hist.touched : Paused(s)

(* A step that pauses nothing and leaves no cloud account untended.        *)
Orderly == \A v \in Workers :
    \/ job'[v] = job[v]
    \/ /\ job[v] = <<>> \/ Head(job[v]).do \notin {"reconcile", "pause"}
       /\ \E more : /\ IsSeq(more) /\ OrderOK(more, Selling') /\ \A x \in Work(more) : x.do # "pause"
                    /\ Following(v, more)
SameClouds(s) == CloudsOf(s)' = CloudsOf(s) /\ ActiveOf(s)' = ActiveOf(s)
CloudsEven ==
    \/ db'.cloud = db.cloud
    \/ /\ \A w \in Workers : ~Doing(w, "pause")
       /\ \A s \in Spaces : s \in hist'.touched \/ CloudsOf(s)' = {} \/ SameClouds(s)
       /\ \A c \in Clouds : db'.cloud[c].of \in Spaces =>
             db'.cloud[c].of = db.cloud[c].of \/ db.space[db'.cloud[c].of].type # "unborn"
SpacesEven == \A s \in Spaces :
    /\ db'.space[s].type = "unborn" => db.space[s].type = "unborn"
    /\ FreePlan(s)' => db.space[s].type = "unborn" \/ FreePlan(s) \/ \E w \in Workers : Owed(job'[w], s)
StripeEven == StripeGood' /\ Selling \subseteq Selling'
Even ==
    /\ ShapeOK' /\ CloudsEven /\ SpacesEven /\ StripeEven /\ Orderly
    /\ hist.touched \subseteq hist'.touched

LEMMA JoinedAt ==
  ASSUME NEW j, IsSeq(j), j # <<>>, NEW more, IsSeq(more)
  PROVE  /\ Len(more) \in Nat /\ Len(j) \in Nat /\ Len(j) > 0
         /\ Len(more \o Tail(j)) = Len(more) + Len(j) - 1
         /\ \A i \in 1 .. Len(more) : (more \o Tail(j))[i] = more[i]
         /\ \A i \in 2 .. Len(j) : (more \o Tail(j))[Len(more) + i - 1] = j[i]
  <1>1. Len(Tail(j)) = Len(j) - 1 /\ Len(j) \in Nat /\ Len(j) > 0
    BY WorkOfRest
  <1>2. j \in Seq(Work(j))
    BY DEF IsSeq
  <1>3. \A i \in 1 .. Len(j) - 1 : Tail(j)[i] = j[i + 1]
    BY <1>2
  <1>4. more \in Seq(Work(more) \cup Work(j)) /\ Tail(j) \in Seq(Work(more) \cup Work(j)) /\ Len(more) \in Nat
    BY <1>2 DEF IsSeq
  <1>5. Len(more \o Tail(j)) = Len(more) + Len(Tail(j))
    BY <1>4
  <1>6. \A i \in 1 .. Len(more) + Len(Tail(j)) :
           (more \o Tail(j))[i] = IF i <= Len(more) THEN more[i] ELSE Tail(j)[i - Len(more)]
    BY <1>4
  <1>7. \A i \in 1 .. Len(more) : (more \o Tail(j))[i] = more[i]
    BY <1>1, <1>4, <1>6
  <1>8. ASSUME NEW i \in 2 .. Len(j) PROVE (more \o Tail(j))[Len(more) + i - 1] = j[i]
    <2>1. Len(more) + i - 1 \in 1 .. Len(more) + Len(Tail(j)) /\ ~(Len(more) + i - 1 <= Len(more))
      BY <1>1, <1>4
    <2>2. Len(more) + i - 1 - Len(more) = i - 1 /\ i - 1 \in 1 .. Len(j) - 1 /\ i - 1 + 1 = i
      BY <1>1, <1>4
    <2>3. (more \o Tail(j))[Len(more) + i - 1] = Tail(j)[i - 1]
      BY <1>6, <2>1, <2>2
    <2>4. Tail(j)[i - 1] = j[i]
      BY <1>3, <2>2
    <2> QED BY <2>3, <2>4
  <1> QED BY <1>1, <1>4, <1>5, <1>7, <1>8

LEMMA OrderJoined ==
  ASSUME NEW j, IsSeq(j), j # <<>>, NEW S, OrderOK(j, S), NEW more, IsSeq(more), OrderOK(more, S)
  PROVE  OrderOK(more \o Tail(j), S)
  <1> DEFINE t == more \o Tail(j)
             m == Len(more)
             n == Len(j)
  <1>1. /\ m \in Nat /\ n \in Nat /\ n > 0 /\ Len(t) = m + n - 1
        /\ \A i \in 1 .. m : t[i] = more[i]
        /\ \A i \in 2 .. n : t[m + i - 1] = j[i]
    BY JoinedAt
  <1> HIDE DEF t, m, n
  <1> SUFFICES ASSUME NEW i \in 1 .. Len(t)
               PROVE  /\ t[i].do = "save" /\ t[i].tier = "free" => i < Len(t) /\ t[i + 1] = Reconciling(t[i].of)
                      /\ t[i].do = "pause" => i = 1
                      /\ t[i].do = "upgrade" => t[i].tier # "free"
                      /\ t[i].do \in {"completed", "updated"} => Selected(t[i].ev, S)
                      /\ t[i].do = "erase" => ~t[i].broke
    BY DEF OrderOK, t
  <1>2. CASE i <= m
    <2>1. i \in 1 .. m /\ t[i] = more[i]
      BY <1>1, <1>2
    <2>2. /\ more[i].do = "save" /\ more[i].tier = "free" => i < m /\ more[i + 1] = Reconciling(more[i].of)
          /\ more[i].do = "pause" => i = 1
          /\ more[i].do = "upgrade" => more[i].tier # "free"
          /\ more[i].do \in {"completed", "updated"} => Selected(more[i].ev, S)
          /\ more[i].do = "erase" => ~more[i].broke
      BY <2>1 DEF OrderOK, m
    <2>3. i < m => i + 1 \in 1 .. m /\ t[i + 1] = more[i + 1] /\ i < Len(t)
      BY <1>1, <2>1
    <2> QED BY <2>1, <2>2, <2>3
  <1>3. CASE i > m
    <2> DEFINE k == i - m + 1
    <2>1. k \in 2 .. n /\ m + k - 1 = i
      BY <1>1, <1>3
    <2>2. t[i] = j[k]
      BY <1>1, <2>1
    <2>3. /\ j[k].do = "save" /\ j[k].tier = "free" => k < n /\ j[k + 1] = Reconciling(j[k].of)
          /\ j[k].do = "pause" => k = 1
          /\ j[k].do = "upgrade" => j[k].tier # "free"
          /\ j[k].do \in {"completed", "updated"} => Selected(j[k].ev, S)
          /\ j[k].do = "erase" => ~j[k].broke
      <3>1. k \in 1 .. n
        BY <1>1, <2>1
      <3> HIDE DEF k
      <3> QED BY <3>1 DEF OrderOK, n
    <2>4. k < n => k + 1 \in 2 .. n /\ m + (k + 1) - 1 = i + 1 /\ i < Len(t)
      BY <1>1, <1>3
    <2>5. k < n => t[i + 1] = j[k + 1]
      <3> HIDE DEF k
      <3> QED BY <1>1, <2>4
    <2>6. k # 1
      BY <2>1
    <2> HIDE DEF k
    <2> QED BY <2>2, <2>3, <2>4, <2>5, <2>6
  <1> QED BY <1>1, <1>2, <1>3

LEMMA OrderGrows ==
  ASSUME NEW j, NEW S, NEW T, S \subseteq T, OrderOK(j, S)
  PROVE  OrderOK(j, T)
  BY DEF OrderOK, Selected

LEMMA OwedStays ==
  ASSUME NEW j, IsSeq(j), j # <<>>, Head(j).do # "reconcile", NEW s, Owed(j, s), NEW more, IsSeq(more)
  PROVE  Owed(more \o Tail(j), s)
  <1> DEFINE t == more \o Tail(j)
             m == Len(more)
             n == Len(j)
  <1>1. /\ m \in Nat /\ n \in Nat /\ n > 0 /\ Len(t) = m + n - 1
        /\ \A i \in 2 .. n : t[m + i - 1] = j[i]
    BY JoinedAt
  <1>2. Head(j) = j[1]
    BY WorkOfRest
  <1> HIDE DEF t, m
  <1>3. PICK i \in 1 .. n : j[i] = Reconciling(s)
    BY DEF Owed
  <1>4. i # 1
    BY <1>2, <1>3 DEF Reconciling
  <1>5. i \in 2 .. n /\ m + i - 1 \in 1 .. Len(t)
    BY <1>1, <1>4
  <1>6. t[m + i - 1] = Reconciling(s)
    BY <1>1, <1>3, <1>5
  <1> QED BY <1>5, <1>6 DEF Owed, t

LEMMA OrderOfNone == \A S : OrderOK(<<>>, S)
  <1>1. 1 .. Len(<<>>) = {}
    OBVIOUS
  <1> QED BY <1>1 DEF OrderOK

LEMMA OrderOfPlain ==
  ASSUME NEW more, IsSeq(more), NEW S,
         \A x \in Work(more) : x.do \notin {"save", "pause", "upgrade", "completed", "updated", "erase"}
  PROVE  OrderOK(more, S) /\ \A x \in Work(more) : x.do # "pause"
  BY DEF OrderOK, Work

LEMMA JobsAreSeqsNow == JobsOK => \A w \in Workers : IsSeq(job[w])
  BY JobsAreSeqs
LEMMA JobsAreSeqsNext == (JobsOK => \A w \in Workers : IsSeq(job[w]))'
  BY JobsAreSeqsNow, PTL

LEMMA NoNewPause ==
  ASSUME JobsOK, JobsOK', \A w \in Workers : OrderOK(job[w], Selling), Orderly, NEW w \in Workers
  PROVE  /\ Doing(w, "pause") => job'[w] = job[w]
         /\ Doing(w, "pause")' => job'[w] = job[w]
  <1>1. IsSeq(job[w]) /\ IsSeq(job'[w])
    BY JobsAreSeqsNow, JobsAreSeqsNext
  <1>2. CASE job'[w] # job[w]
    <2>1. job[w] = <<>> \/ Head(job[w]).do \notin {"reconcile", "pause"}
      BY <1>2 DEF Orderly
    <2>2. PICK more : IsSeq(more) /\ (\A x \in Work(more) : x.do # "pause") /\ Following(w, more)
      BY <1>2 DEF Orderly
    <2>3. ~Doing(w, "pause")
      BY <2>1 DEF Doing, Idle
    <2>4. ASSUME Doing(w, "pause")' PROVE FALSE
      <3>1. job'[w] # <<>> /\ Head(job'[w]).do = "pause"
        BY <2>4 DEF Doing, Idle
      <3>2. CASE job[w] = <<>>
        <4>1. job'[w] = more
          BY <2>2, <3>2 DEF Following
        <4> QED BY <2>2, <3>1, <4>1, WorkOfRest
      <3>3. CASE job[w] # <<>>
        <4> DEFINE j == job[w]
                   t == more \o Tail(j)
        <4>1. job'[w] = t
          BY <2>2, <3>3 DEF Following
        <4>2. /\ Len(more) \in Nat /\ Len(j) \in Nat /\ Len(j) > 0 /\ Len(t) = Len(more) + Len(j) - 1
              /\ \A i \in 1 .. Len(more) : t[i] = more[i]
              /\ \A i \in 2 .. Len(j) : t[Len(more) + i - 1] = j[i]
          BY <1>1, <2>2, <3>3, JoinedAt
        <4>3. Head(t) = t[1] /\ Len(t) > 0
          BY <1>1, <3>1, <4>1, WorkOfRest
        <4>4. CASE Len(more) > 0
          <5>1. t[1] = more[1] /\ more[1] \in Work(more)
            BY <4>2, <4>4 DEF Work
          <5> QED BY <2>2, <3>1, <4>1, <4>3, <5>1
        <4>5. CASE Len(more) = 0
          <5>1. 2 \in 2 .. Len(j) /\ 2 \in 1 .. Len(j) /\ Len(more) + 2 - 1 = 1
            BY <4>2, <4>3, <4>5
          <5>2. t[1] = j[2]
            BY <4>2, <5>1
          <5>3. j[2].do # "pause"
            BY <5>1 DEF OrderOK
          <5> QED BY <3>1, <4>1, <4>3, <5>2, <5>3
        <4> QED BY <4>2, <4>4, <4>5
      <3> QED BY <3>2, <3>3
    <2> QED BY <2>3, <2>4
  <1> QED BY <1>2

LEMMA NothingOldest == \A n : Oldest({}, n) = {}
  BY DEF Oldest

LEMMA EvenKeepsOrder ==
  ASSUME JobsOK, \A w \in Workers : OrderOK(job[w], Selling), Selling \subseteq Selling', Orderly
  PROVE  \A w \in Workers : OrderOK(job'[w], Selling')
  <1> SUFFICES ASSUME NEW w \in Workers PROVE OrderOK(job'[w], Selling')
    OBVIOUS
  <1> DEFINE S == Selling
             T == Selling'
  <1>1. OrderOK(job[w], T)
    <2>1. OrderOK(job[w], S) /\ S \subseteq T
      OBVIOUS
    <2> HIDE DEF S, T
    <2> QED BY <2>1, OrderGrows
  <1>2. CASE job'[w] = job[w]
    BY <1>1, <1>2
  <1>3. CASE job'[w] # job[w]
    <2>1. PICK more : IsSeq(more) /\ OrderOK(more, T) /\ Following(w, more)
      BY <1>3 DEF Orderly
    <2>2. job[w] # <<>> => OrderOK(more \o Tail(job[w]), T)
      BY <1>1, <2>1, JobsAreSeqs, OrderJoined
    <2> QED BY <2>1, <2>2 DEF Following
  <1> QED BY <1>2, <1>3

LEMMA EvenKeepsPauses ==
  ASSUME Base, Base', PauseInv, Brief, Even
  PROVE  /\ \A w \in Workers : \A s : Pausing(w, s) => Pausing(w, s)'
         /\ \A w \in Workers : Doing(w, "pause")' => \E s : Pausing(w, s)'
  <1>1. \A w \in Workers : OrderOK(job[w], Selling)
    BY DEF PauseInv
  <1>2. ASSUME NEW w \in Workers, NEW s, Pausing(w, s) PROVE Pausing(w, s)'
    <2>1. Doing(w, "pause")
      BY <1>2 DEF Pausing
    <2>2. job'[w] = job[w]
      BY <1>1, <2>1, NoNewPause DEF Base, Even
    <2>3. db'.cloud = db.cloud
      BY <2>1 DEF Even, CloudsEven
    <2>4. CloudsOf(s)' = CloudsOf(s) /\ ActiveOf(s)' = ActiveOf(s) /\ OldestOf(s)' = OldestOf(s)
      BY <2>3 DEF CloudsOf, ActiveOf, OldestOf
    <2>5. This(w)' = This(w) /\ Doing(w, "pause")'
      BY <2>1, <2>2 DEF This, Doing, Idle
    <2>6. hist.touched \subseteq hist'.touched
      BY DEF Even
    <2> QED BY <1>2, <2>4, <2>5, <2>6 DEF Pausing
  <1>3. ASSUME NEW w \in Workers, Doing(w, "pause")' PROVE \E s : Pausing(w, s)'
    <2>1. job'[w] = job[w]
      BY <1>1, <1>3, NoNewPause DEF Base, Even
    <2>2. Doing(w, "pause")
      BY <1>3, <2>1 DEF Doing, Idle
    <2>3. PICK s : Pausing(w, s)
      BY <2>2 DEF PauseInv
    <2> QED BY <1>2, <2>3
  <1> QED BY <1>2, <1>3

LEMMA EvenKeepsPaused ==
  ASSUME Base, Base', PauseInv, Brief, Even, NEW s \in Spaces, s \notin hist'.touched
  PROVE  Paused(s)'
  <1>1. s \notin hist.touched /\ Paused(s) /\ Grounded
    BY DEF Even, PauseInv
  <1>2. CASE CloudsOf(s)' = {}
    <2>1. ActiveOf(s)' = {} /\ OldestOf(s)' = {}
      BY <1>2, NothingOldest DEF ActiveOf, OldestOf
    <2> QED BY <2>1 DEF Paused
  <1>3. CASE CloudsOf(s)' # {}
    <2>1. SameClouds(s)
      BY <1>3 DEF Even, CloudsEven, SameClouds, CloudsOf, ActiveOf
    <2>2. OldestOf(s)' = OldestOf(s)
      BY <2>1 DEF SameClouds, OldestOf
    <2>3. db.space[s].type # "unborn"
      BY <1>1, <1>3, <2>1 DEF SameClouds, CloudsOf, Grounded
    <2>4. CASE ActiveOf(s) = OldestOf(s)
      BY <2>1, <2>2, <2>4 DEF Paused, SameClouds
    <2>5. CASE \E w \in Workers : Pausing(w, s)
      BY <2>5, EvenKeepsPauses DEF Paused
    <2>6. CASE ActiveOf(s) = CloudsOf(s) /\ (FreePlan(s) => \E w \in Workers : Owed(job[w], s))
      <3>1. ActiveOf(s)' = CloudsOf(s)'
        BY <2>1, <2>6 DEF SameClouds
      <3>2. ASSUME FreePlan(s)' PROVE \E w \in Workers : Owed(job'[w], s)
        <4>1. CASE FreePlan(s)
          <5>1. PICK w \in Workers : Owed(job[w], s)
            BY <2>6, <4>1
          <5>2. CASE job'[w] = job[w]
            BY <5>1, <5>2
          <5>3. CASE job'[w] # job[w]
            <6>1. job[w] = <<>> \/ Head(job[w]).do \notin {"reconcile", "pause"}
              BY <5>3 DEF Even, Orderly
            <6>2. PICK more : IsSeq(more) /\ Following(w, more)
              BY <5>3 DEF Even, Orderly
            <6>3. job[w] # <<>>
              BY <5>1, OrderOfNone DEF Owed
            <6>4. Owed(more \o Tail(job[w]), s)
              BY <5>1, <6>1, <6>2, <6>3, JobsAreSeqs, OwedStays DEF Base
            <6> QED BY <6>2, <6>3, <6>4 DEF Following
          <5> QED BY <5>2, <5>3
        <4>2. CASE ~FreePlan(s)
          BY <2>3, <3>2, <4>2 DEF Even, SpacesEven
        <4> QED BY <4>1, <4>2
      <3> QED BY <3>1, <3>2 DEF Paused
    <2> QED BY <1>1, <2>4, <2>5, <2>6 DEF Paused
  <1> QED BY <1>2, <1>3

LEMMA EvenKeepsInv ==
  ASSUME Base, Base', PauseInv, Even, Grows
  PROVE  PauseInv'
  <1> SUFFICES ASSUME Brief' PROVE PauseInv'
    BY DEF PauseInv
  <1>1. Brief
    BY DEF Brief, Barring, Grows
  <1>2. ShapeOK' /\ StripeGood'
    BY DEF Even, StripeEven
  <1>3. Grounded'
    <2> SUFFICES ASSUME NEW c \in Clouds, db'.cloud[c].of \in Spaces
                 PROVE  db'.space[db'.cloud[c].of].type # "unborn"
      BY DEF Grounded
    <2> DEFINE s == db'.cloud[c].of
    <2>1. db.space[s].type # "unborn"
      BY <1>1 DEF PauseInv, Grounded, Even, CloudsEven
    <2> HIDE DEF s
    <2> QED BY <2>1 DEF Even, SpacesEven, s
  <1>4. \A w \in Workers : OrderOK(job'[w], Selling')
    BY <1>1, EvenKeepsOrder DEF PauseInv, Base, Even, StripeEven
  <1>5. \A w \in Workers : Doing(w, "pause")' => \E s : Pausing(w, s)'
    BY <1>1, EvenKeepsPauses
  <1>6. \A s \in Spaces \ hist'.touched : Paused(s)'
    BY <1>1, EvenKeepsPaused
  <1> QED BY <1>2, <1>3, <1>4, <1>5, <1>6 DEF PauseInv

(************************* billing, step by step ***************************)
LEMMA OrderlyStill ==
  ASSUME UNCHANGED job
  PROVE  Orderly
  BY DEF Orderly

LEMMA OrderlyFrom ==
  ASSUME Base, NEW w \in Workers, job[w] = <<>>, NEW more, job' = [job EXCEPT ![w] = more],
         IsSeq(more), OrderOK(more, Selling'), \A x \in Work(more) : x.do # "pause"
  PROVE  Orderly
  <1>1. Following(w, more)
    BY DEF Following, Base, JobsOK
  <1>2. \A v \in Workers : v # w => job'[v] = job[v]
    BY DEF Base, JobsOK
  <1> QED BY <1>1, <1>2 DEF Orderly

LEMMA OrderlyStart ==
  ASSUME Base, NEW w \in Workers, NEW a, Begin(w, <<a>>),
         a.do \notin {"save", "pause", "upgrade", "completed", "updated", "erase"}
  PROVE  Orderly /\ Untouching
  <1>1. job' = [job EXCEPT ![w] = <<a>>] /\ job[w] = <<>> /\ hist' = Noting(Spend, Crowded)
    BY DEF Begin, Idle
  <1>2. IsSeq(<<a>>) /\ \A x \in Work(<<a>>) : x.do \notin {"save", "pause", "upgrade", "completed", "updated", "erase"}
    BY WorkOfOne
  <1>3. OrderOK(<<a>>, Selling') /\ \A x \in Work(<<a>>) : x.do # "pause"
    BY <1>2, OrderOfPlain
  <1> QED BY <1>1, <1>2, <1>3, OrderlyFrom, TouchingNothing DEF Base

LEMMA OrderlyStartTwo ==
  ASSUME Base, NEW w \in Workers, NEW a, NEW b, Begin(w, <<a, b>>),
         a.do \notin {"save", "pause", "upgrade", "completed", "updated", "erase"},
         b.do \notin {"save", "pause", "upgrade", "completed", "updated", "erase"}
  PROVE  Orderly /\ Untouching
  <1>1. job' = [job EXCEPT ![w] = <<a, b>>] /\ job[w] = <<>> /\ hist' = Noting(Spend, Crowded)
    BY DEF Begin, Idle
  <1>2. IsSeq(<<a, b>>) /\ \A x \in Work(<<a, b>>) : x.do \notin {"save", "pause", "upgrade", "completed", "updated", "erase"}
    BY WorkOfTwo
  <1>3. OrderOK(<<a, b>>, Selling') /\ \A x \in Work(<<a, b>>) : x.do # "pause"
    BY <1>2, OrderOfPlain
  <1> QED BY <1>1, <1>2, <1>3, OrderlyFrom, TouchingNothing DEF Base

LEMMA OrderlyOn ==
  ASSUME Base, NEW w \in Workers, NEW d, d \notin {"reconcile", "pause"}, Doing(w, d), NEW more, Proceed(w, more),
         IsSeq(more), OrderOK(more, Selling'), \A x \in Work(more) : x.do # "pause"
  PROVE  Orderly
  <1>1. job' = [job EXCEPT ![w] = more \o Tail(job[w])] /\ job[w] # <<>> /\ Head(job[w]).do = d
    BY DEF Proceed, Doing, Idle
  <1>2. Following(w, more)
    BY <1>1 DEF Following, Base, JobsOK
  <1>3. \A v \in Workers : v # w => job'[v] = job[v]
    BY <1>1 DEF Base, JobsOK
  <1> QED BY <1>1, <1>2, <1>3 DEF Orderly

LEMMA OrderlyDone ==
  ASSUME Base, NEW w \in Workers, NEW d, d \notin {"reconcile", "pause"}, Doing(w, d), Proceed(w, <<>>)
  PROVE  Orderly
  BY WorkOfNone, OrderOfNone, OrderlyOn

LEMMA OrderlyNext ==
  ASSUME Base, NEW w \in Workers, NEW d, d \notin {"reconcile", "pause"}, Doing(w, d), NEW a, Proceed(w, <<a>>),
         a.do \notin {"save", "pause", "upgrade", "completed", "updated", "erase"}
  PROVE  Orderly
  <1>1. IsSeq(<<a>>) /\ \A x \in Work(<<a>>) : x.do \notin {"save", "pause", "upgrade", "completed", "updated", "erase"}
    BY WorkOfOne
  <1>2. OrderOK(<<a>>, Selling') /\ \A x \in Work(<<a>>) : x.do # "pause"
    BY <1>1, OrderOfPlain
  <1> QED BY <1>1, <1>2, OrderlyOn

(* What is to be done next, and after it. *)
LEMMA NextIs ==
  ASSUME JobsOK, NEW w \in Workers, NEW S, OrderOK(job[w], S), NEW d, Doing(w, d)
  PROVE  /\ d = "upgrade" => This(w).tier # "free"
         /\ d = "erase" => ~This(w).broke
         /\ d \in {"completed", "updated"} => Selected(This(w).ev, S)
         /\ d = "save" /\ This(w).tier = "free" =>
               2 \in 2 .. Len(job[w]) /\ job[w][2] = Reconciling(This(w).of)
  <1>1. job[w] # <<>> /\ Head(job[w]).do = d /\ IsSeq(job[w])
    BY JobsAreSeqs DEF Doing, Idle
  <1>2. Head(job[w]) = job[w][1] /\ Len(job[w]) \in Nat /\ Len(job[w]) > 0 /\ This(w) = job[w][1]
    BY <1>1, WorkOfRest DEF This
  <1>3. 1 \in 1 .. Len(job[w]) /\ 1 + 1 = 2
    BY <1>2
  <1>4. /\ This(w).do = "save" /\ This(w).tier = "free" => 1 < Len(job[w]) /\ job[w][2] = Reconciling(This(w).of)
        /\ This(w).do = "upgrade" => This(w).tier # "free"
        /\ This(w).do = "erase" => ~This(w).broke
        /\ This(w).do \in {"completed", "updated"} => Selected(This(w).ev, S)
    BY <1>2, <1>3 DEF OrderOK
  <1> QED BY <1>1, <1>2, <1>4 DEF This

(* The documents, as they are or with what does not matter changed.        *)
LEMMA EvenStill ==
  ASSUME ShapeOK, UNCHANGED db
  PROVE  ShapeOK' /\ CloudsEven /\ SpacesEven
  BY DEF ShapeOK, CloudsEven, SpacesEven, FreePlan, Live

LEMMA EvenUndisturbed ==
  ASSUME Undisturbed
  PROVE  ShapeOK' /\ CloudsEven /\ SpacesEven
  BY DEF Undisturbed, SpaceKept, CloudsEven, SpacesEven, FreePlan, Live

LEMMA StripeStill ==
  ASSUME StripeGood, UNCHANGED stripe
  PROVE  StripeEven
  BY DEF StripeGood, StripeEven, Selling, Selected

LEMMA SideIsEven ==
  ASSUME Base, ShapeOK, StripeGood, Bystander, Brief'
  PROVE  Even
  <1>1. "failed" \notin hist'.lapses
    BY DEF Brief, Barring
  <1>2. Undisturbed /\ UNCHANGED stripe /\ Untouching /\ Busied(SideWork)
    BY <1>1 DEF Bystander
  <1>3. Orderly
    <2> SUFFICES ASSUME NEW v \in Workers, job'[v] # job[v]
                 PROVE  /\ job[v] = <<>> \/ Head(job[v]).do \notin {"reconcile", "pause"}
                        /\ \E more : /\ IsSeq(more) /\ OrderOK(more, Selling') /\ \A x \in Work(more) : x.do # "pause"
                                     /\ Following(v, more)
      BY DEF Orderly
    <2>1. job[v] = <<>> \/ Head(job[v]).do \in SideWork
      BY <1>2 DEF Busied
    <2>2. PICK more : IsSeq(more) /\ (\A x \in Work(more) : x.do \in SideWork) /\ Following(v, more)
      BY <1>2 DEF Busied
    <2>3. \A x \in SideWork : x \notin {"save", "pause", "reconcile", "upgrade", "completed", "updated", "erase"}
      BY DEF SideWork, BudgetWork, SeatWork
    <2>4. OrderOK(more, Selling') /\ \A x \in Work(more) : x.do # "pause"
      BY <2>2, <2>3, OrderOfPlain
    <2> QED BY <2>1, <2>2, <2>3, <2>4
  <1> QED BY <1>2, <1>3, EvenUndisturbed, StripeStill DEF Even, Untouching

LEMMA TellsWell ==
  ASSUME StripeOK, StripeGood, NEW k \in Subs, NEW sub, DOMAIN sub = {"plan", "state", "of"}, sub.plan # "free",
         NEW open, \A c \in open : c.plan # "free", NEW kind, Tells(kind, k, sub, open)
  PROVE  StripeEven
  <1> DEFINE e == Event(kind, k, sub.of, sub)
  <1>1. stripe' = [stripe EXCEPT !.sub[k] = sub, !.open = open, !.sent = stripe.sent + 1,
                                 !.mail = stripe.mail \cup {e}]
    BY DEF Tells
  <1>2. e.plan = sub.plan /\ e.sub = k
    BY DEF Event
  <1> HIDE DEF e
  <1>3. /\ stripe'.sub = [stripe.sub EXCEPT ![k] = sub] /\ stripe'.open = open
        /\ stripe'.mail = stripe.mail \cup {e}
    BY <1>1 DEF StripeOK, MailFields
  <1>4. DOMAIN stripe'.sub = Subs /\ stripe'.sub[k] = sub /\ \A x \in Subs : x # k => stripe'.sub[x] = stripe.sub[x]
    BY <1>3 DEF StripeGood
  <1>5. k \in Selling' /\ Selling \subseteq Selling'
    BY <1>4 DEF Selling
  <1>6. \A x \in Subs : DOMAIN stripe'.sub[x] = {"plan", "state", "of"}
    BY <1>4 DEF StripeGood
  <1>7. \A x \in Subs : stripe'.sub[x].state \in {"active", "past_due"} => x \in Selling'
    BY <1>4, <1>5 DEF StripeGood
  <1>8. \A x \in stripe'.mail : x.kind # "deleted" => Selected(x, Selling')
    BY <1>2, <1>3, <1>5 DEF StripeGood, Selected
  <1> QED BY <1>3, <1>4, <1>5, <1>6, <1>7, <1>8 DEF StripeEven, StripeGood

LEMMA StripeLess ==
  ASSUME StripeGood, stripe'.sub = stripe.sub, stripe'.open = stripe.open, stripe'.mail \subseteq stripe.mail
  PROVE  StripeEven
  BY DEF StripeGood, StripeEven, Selling, Selected

LEMMA CheckoutEven ==
  ASSUME Base, ShapeOK, StripeGood, NEW u, NEW plan \in SelfServe, Checkout(u, plan)
  PROVE  Even
  <1>1. PICK s : /\ AtOnce /\ db' = [db EXCEPT !.space[s].cust = TRUE]
                 /\ stripe' = [stripe EXCEPT !.open = @ \cup {[of |-> s, plan |-> plan]}]
    BY DEF Checkout
  <1>2. StripeEven
    <2>1. stripe'.sub = stripe.sub /\ stripe'.mail = stripe.mail /\ stripe'.open = stripe.open \cup {[of |-> s, plan |-> plan]}
      BY <1>1 DEF Base, StripeOK, MailFields
    <2>2. [of |-> s, plan |-> plan].plan # "free"
      BY DEF SelfServe
    <2> QED BY <2>1, <2>2 DEF StripeGood, StripeEven, Selling, Selected
  <1>3. Undisturbed
    <2>1. db'.cloud = db.cloud /\ db'.cred = db.cred /\ db'.active = db.active
      BY <1>1 DEF Base, DbOK, DbFields
    <2>2. db'.space = [db.space EXCEPT ![s].cust = TRUE]
      BY <1>1 DEF Base, DbOK, DbFields
    <2>3. DOMAIN db'.space = Spaces /\ \A x \in Spaces : DOMAIN db'.space[x] = DOMAIN NoSpace /\ SpaceKept(x)
      BY <2>2 DEF ShapeOK, SpaceKept, NoSpace
    <2> QED BY <2>1, <2>3 DEF ShapeOK, Undisturbed
  <1>4. Orderly /\ Untouching
    BY <1>1, OrderlyStill, TouchingNothing DEF AtOnce, Base
  <1> QED BY <1>2, <1>3, <1>4, EvenUndisturbed DEF Even, Untouching

LEMMA PayEven ==
  ASSUME Base, ShapeOK, StripeGood, NEW c \in stripe.open, Pay(c)
  PROVE  Even
  <1> DEFINE fresh == {k \in Subs : stripe.sub[k].state = "none"}
             sub   == [plan |-> c.plan, state |-> "active", of |-> c.of]
  <1>1. /\ fresh # {} /\ Tells("completed", Least(fresh), sub, stripe.open \ {c})
        /\ UNCHANGED <<db, job, hist>>
    BY DEF Pay
  <1>2. Least(fresh) \in Subs
    <2>1. fresh \in SUBSET Nat /\ fresh \subseteq Subs
      BY DocumentsOK
    <2> HIDE DEF fresh
    <2> QED BY <1>1, <2>1, LeastIsIn
  <1>3. DOMAIN sub = {"plan", "state", "of"} /\ sub.plan # "free"
    BY DEF StripeGood
  <1>4. \A x \in stripe.open \ {c} : x.plan # "free"
    BY DEF StripeGood
  <1> HIDE DEF fresh, sub
  <1>5. StripeEven
    BY <1>1, <1>2, <1>3, <1>4, TellsWell DEF Base
  <1> QED BY <1>1, <1>5, EvenStill, OrderlyStill DEF Even

LEMMA SubChanged ==
  ASSUME StripeGood, NEW k \in Subs, k \in Selling, NEW x
  PROVE  /\ DOMAIN [stripe.sub[k] EXCEPT !.state = x] = {"plan", "state", "of"}
         /\ [stripe.sub[k] EXCEPT !.state = x].plan # "free"
         /\ DOMAIN [stripe.sub[k] EXCEPT !.plan = x] = {"plan", "state", "of"}
         /\ [stripe.sub[k] EXCEPT !.plan = x].plan = x
  BY DEF StripeGood, Selling

LEMMA PortalEven ==
  ASSUME Base, ShapeOK, StripeGood, NEW u, NEW k \in Subs, NEW change \in SelfServe \cup {"cancel"}, Portal(u, k, change)
  PROVE  Even
  <1>1. /\ AtOnce /\ UNCHANGED db /\ stripe.sub[k].state = "active"
        /\ \/ Tells("deleted", k, [stripe.sub[k] EXCEPT !.state = "dead"], stripe.open)
           \/ change \in SelfServe /\ Tells("updated", k, [stripe.sub[k] EXCEPT !.plan = change], stripe.open)
    BY Zenon DEF Portal
  <1>2. k \in Selling
    BY <1>1 DEF StripeGood
  <1>3. \A x \in stripe.open : x.plan # "free"
    BY DEF StripeGood
  <1>4. CASE Tells("deleted", k, [stripe.sub[k] EXCEPT !.state = "dead"], stripe.open)
    <2>1. PICK sub : DOMAIN sub = {"plan", "state", "of"} /\ sub.plan # "free" /\ Tells("deleted", k, sub, stripe.open)
      BY <1>2, <1>4, SubChanged
    <2>2. StripeEven
      BY <1>3, <2>1, TellsWell DEF Base
    <2> QED BY <1>1, <2>2, EvenStill, OrderlyStill, TouchingNothing DEF Even, AtOnce, Base, Untouching
  <1>5. CASE change \in SelfServe /\ Tells("updated", k, [stripe.sub[k] EXCEPT !.plan = change], stripe.open)
    <2>0. change # "free"
      BY <1>5 DEF SelfServe
    <2>1. PICK sub : DOMAIN sub = {"plan", "state", "of"} /\ sub.plan # "free" /\ Tells("updated", k, sub, stripe.open)
      BY <1>2, <1>5, <2>0, SubChanged
    <2>2. StripeEven
      BY <1>3, <2>1, TellsWell DEF Base
    <2> QED BY <1>1, <2>2, EvenStill, OrderlyStill, TouchingNothing DEF Even, AtOnce, Base, Untouching
  <1> QED BY <1>1, <1>4, <1>5

LEMMA DunningEven ==
  ASSUME Base, ShapeOK, StripeGood, NEW k \in Subs, Dunning(k)
  PROVE  Even
  <1>1. /\ stripe.sub[k].state \in {"active", "past_due"} /\ hist' = Spend /\ UNCHANGED <<db, job>>
        /\ \E x : Tells("updated", k, [stripe.sub[k] EXCEPT !.state = x], stripe.open)
    BY DEF Dunning
  <1>2. k \in Selling /\ \A x \in stripe.open : x.plan # "free"
    BY <1>1 DEF StripeGood
  <1>3. PICK sub : DOMAIN sub = {"plan", "state", "of"} /\ sub.plan # "free" /\ Tells("updated", k, sub, stripe.open)
    BY <1>1, <1>2, SubChanged
  <1>4. StripeEven
    BY <1>2, <1>3, TellsWell DEF Base
  <1> QED BY <1>1, <1>4, EvenStill, OrderlyStill, TouchingNothing DEF Even, Base, Untouching

LEMMA DeliverEven ==
  ASSUME Base, ShapeOK, StripeGood, NEW w \in Workers, NEW e, Deliver(w, e)
  PROVE  Even
  <1>1. Idle(w) /\ e \in stripe.mail /\ UNCHANGED db
    BY DEF Deliver
  <1>2. CASE e.id \in stripe.done
    <2>1. stripe' = [stripe EXCEPT !.mail = @ \ {e}] /\ UNCHANGED <<job, hist>>
      BY <1>2 DEF Deliver
    <2>2. StripeEven
      BY <2>1, StripeLess DEF Base, StripeOK, MailFields
    <2> QED BY <1>1, <2>1, <2>2, EvenStill, OrderlyStill DEF Even
  <1>3. CASE e.id \notin stripe.done
    <2>1. /\ job' = [job EXCEPT ![w] = Handling(e)] /\ UNCHANGED stripe /\ \E more : With(more)
      BY <1>3, Zenon DEF Deliver
    <2>2. e.kind \in {"completed", "updated", "deleted"} /\ (e.kind # "deleted" => Selected(e, Selling))
      BY <1>1 DEF Base, StripeOK, StripeGood
    <2>3. StripeEven /\ Selling' = Selling
      BY <2>1, StripeStill DEF Selling
    <2> DEFINE a == [do |-> e.kind, ev |-> e]
               b == [do |-> "mark", ev |-> e]
    <2>4. Handling(e) = <<a, b>> /\ a.do = e.kind /\ a.ev = e /\ b.do = "mark"
      BY DEF Handling
    <2> HIDE DEF a, b
    <2>5. IsSeq(<<a, b>>) /\ Work(<<a, b>>) = {a, b}
      BY WorkOfTwo
    <2>6. OrderOK(<<a, b>>, Selling')
      BY <2>2, <2>3, <2>4, WorkOfTwo DEF OrderOK
    <2>7. \A x \in Work(<<a, b>>) : x.do # "pause"
      BY <2>2, <2>4, <2>5
    <2>8. Orderly
      BY <1>1, <2>1, <2>4, <2>5, <2>6, <2>7, OrderlyFrom DEF Idle
    <2> QED BY <1>1, <2>1, <2>3, <2>8, EvenStill, TouchingNothing DEF Even, With, Base, Untouching
  <1> QED BY <1>2, <1>3

LEMMA CompletedEven ==
  ASSUME Base, ShapeOK, StripeGood, NEW w \in Workers, OrderOK(job[w], Selling), Completed(w)
  PROVE  Even
  <1>1. Doing(w, "completed") /\ Clean /\ UNCHANGED <<db, stripe>>
    BY DEF Completed
  <1>2. Selected(This(w).ev, Selling)
    BY <1>1, NextIs DEF Base
  <1>3. PICK tier : tier # "free" /\ Proceed(w, <<[do |-> "upgrade", ev |-> This(w).ev, tier |-> tier]>>)
    BY <1>2 DEF Completed, Selected, Selling
  <1> DEFINE a == [do |-> "upgrade", ev |-> This(w).ev, tier |-> tier]
  <1>4. a.do = "upgrade" /\ a.tier = tier
    OBVIOUS
  <1> HIDE DEF a
  <1>5. IsSeq(<<a>>) /\ Work(<<a>>) = {a} /\ Len(<<a>>) = 1 /\ <<a>>[1] = a
    BY WorkOfOne
  <1>6. OrderOK(<<a>>, Selling') /\ \A x \in Work(<<a>>) : x.do # "pause"
    BY <1>3, <1>4, <1>5 DEF OrderOK
  <1>7. Proceed(w, <<a>>)
    BY <1>3 DEF a
  <1>8. Orderly
    BY <1>1, <1>5, <1>6, <1>7, OrderlyOn
  <1> QED BY <1>1, <1>8, EvenStill, StripeStill, TouchingNothing DEF Even, Base, Clean, Untouching

LEMMA UpgradeEven ==
  ASSUME Base, ShapeOK, StripeGood, NEW w \in Workers, OrderOK(job[w], Selling), Upgrade(w)
  PROVE  Even
  <1>1. Doing(w, "upgrade") /\ Proceed(w, <<>>) /\ Compared /\ UNCHANGED stripe
    <2>1. PICK s, tier : hist' = Outgrown(hist, s, tier)
      BY Zenon DEF Upgrade
    <2>2. Compared
      BY <2>1, OutgrownOnly DEF Compared
    <2> QED BY <2>2 DEF Upgrade
  <1>2. This(w).tier # "free"
    BY <1>1, NextIs DEF Base
  <1>3. ShapeOK' /\ CloudsEven /\ SpacesEven
    <2>1. CASE UNCHANGED db
      BY <2>1, EvenStill
    <2>2. CASE db' # db
      <3>1. PICK s, sub, tier : /\ tier # "free"
                                /\ db' = [db EXCEPT !.space[s].tier = tier, !.space[s].sub = sub, !.space[s].cust = TRUE]
        BY <1>2, <2>2, Zenon DEF Upgrade
      <3>2. \A f \in DbFields \ {"space"} : db'[f] = db[f]
        BY <3>1 DEF Base, DbOK, DbFields
      <3>3. db'.cloud = db.cloud /\ db'.cred = db.cred /\ db'.active = db.active
        BY <3>2 DEF DbFields
      <3>4. /\ DOMAIN db'.space = Spaces
            /\ \A x \in Spaces : /\ DOMAIN db'.space[x] = DOMAIN NoSpace /\ db'.space[x].type = db.space[x].type
                                 /\ db'.space[x].tier \in {db.space[x].tier, tier}
        BY <3>1 DEF Base, DbOK, DbFields, ShapeOK, NoSpace
      <3> QED BY <3>1, <3>3, <3>4 DEF ShapeOK, CloudsEven, SpacesEven, FreePlan, Live
    <2> QED BY <2>1, <2>2
  <1> QED BY <1>1, <1>3, OrderlyDone, StripeStill, ComparedNothing DEF Even, Base, Untouching

LEMMA SpaceTiers ==
  ASSUME ShapeOK, DbOK, DOMAIN db' = DOMAIN db, \A f \in DbFields \ {"space"} : db'[f] = db[f],
         DOMAIN db'.space = Spaces, \A s \in Spaces : DOMAIN db'.space[s] = DOMAIN NoSpace
  PROVE  ShapeOK' /\ CloudsEven
  BY DEF ShapeOK, CloudsEven, DbFields, DbOK

LEMMA SavesThenReconciles ==
  ASSUME NEW a, a.do = "save", NEW s, a.of = s, NEW S
  PROVE  /\ OrderOK(<<a, Reconciling(s)>>, S)
         /\ IsSeq(<<a, Reconciling(s)>>) /\ \A x \in Work(<<a, Reconciling(s)>>) : x.do # "pause"
         /\ a.tier # "free" => /\ OrderOK(<<a>>, S) /\ IsSeq(<<a>>)
                               /\ \A x \in Work(<<a>>) : x.do # "pause"
  <1> DEFINE b == Reconciling(s)
  <1>1. b = Reconciling(a.of) /\ b.do = "reconcile"
    BY DEF Reconciling
  <1> HIDE DEF b
  <1>2. OrderOK(<<a, b>>, S) /\ IsSeq(<<a, b>>) /\ \A x \in Work(<<a, b>>) : x.do # "pause"
    BY <1>1, WorkOfTwo DEF OrderOK
  <1>3. a.tier # "free" => OrderOK(<<a>>, S) /\ IsSeq(<<a>>) /\ \A x \in Work(<<a>>) : x.do # "pause"
    BY WorkOfOne DEF OrderOK
  <1> QED BY <1>2, <1>3 DEF b

LEMMA SavesThreeSteps ==
  ASSUME NEW a, a.do = "save", NEW b, b = Reconciling(a.of), NEW c, c.do = "orgs", NEW S
  PROVE  /\ OrderOK(<<a, b, c>>, S)
         /\ IsSeq(<<a, b, c>>) /\ \A x \in Work(<<a, b, c>>) : x.do # "pause"
  <1>1. b.do = "reconcile"
    BY DEF Reconciling
  <1>2. <<a, b, c>> \in Seq({a, b, c}) /\ Len(<<a, b, c>>) = 3
    OBVIOUS
  <1>3. Work(<<a, b, c>>) = {a, b, c}
    BY DEF Work
  <1>4. OrderOK(<<a, b, c>>, S)
    BY <1>1, <1>2 DEF OrderOK
  <1> QED BY <1>1, <1>2, <1>3, <1>4 DEF IsSeq

LEMMA OrderAppended ==
  ASSUME NEW s, IsSeq(s), NEW a, a.do \notin {"save", "pause", "upgrade", "completed", "updated", "erase"}, NEW S,
         OrderOK(s, S), \A x \in Work(s) : x.do # "pause"
  PROVE  /\ OrderOK(s \o <<a>>, S) /\ IsSeq(s \o <<a>>)
         /\ \A x \in Work(s \o <<a>>) : x.do # "pause"
  <1>1. IsSeq(<<a>>) /\ Work(<<a>>) = {a}
    BY WorkOfOne
  <1>2. IsSeq(s \o <<a>>) /\ Work(s \o <<a>>) = Work(s) \cup {a}
    BY <1>1, WorkJoined
  <1>3. s \in Seq(Work(s) \cup {a}) /\ <<a>> \in Seq(Work(s) \cup {a}) /\ Len(<<a>>) = 1 /\ <<a>>[1] = a
    BY DEF IsSeq
  <1> DEFINE t == s \o <<a>>
             n == Len(s)
  <1>4. n \in Nat /\ Len(t) = n + 1 /\ (\A i \in 1 .. n : t[i] = s[i]) /\ t[n + 1] = a
    BY <1>3
  <1> HIDE DEF t, n
  <1>5. \A i \in 1 .. n : /\ s[i].do = "save" /\ s[i].tier = "free" => i < n /\ s[i + 1] = Reconciling(s[i].of)
                          /\ s[i].do = "pause" => i = 1
                          /\ s[i].do = "upgrade" => s[i].tier # "free"
                          /\ s[i].do \in {"completed", "updated"} => Selected(s[i].ev, S)
                          /\ s[i].do = "erase" => ~s[i].broke
    BY DEF OrderOK, n
  <1>6. \A i \in 1 .. n + 1 :
          /\ t[i].do = "save" /\ t[i].tier = "free" => i < n + 1 /\ t[i + 1] = Reconciling(t[i].of)
          /\ t[i].do = "pause" => i = 1
          /\ t[i].do = "upgrade" => t[i].tier # "free"
          /\ t[i].do \in {"completed", "updated"} => Selected(t[i].ev, S)
          /\ t[i].do = "erase" => ~t[i].broke
    <2> SUFFICES ASSUME NEW i \in 1 .. n + 1
                 PROVE  /\ t[i].do = "save" /\ t[i].tier = "free" => i < n + 1 /\ t[i + 1] = Reconciling(t[i].of)
                        /\ t[i].do = "pause" => i = 1
                        /\ t[i].do = "upgrade" => t[i].tier # "free"
                        /\ t[i].do \in {"completed", "updated"} => Selected(t[i].ev, S)
                        /\ t[i].do = "erase" => ~t[i].broke
      OBVIOUS
    <2>1. CASE i = n + 1
      BY <1>4, <2>1
    <2>2. CASE i # n + 1
      <3>1. i \in 1 .. n /\ t[i] = s[i] /\ (i < n => i + 1 \in 1 .. n /\ t[i + 1] = s[i + 1]) /\ i < n + 1
        BY <1>4, <2>2
      <3>2. /\ s[i].do = "save" /\ s[i].tier = "free" => i < n /\ s[i + 1] = Reconciling(s[i].of)
            /\ s[i].do = "pause" => i = 1
            /\ s[i].do = "upgrade" => s[i].tier # "free"
            /\ s[i].do \in {"completed", "updated"} => Selected(s[i].ev, S)
            /\ s[i].do = "erase" => ~s[i].broke
        BY <1>5, <3>1
      <3> QED BY <3>1, <3>2
    <2> QED BY <2>1, <2>2
  <1>7. OrderOK(t, S)
    BY <1>4, <1>6 DEF OrderOK
  <1> QED BY <1>2, <1>7 DEF t

LEMMA OneAndAnother ==
  ASSUME NEW a, NEW b
  PROVE  <<a>> \o <<b>> = <<a, b>> /\ <<a>> \o <<>> = <<a>>
  <1>1. <<a>> \in Seq({a, b}) /\ <<b>> \in Seq({a, b}) /\ <<a, b>> \in Seq({a, b})
    OBVIOUS
  <1>2. <<a>> \o <<b>> \in Seq({a, b})
    BY <1>1
  <1>3. Len(<<a>> \o <<b>>) = 2 /\ (<<a>> \o <<b>>)[1] = a /\ (<<a>> \o <<b>>)[2] = b
    BY <1>1
  <1>4. <<a>> \o <<b>> = <<a, b>>
    <2> DEFINE s == <<a>> \o <<b>>
               t == <<a, b>>
    <2>1. Len(t) = 2 /\ t[1] = a /\ t[2] = b
      OBVIOUS
    <2>2. s \in Seq({a, b}) /\ t \in Seq({a, b}) /\ Len(s) = 2 /\ s[1] = a /\ s[2] = b
      BY <1>1, <1>2, <1>3
    <2> HIDE DEF s, t
    <2>3. \A i \in 1 .. Len(s) : s[i] = t[i]
      BY <2>1, <2>2
    <2>4. s = t
      BY <2>1, <2>2, <2>3, SeqEqual
    <2> QED BY <2>4 DEF s, t
  <1> QED BY <1>1, <1>4, ConcatEmptySeq

LEMMA UpdatedEven ==
  ASSUME Base, ShapeOK, StripeGood, NEW w \in Workers, Updated(w)
  PROVE  Even
  <1> DEFINE e      == This(w).ev
             action == ClassifySubscriptionStatus[e.state]
             Tier(s) == CASE action = "apply" -> e.plan [] action = "downgrade" -> "free"
                          [] OTHER -> db.space[s].tier
             Steps(s) == <<SaveOf(s, Tier(s), e.sub)>>
                         \o (IF Tier(s) = "free" THEN <<Reconciling(s)>> ELSE <<>>)
                         \o (IF action = "downgrade" THEN <<[do |-> "orgs", owner |-> db.space[s].owner]>> ELSE <<>>)
             more == IF Subscriber(e.sub) = {} THEN <<>> ELSE Steps(Least(Subscriber(e.sub)))
             Fit(t) == IsSeq(t) /\ OrderOK(t, Selling') /\ \A x \in Work(t) : x.do # "pause"
  <1>1. /\ Doing(w, "updated") /\ Proceed(w, more) /\ Clean /\ UNCHANGED <<db, stripe, tab, cast>>
    BY Zenon DEF Updated
  <1>2. ASSUME NEW s PROVE Fit(Steps(s))
    <2> DEFINE a == SaveOf(s, Tier(s), e.sub)
               b == Reconciling(s)
               c == [do |-> "orgs", owner |-> db.space[s].owner]
               t == IF Tier(s) = "free" THEN <<a, b>> ELSE <<a>>
    <2>1. a.do = "save" /\ a.tier = Tier(s) /\ a.of = s /\ c.do = "orgs"
      BY DEF SaveOf
    <2> HIDE DEF Tier, action, a, c
    <2>2. Fit(t)
      BY <2>1, SavesThenReconciles
    <2>3. <<a>> \o (IF Tier(s) = "free" THEN <<b>> ELSE <<>>) = t
      <3> HIDE DEF b
      <3> QED BY OneAndAnother
    <2>4. Fit(t \o <<c>>)
      <3> HIDE DEF t
      <3> QED BY <2>1, <2>2, OrderAppended
    <2>5. t \o <<>> = t
      BY <2>2, ConcatEmptySeq DEF IsSeq
    <2>6. Steps(s) = t \o (IF action = "downgrade" THEN <<c>> ELSE <<>>)
      BY <2>3 DEF a, c
    <2> HIDE DEF t, Steps, Fit
    <2> QED BY <2>2, <2>4, <2>5, <2>6
  <1>3. Fit(<<>>)
    BY WorkOfNone, OrderOfNone
  <1>4. Fit(more)
    <2> HIDE DEF Steps, Fit
    <2> QED BY <1>2, <1>3
  <1> HIDE DEF more
  <1>5. Orderly
    BY <1>1, <1>4, OrderlyOn
  <1> QED BY <1>1, <1>5, EvenStill, StripeStill, TouchingNothing DEF Even, Base, Clean, Untouching

LEMMA DeletedEven ==
  ASSUME Base, ShapeOK, StripeGood, NEW w \in Workers, Deleted(w)
  PROVE  Even
  <1> DEFINE e == This(w).ev
             Steps(s) == <<SaveOf(s, "free", None), Reconciling(s),
                           [do |-> "orgs", owner |-> db.space[s].owner]>>
             more == IF Subscriber(e.sub) = {} THEN <<>> ELSE Steps(Least(Subscriber(e.sub)))
             Fit(t) == IsSeq(t) /\ OrderOK(t, Selling') /\ \A x \in Work(t) : x.do # "pause"
  <1>1. /\ Doing(w, "deleted") /\ Proceed(w, more) /\ Clean /\ UNCHANGED <<db, stripe, tab, cast>>
    BY Zenon DEF Deleted
  <1>2. ASSUME NEW s PROVE Fit(Steps(s))
    <2>1. SaveOf(s, "free", None).do = "save" /\ SaveOf(s, "free", None).of = s
      BY DEF SaveOf
    <2> QED BY <2>1, SavesThreeSteps
  <1>3. Fit(<<>>)
    BY WorkOfNone, OrderOfNone
  <1>4. Fit(more)
    <2> HIDE DEF Steps, Fit
    <2> QED BY <1>2, <1>3
  <1> HIDE DEF more
  <1>5. Orderly
    BY <1>1, <1>4, OrderlyOn
  <1> QED BY <1>1, <1>5, EvenStill, StripeStill, TouchingNothing DEF Even, Base, Clean, Untouching

LEMMA LookEven ==
  ASSUME Base, ShapeOK, StripeGood, NEW w \in Workers, Look(w)
  PROVE  Even
  <1>1. PICK more : /\ Doing(w, "look") /\ Proceed(w, more) /\ Compared /\ UNCHANGED <<db, stripe, tab, cast>>
                    /\ \/ more = <<>>
                       \/ \E s, doc, sub : more = <<[do |-> "save", of |-> s, was |-> doc, tier |-> "free",
                                                     sub |-> sub], Reconciling(s)>>
    <2>1. PICK reach \in [own : BOOLEAN, owner : BOOLEAN] :
            LET s == This(w).of
                doc == This(w).was
                got == doc.sub # None /\ reach.own IN
            /\ Proceed(w, IF doc.tier \notin SelfServe \/ TierIsBacked(doc, reach) THEN <<>>
                          ELSE <<[do |-> "save", of |-> s, was |-> doc, tier |-> "free",
                                  sub |-> IF got THEN doc.sub ELSE None], Reconciling(s)>>)
            /\ Compared
      BY Zenon DEF Look, Compared
    <2>2. Doing(w, "look") /\ UNCHANGED <<db, stripe, tab, cast>>
      BY Zenon DEF Look
    <2>3. CASE This(w).was.tier \notin SelfServe \/ TierIsBacked(This(w).was, reach)
      BY <2>1, <2>2, <2>3, Zenon
    <2>4. CASE ~(This(w).was.tier \notin SelfServe \/ TierIsBacked(This(w).was, reach))
      BY <2>1, <2>2, <2>4, Zenon
    <2> QED BY <2>3, <2>4
  <1>2. IsSeq(more) /\ OrderOK(more, Selling') /\ \A x \in Work(more) : x.do # "pause"
    <2>1. CASE more = <<>>
      BY <2>1, WorkOfNone, OrderOfNone
    <2>2. CASE more # <<>>
      <3>1. PICK s, doc, sub : more = <<[do |-> "save", of |-> s, was |-> doc, tier |-> "free", sub |-> sub],
                                        Reconciling(s)>>
        BY <1>1, <2>2
      <3> DEFINE a == [do |-> "save", of |-> s, was |-> doc, tier |-> "free", sub |-> sub]
      <3>2. a.do = "save" /\ a.of = s
        OBVIOUS
      <3>3. more = <<a, Reconciling(s)>>
        BY <3>1
      <3> HIDE DEF a
      <3> QED BY <3>2, <3>3, SavesThenReconciles
    <2> QED BY <2>1, <2>2
  <1>3. Orderly
    BY <1>1, <1>2, OrderlyOn
  <1> QED BY <1>1, <1>3, EvenStill, StripeStill, ComparedNothing DEF Even, Base, Untouching

LEMMA StatusAskedEven ==
  ASSUME Base, ShapeOK, StripeGood, NEW w \in Workers, NEW u, StatusAsked(w, u)
  PROVE  Even
  <1>1. PICK s : Begin(w, <<[do |-> "look", of |-> s, was |-> db.space[s]]>>) /\ UNCHANGED <<db, stripe>>
    BY DEF StatusAsked
  <1> DEFINE a == [do |-> "look", of |-> s, was |-> db.space[s]]
  <1>2. a.do = "look" /\ Begin(w, <<a>>)
    BY <1>1
  <1> HIDE DEF a
  <1>3. Orderly /\ Untouching
    BY <1>2, OrderlyStart
  <1> QED BY <1>1, <1>3, EvenStill, StripeStill DEF Even, Untouching

LEMMA CreateOrgEven ==
  ASSUME Base, ShapeOK, StripeGood, NEW w \in Workers, NEW u, CreateOrg(w, u)
  PROVE  Even
  <1>1. PICK s : /\ Begin(w, <<[do |-> "insert", owner |-> u, from |-> s, tier |-> db.space[s].tier]>>)
                 /\ UNCHANGED <<db, stripe>>
    BY Zenon DEF CreateOrg
  <1> DEFINE a == [do |-> "insert", owner |-> u, from |-> s, tier |-> db.space[s].tier]
  <1>2. a.do = "insert" /\ Begin(w, <<a>>)
    BY <1>1
  <1> HIDE DEF a
  <1>3. Orderly /\ Untouching
    BY <1>2, OrderlyStart
  <1> QED BY <1>1, <1>3, EvenStill, StripeStill DEF Even, Untouching

LEMMA MarkEven ==
  ASSUME Base, ShapeOK, StripeGood, NEW w \in Workers, Mark(w)
  PROVE  Even
  <1> DEFINE e == This(w).ev
  <1>1. PICK kept, heard :
         /\ stripe' = [stripe EXCEPT !.done = IF kept THEN @ \cup {e.id} ELSE @,
                                     !.mail = IF heard THEN @ \ {e} ELSE @]
         /\ hist' = [Noting(hist, IF kept THEN {} ELSE {"unmarked"})
                       EXCEPT !.faults = IF heard THEN @ ELSE @ - 1]
    BY Zenon DEF Mark
  <1>2. PICK more, faults : hist' = [Noting(hist, more) EXCEPT !.faults = faults]
    BY <1>1, Zenon
  <1>3. Untouching
    BY <1>2, TouchingNothing DEF Base
  <1> HIDE DEF e
  <1>4. stripe'.sub = stripe.sub /\ stripe'.open = stripe.open /\ stripe'.mail \subseteq stripe.mail
    BY <1>1 DEF Base, StripeOK, MailFields
  <1>5. Doing(w, "mark") /\ Proceed(w, <<>>) /\ UNCHANGED db
    BY DEF Mark
  <1>6. Orderly
    BY <1>5, OrderlyDone
  <1> QED BY <1>3, <1>4, <1>5, <1>6, EvenStill, StripeLess DEF Even, Untouching

LEMMA SaveEven ==
  ASSUME Base, ShapeOK, StripeGood, NEW w \in Workers, OrderOK(job[w], Selling), Save(w), Brief'
  PROVE  Even
  <1> DEFINE p == This(w)
             s == p.of
             j == job[w]
  <1>1. Live(s) /\ Doing(w, "save") /\ Proceed(w, <<>>) /\ UNCHANGED stripe
        /\ hist' = Outgrown(Noting(hist, Stale(p.was # db.space[s])), s, p.tier)
    <2>1. "failed" \notin hist'.lapses
      BY DEF Brief, Barring
    <2>2. ~Throws(w)
      BY <2>1, NotingMore DEF Throws, With, Base
    <2> QED BY <2>2 DEF Save
  <1>2. p.was = db.space[s]
    <2>1. hist'.lapses = hist.lapses \cup Stale(p.was # db.space[s])
      BY <1>1, ComparedMore DEF Base
    <2> QED BY <2>1 DEF Brief, Barring, Stale
  <1>3. db' = [db EXCEPT !.space[s].tier = IF p.tier = p.was.tier THEN @ ELSE p.tier,
                         !.space[s].sub  = IF p.sub = p.was.sub THEN @ ELSE p.sub]
    BY <1>1, Zenon DEF Save
  <1>4. Untouching
    BY <1>1, ComparedMore DEF Base, Untouching
  <1>5. Orderly
    BY <1>1, OrderlyDone
  <1>6. p.tier = "free" => Owed(job'[w], s)
    <2> SUFFICES ASSUME p.tier = "free" PROVE Owed(job'[w], s)
      OBVIOUS
    <2>1. 2 \in 2 .. Len(j) /\ j[2] = Reconciling(s)
      BY <1>1, NextIs DEF Base
    <2>2. job'[w] = <<>> \o Tail(j)
      BY <1>1 DEF Proceed, Base, JobsOK
    <2>3. IsSeq(j) /\ j # <<>>
      BY <1>1, JobsAreSeqs DEF Base, Doing, Idle
    <2> DEFINE t == <<>> \o Tail(j)
    <2>4. /\ Len(<<>>) \in Nat /\ Len(j) \in Nat /\ Len(j) > 0 /\ Len(t) = Len(<<>>) + Len(j) - 1
          /\ \A i \in 2 .. Len(j) : t[Len(<<>>) + i - 1] = j[i]
      BY <2>3, WorkOfNone, JoinedAt
    <2>5. Len(<<>>) = 0
      OBVIOUS
    <2> HIDE DEF t, s, j
    <2>6. t[1] = j[2] /\ 1 \in 1 .. Len(t)
      BY <2>1, <2>4, <2>5
    <2> QED BY <2>1, <2>2, <2>6 DEF Owed, t
  <1> HIDE DEF p, s
  <1>7. DOMAIN db' = DOMAIN db /\ \A f \in DbFields \ {"space"} : db'[f] = db[f]
    BY <1>3 DEF Base, DbOK, DbFields
  <1>8. DOMAIN db'.space = Spaces /\ \A x \in Spaces : DOMAIN db'.space[x] = DOMAIN NoSpace
    BY <1>3 DEF Base, DbOK, DbFields, ShapeOK
  <1>9. /\ \A x \in Spaces : db'.space[x].type = db.space[x].type
        /\ \A x \in Spaces : x # s => db'.space[x].tier = db.space[x].tier
        /\ s \in Spaces /\ db'.space[s].tier = p.tier
    BY <1>1, <1>2, <1>3 DEF Base, DbOK, DbFields, ShapeOK, NoSpace, Live
  <1>10. SpacesEven
    BY <1>6, <1>9 DEF SpacesEven, FreePlan, Live
  <1>11. ShapeOK' /\ CloudsEven
    BY <1>7, <1>8, SpaceTiers DEF Base
  <1> QED BY <1>1, <1>4, <1>5, <1>10, <1>11, StripeStill DEF Even, Untouching

LEMMA Halves ==
  ASSUME NEW k \in Nat, k % 2 = 1
  PROVE  (k + 1) % 2 # 1 /\ (k + 1 + 1) \div 2 = (k + 1) \div 2
  OBVIOUS

LEMMA OrgsEven ==
  ASSUME Base, ShapeOK, StripeGood, NEW w \in Workers, DowngradeOwnedOrganizations(w)
  PROVE  Even
  <1> DEFINE o     == This(w).owner
             stale == {s \in Owned(o) : db.space[s].type = "organization" /\ db.space[s].tier \in SelfServe}
             Nth(k) == CHOOSE s \in stale : Cardinality({d \in stale : d <= s}) = k
             Step(k) == LET s == Nth((k + 1) \div 2)
                        IN IF k % 2 = 1 THEN SaveOf(s, "free", db.space[s].sub) ELSE Reconciling(s)
             m      == Cardinality(stale)
             n      == 2 * m
             steps  == [k \in 1 .. n |-> Step(k)]
  <1>1. Doing(w, "orgs") /\ Proceed(w, steps) /\ Clean /\ UNCHANGED <<db, stripe, tab, cast>>
    BY Zenon DEF DowngradeOwnedOrganizations
  <1>2. m \in Nat
    <2>1. IsFiniteSet(stale)
      BY DocumentsOK, FS_Subset DEF Owned
    <2> QED BY <2>1, FS_CardinalityType
  <1>3. \A k : /\ k % 2 = 1 => Step(k) = SaveOf(Nth((k + 1) \div 2), "free", db.space[Nth((k + 1) \div 2)].sub)
               /\ k % 2 # 1 => Step(k) = Reconciling(Nth((k + 1) \div 2))
    BY Zenon
  <1> HIDE DEF m, Step, Nth
  <1>4. \A k \in 1 .. n : Step(k).do \in {"save", "reconcile"}
    <2> SUFFICES ASSUME NEW k \in 1 .. n PROVE Step(k).do \in {"save", "reconcile"}
      OBVIOUS
    <2> QED BY <1>3 DEF SaveOf, Reconciling
  <1>5. \A k \in 1 .. n : Step(k).do = "save" => k < n /\ Step(k + 1) = Reconciling(Step(k).of)
    <2> SUFFICES ASSUME NEW k \in 1 .. n, Step(k).do = "save" PROVE k < n /\ Step(k + 1) = Reconciling(Step(k).of)
      OBVIOUS
    <2>1. k % 2 = 1
      <3>1. Reconciling(Nth((k + 1) \div 2)).do # "save"
        BY DEF Reconciling
      <3> QED BY <1>3, <3>1
    <2>2. k \in Nat /\ k < n
      BY <1>2, <2>1
    <2>3. Step(k).of = Nth((k + 1) \div 2)
      BY <1>3, <2>1 DEF SaveOf
    <2>4. (k + 1) % 2 # 1 /\ (k + 1 + 1) \div 2 = (k + 1) \div 2
      BY <2>1, <2>2, Halves
    <2>5. Step(k + 1) = Reconciling(Nth((k + 1 + 1) \div 2))
      BY <1>3, <2>4
    <2> QED BY <2>2, <2>3, <2>4, <2>5
  <1>6. n \in Nat
    BY <1>2
  <1> HIDE DEF n
  <1>7. IsSeq(steps) /\ Len(steps) = n /\ \A k \in 1 .. n : steps[k] = Step(k)
    <2> DEFINE S == {Step(k) : k \in 1 .. n}
    <2>1. steps \in [1 .. n -> S]
      OBVIOUS
    <2>2. steps \in Seq(S) /\ Len(steps) = n
      BY <1>6, <2>1, SeqDef
    <2>3. Work(steps) = S
      BY <2>1, <2>2 DEF Work
    <2> QED BY <2>2, <2>3 DEF IsSeq
  <1> HIDE DEF steps
  <1>8. OrderOK(steps, Selling')
    <2> SUFFICES ASSUME NEW i \in 1 .. n
                 PROVE  /\ steps[i].do = "save" /\ steps[i].tier = "free" =>
                              i < n /\ steps[i + 1] = Reconciling(steps[i].of)
                        /\ steps[i].do = "pause" => i = 1
                        /\ steps[i].do = "upgrade" => steps[i].tier # "free"
                        /\ steps[i].do \in {"completed", "updated"} => Selected(steps[i].ev, Selling')
                        /\ steps[i].do = "erase" => ~steps[i].broke
      BY <1>7 DEF OrderOK
    <2>1. i < n => i + 1 \in 1 .. n
      BY <1>6
    <2> QED BY <1>4, <1>5, <1>7, <2>1
  <1>9. \A x \in Work(steps) : x.do # "pause"
    BY <1>4, <1>7 DEF Work
  <1>10. Orderly
    BY <1>1, <1>7, <1>8, <1>9, OrderlyOn
  <1> QED BY <1>1, <1>10, EvenStill, StripeStill, TouchingNothing DEF Even, Base, Clean, Untouching

(* A workspace is born, or changes its kind.                               *)
LEMMA BornEven ==
  ASSUME DbOK, ShapeOK, NEW s, s \in Unborn, NEW doc, doc.type \in Kinds, DOMAIN doc = DOMAIN NoSpace,
         db' = [db EXCEPT !.space[s] = doc]
  PROVE  ShapeOK' /\ CloudsEven /\ SpacesEven
  <1>1. DOMAIN db' = DOMAIN db /\ \A f \in DbFields \ {"space"} : db'[f] = db[f]
    BY DEF DbOK, DbFields
  <1>2. db'.space = [db.space EXCEPT ![s] = doc]
    BY DEF DbOK, DbFields
  <1>3. DOMAIN db'.space = Spaces /\ \A x \in Spaces : DOMAIN db'.space[x] = DOMAIN NoSpace
    BY <1>2 DEF ShapeOK
  <1>4. s \in Spaces /\ db.space[s].type = "unborn" /\ db'.space[s] = doc /\ \A x \in Spaces : x # s => db'.space[x] = db.space[x]
    BY <1>2 DEF Unborn, ShapeOK
  <1>5. SpacesEven
    BY <1>4 DEF SpacesEven, FreePlan, Live, Kinds
  <1> QED BY <1>1, <1>3, <1>5, SpaceTiers

LEMMA InsertOrgEven ==
  ASSUME Base, ShapeOK, StripeGood, NEW w \in Workers, InsertOrg(w)
  PROVE  Even
  <1> DEFINE p == This(w)
             doc == [NoSpace EXCEPT !.type = "organization", !.owner = p.owner, !.tier = p.tier]
  <1>1. db' = [db EXCEPT !.space[Least(Unborn)] = doc] /\ Unborn # {}
    BY Zenon DEF InsertOrg
  <1>2. PICK more : With(more)
    BY Zenon DEF InsertOrg
  <1>3. Doing(w, "insert") /\ Proceed(w, <<>>) /\ UNCHANGED stripe
    BY Zenon DEF InsertOrg
  <1>4. doc.type \in Kinds /\ DOMAIN doc = DOMAIN NoSpace
    BY DEF NoSpace, Kinds
  <1> HIDE DEF doc
  <1>5. ShapeOK' /\ CloudsEven /\ SpacesEven
    BY <1>1, <1>4, FreshSpace, BornEven DEF Base
  <1>6. Orderly /\ Untouching
    BY <1>2, <1>3, OrderlyDone, TouchingNothing DEF With, Base
  <1> QED BY <1>3, <1>5, <1>6, StripeStill DEF Even, Untouching

LEMMA ConvertPersonalEven ==
  ASSUME Base, ShapeOK, StripeGood, NEW u, ConvertPersonal(u)
  PROVE  Even
  <1>1. PICK s : Live(s) /\ AtOnce /\ db' = [db EXCEPT !.space[s].type = "organization"] /\ UNCHANGED stripe
    BY DEF ConvertPersonal, Personal, Owned
  <1>2. DOMAIN db' = DOMAIN db /\ \A f \in DbFields \ {"space"} : db'[f] = db[f]
    BY <1>1 DEF Base, DbOK, DbFields
  <1>3. db'.space = [db.space EXCEPT ![s].type = "organization"]
    BY <1>1 DEF Base, DbOK, DbFields
  <1>4. DOMAIN db'.space = Spaces /\ \A x \in Spaces : DOMAIN db'.space[x] = DOMAIN NoSpace
    BY <1>3 DEF ShapeOK
  <1>5. /\ \A x \in Spaces : db'.space[x].tier = db.space[x].tier
        /\ \A x \in Spaces : db'.space[x].type = IF x = s THEN "organization" ELSE db.space[x].type
    BY <1>3 DEF ShapeOK, NoSpace
  <1>6. SpacesEven
    BY <1>1, <1>5 DEF SpacesEven, FreePlan, Live, Kinds
  <1>7. Orderly /\ Untouching
    BY <1>1, OrderlyStill, TouchingNothing DEF AtOnce, Base
  <1>8. ShapeOK' /\ CloudsEven
    BY <1>2, <1>4, SpaceTiers DEF Base
  <1> QED BY <1>1, <1>6, <1>7, <1>8, StripeStill DEF Even, Untouching

(************************ cloud accounts, step by step *********************)
LEMMA OrderOfErasing ==
  ASSUME NEW more, IsSeq(more), NEW S, \A x \in Work(more) : x.do = "cancel" \/ (x.do = "erase" /\ ~x.broke)
  PROVE  OrderOK(more, S) /\ \A x \in Work(more) : x.do # "pause"
  BY DEF OrderOK, Work

LEMMA StartsEven ==
  ASSUME ShapeOK, StripeGood, Orderly, Untouching, UNCHANGED <<db, stripe>>
  PROVE  Even
  BY EvenStill, StripeStill DEF Even, Untouching

LEMMA ConnectEven ==
  ASSUME Base, ShapeOK, StripeGood, NEW w \in Workers, NEW u, Connect(w, u)
  PROVE  Even
  <1>1. PICK s : /\ Begin(w, <<[do |-> "store", of |-> s, cloud |-> None, was |-> None]>>)
                 /\ UNCHANGED <<db, stripe>>
    BY Zenon DEF Connect
  <1> DEFINE a == [do |-> "store", of |-> s, cloud |-> None, was |-> None]
  <1>2. a.do = "store" /\ Begin(w, <<a>>)
    BY <1>1
  <1> HIDE DEF a
  <1>3. Orderly /\ Untouching
    BY <1>2, OrderlyStart
  <1> QED BY <1>1, <1>3, StartsEven

LEMMA DisconnectEven ==
  ASSUME Base, ShapeOK, StripeGood, NEW w \in Workers, NEW u, NEW c, Disconnect(w, u, c)
  PROVE  Even
  <1> DEFINE a == Dropping(c)
             b == [do |-> "drop_cloud", cloud |-> c, was |-> db.cloud[c].cred]
  <1>1. Begin(w, <<a, b>>) /\ UNCHANGED <<db, stripe>>
    BY Zenon DEF Disconnect
  <1>2. a.do = "drop_cred" /\ b.do = "drop_cloud"
    BY DEF Dropping
  <1> HIDE DEF a, b
  <1>3. Orderly /\ Untouching
    BY <1>1, <1>2, OrderlyStartTwo
  <1> QED BY <1>1, <1>3, StartsEven

LEMMA RotateEven ==
  ASSUME Base, ShapeOK, StripeGood, NEW w \in Workers, NEW u, NEW c, Rotate(w, u, c)
  PROVE  Even
  <1> DEFINE a == Dropping(c)
             b(s) == [do |-> "store", of |-> s, cloud |-> c, was |-> db.cloud[c].cred]
  <1>1. PICK s : Begin(w, <<a, b(s)>>) /\ UNCHANGED <<db, stripe>>
    BY Zenon DEF Rotate
  <1>2. a.do = "drop_cred" /\ b(s).do = "store"
    BY DEF Dropping
  <1> HIDE DEF a, b
  <1>3. Orderly /\ Untouching
    BY <1>1, <1>2, OrderlyStartTwo
  <1> QED BY <1>1, <1>3, StartsEven

LEMMA DeleteOrgEven ==
  ASSUME Base, ShapeOK, StripeGood, NEW w \in Workers, NEW u, DeleteOrg(w, u)
  PROVE  Even
  <1>1. PICK I, J : Begin(w, <<Erase(I), Erase(J)>>) /\ UNCHANGED <<db, stripe>>
    BY Zenon DEF DeleteOrg
  <1> DEFINE a == Erase(I)
             b == Erase(J)
  <1>2. a.do = "erase" /\ ~a.broke /\ b.do = "erase" /\ ~b.broke
    BY EraseIs
  <1> HIDE DEF a, b
  <1>3. IsSeq(<<a, b>>) /\ Work(<<a, b>>) = {a, b}
    BY WorkOfTwo
  <1>4. OrderOK(<<a, b>>, Selling') /\ \A x \in Work(<<a, b>>) : x.do # "pause"
    BY <1>2, <1>3, OrderOfErasing
  <1>5. job' = [job EXCEPT ![w] = <<a, b>>] /\ job[w] = <<>> /\ hist' = Noting(Spend, Crowded)
    BY <1>1 DEF Begin, Idle, a, b
  <1>6. Orderly
    BY <1>3, <1>4, <1>5, OrderlyFrom
  <1>7. Untouching
    BY <1>5, TouchingNothing DEF Base
  <1> QED BY <1>1, <1>6, <1>7, StartsEven

LEMMA DeleteMeEven ==
  ASSUME Base, ShapeOK, StripeGood, NEW w \in Workers, NEW u, DeleteMe(w, u)
  PROVE  Even
  <1> DEFINE mine == Owned(u)
             paid == {db.space[s].sub : s \in mine} \ {None}
             All(items) == UNION {Of(items, s) : s \in mine}
             seats  == Erase({[what |-> "seats", of |-> u]})
             last   == Erase({[what |-> "profile", of |-> u], [what |-> "accounts", of |-> u]})
             first  == IF paid = {} THEN <<>> ELSE <<[do |-> "cancel", subs |-> paid]>>
             second == IF mine = {} THEN <<>> ELSE <<Erase(All(OwnedCascade)), Erase(All({"invites"}))>>
             third  == <<seats, last>>
             Fit(t) == IsSeq(t) /\ \A x \in Work(t) : x.do = "cancel" \/ (x.do = "erase" /\ ~x.broke)
  <1>1. /\ Idle(w) /\ hist' = Noting(Spend, Crowded \cup {"owner left"}) /\ UNCHANGED <<db, stripe>>
        /\ job' = [job EXCEPT ![w] = first \o second \o third]
    BY Zenon DEF DeleteMe
  <1>2. Fit(first)
    <2>1. CASE paid = {}
      BY <2>1, WorkOfNone
    <2>2. CASE paid # {}
      <3> DEFINE e == [do |-> "cancel", subs |-> paid]
      <3>1. e.do = "cancel" /\ first = <<e>>
        BY <2>2
      <3> HIDE DEF e, first, paid
      <3> QED BY <3>1, WorkOfOne
    <2> QED BY <2>1, <2>2
  <1>3. Fit(second)
    <2>1. CASE mine = {}
      BY <2>1, WorkOfNone
    <2>2. CASE mine # {}
      <3> DEFINE a == Erase(All(OwnedCascade))
                 b == Erase(All({"invites"}))
      <3>1. second = <<a, b>>
        BY <2>2
      <3>2. a.do = "erase" /\ ~a.broke /\ b.do = "erase" /\ ~b.broke
        BY EraseIs
      <3> HIDE DEF a, b, second, All
      <3> QED BY <3>1, <3>2, WorkOfTwo
    <2> QED BY <2>1, <2>2
  <1>4. Fit(third)
    <2>1. seats.do = "erase" /\ ~seats.broke /\ last.do = "erase" /\ ~last.broke
      BY EraseIs
    <2> HIDE DEF seats, last
    <2> QED BY <2>1, WorkOfTwo
  <1> HIDE DEF first, second, third
  <1> DEFINE both  == first \o second
             steps == both \o third
  <1>5. Fit(both)
    BY <1>2, <1>3, WorkJoined
  <1> HIDE DEF both
  <1>6. Fit(steps)
    BY <1>4, <1>5, WorkJoined
  <1>7. job' = [job EXCEPT ![w] = steps]
    BY <1>1 DEF both
  <1> HIDE DEF steps
  <1>8. OrderOK(steps, Selling') /\ \A x \in Work(steps) : x.do # "pause"
    BY <1>6, OrderOfErasing
  <1>9. Orderly
    BY <1>1, <1>6, <1>7, <1>8, OrderlyFrom DEF Idle
  <1>10. Untouching
    BY <1>1, TouchingNothing DEF Base
  <1> QED BY <1>1, <1>9, <1>10, StartsEven

LEMMA CreateAccountEven ==
  ASSUME Base, ShapeOK, StripeGood, NEW w \in Workers, NEW u, CreateAccount(w, u)
  PROVE  Even
  <1>1. Begin(w, <<[do |-> "personal", user |-> u]>>) /\ UNCHANGED <<db, stripe>>
    BY Zenon DEF CreateAccount
  <1> DEFINE a == [do |-> "personal", user |-> u]
  <1>2. a.do = "personal" /\ Begin(w, <<a>>)
    BY <1>1
  <1> HIDE DEF a
  <1>3. Orderly /\ Untouching
    BY <1>2, OrderlyStart
  <1> QED BY <1>1, <1>3, StartsEven

LEMMA ProvisionEven ==
  ASSUME Base, ShapeOK, StripeGood, NEW w \in Workers, NEW u, Provision(w, u)
  PROVE  Even
  <1> DEFINE s == Least(Unborn)
             a == [do |-> "profile", user |-> u, of |-> s]
  <1>1. /\ Begin(w, <<a>>) /\ UNCHANGED stripe
        /\ db' = [db EXCEPT !.space[s] = NewPersonal(u)] /\ Unborn # {}
    BY Zenon DEF Provision
  <1>2. a.do = "profile"
    OBVIOUS
  <1> HIDE DEF a
  <1>3. Orderly /\ Untouching
    BY <1>1, <1>2, OrderlyStart
  <1>4. ShapeOK' /\ CloudsEven /\ SpacesEven
    BY <1>1, PersonalIs, FreshSpace, BornEven DEF Base
  <1> QED BY <1>1, <1>3, <1>4, StripeStill DEF Even, Untouching

LEMMA InsertPersonalEven ==
  ASSUME Base, ShapeOK, StripeGood, NEW w \in Workers, InsertPersonal(w)
  PROVE  Even
  <1>1. Doing(w, "personal") /\ Proceed(w, <<>>) /\ UNCHANGED stripe /\ Unborn # {}
    BY Zenon DEF InsertPersonal
  <1>2. PICK more, u : With(more) /\ db' = [db EXCEPT !.space[Least(Unborn)] = NewPersonal(u)]
    BY Zenon DEF InsertPersonal
  <1>3. Orderly /\ Untouching
    BY <1>1, <1>2, OrderlyDone, TouchingNothing DEF With, Base
  <1>4. ShapeOK' /\ CloudsEven /\ SpacesEven
    BY <1>1, <1>2, PersonalIs, FreshSpace, BornEven DEF Base
  <1> QED BY <1>1, <1>3, <1>4, StripeStill DEF Even, Untouching

(* A credential comes or goes: no cloud account is touched.                *)
LEMMA CredsAside ==
  ASSUME DbOK, ShapeOK, NEW v, DOMAIN v = Creds, db' = [db EXCEPT !.cred = v]
  PROVE  ShapeOK' /\ CloudsEven /\ SpacesEven
  BY DEF DbOK, DbFields, ShapeOK, CloudsEven, SpacesEven, FreePlan, Live

LEMMA OneCredAside ==
  ASSUME DbOK, ShapeOK, NEW k, NEW x, db' = [db EXCEPT !.cred[k] = x]
  PROVE  ShapeOK' /\ CloudsEven /\ SpacesEven
  <1>1. db' = [db EXCEPT !.cred = [db.cred EXCEPT ![k] = x]]
    BY DEF DbOK, DbFields
  <1>2. DOMAIN [db.cred EXCEPT ![k] = x] = Creds
    BY DEF ShapeOK
  <1> QED BY <1>1, <1>2, CredsAside

LEMMA StoreCredentialEven ==
  ASSUME Base, ShapeOK, StripeGood, NEW w \in Workers, StoreCredential(w)
  PROVE  Even
  <1> DEFINE p == This(w)
             free == Unused(db.cred, None)
             more == IF p.cloud = None
                     THEN [do |-> "create", of |-> p.of, cred |-> Least(free)]
                     ELSE [do |-> "rewire", cloud |-> p.cloud, cred |-> Least(free), was |-> p.was]
  <1>1. /\ Doing(w, "store") /\ db' = [db EXCEPT !.cred[Least(free)] = p.of]
        /\ Proceed(w, <<more>>) /\ With(Stale(~Live(p.of))) /\ UNCHANGED stripe
        /\ free # {}
    BY Zenon DEF StoreCredential
  <1>2. more.do \in {"create", "rewire"}
    BY DEF Unused
  <1> HIDE DEF more, free, p
  <1>3. Orderly
    BY <1>1, <1>2, OrderlyNext
  <1>4. Untouching
    BY <1>1, TouchingNothing DEF With, Base
  <1>5. ShapeOK' /\ CloudsEven /\ SpacesEven
    BY <1>1, OneCredAside DEF Base
  <1> QED BY <1>1, <1>3, <1>4, <1>5, StripeStill DEF Even, Untouching

LEMMA DropCredentialEven ==
  ASSUME Base, ShapeOK, StripeGood, NEW w \in Workers, DropCredential(w)
  PROVE  Even
  <1>1. Doing(w, "drop_cred") /\ Proceed(w, <<>>) /\ Clean /\ UNCHANGED stripe
    BY Zenon DEF DropCredential
  <1>2. PICK k, x : db' = [db EXCEPT !.cred[k] = x]
    BY Zenon DEF DropCredential
  <1>3. Orderly /\ Untouching
    BY <1>1, OrderlyDone, TouchingNothing DEF Clean, Base
  <1>4. ShapeOK' /\ CloudsEven /\ SpacesEven
    BY <1>2, OneCredAside DEF Base
  <1> QED BY <1>1, <1>3, <1>4, StripeStill DEF Even, Untouching

(* Cloud accounts of a workspace that counts as touched from then on.      *)
Unpaused == \A v \in Workers : ~Doing(v, "pause")

LEMMA OnlyThis ==
  ASSUME OneAtATime, NEW w \in Workers, NEW d, d # "pause", Doing(w, d)
  PROVE  Unpaused
  BY DEF OneAtATime, Busy, Doing, Idle, Unpaused

LEMMA CloudTouched ==
  ASSUME ShapeOK, Unpaused, NEW c, NEW doc, c \in Clouds => DOMAIN doc = DOMAIN NoCloud,
         db'.space = db.space, db'.cred = db.cred, db'.active = db.active, DOMAIN db'.cloud = Clouds,
         \A x \in Clouds : db'.cloud[x] = IF x = c THEN doc ELSE db.cloud[x],
         c \in Clouds /\ db.cloud[c].of \in Spaces => db.cloud[c].of \in hist'.touched,
         c \in Clouds /\ doc.of \in Spaces => doc.of \in hist'.touched,
         c \in Clouds /\ doc.of \in Spaces => db.space[doc.of].type # "unborn" \/ doc.of = db.cloud[c].of
  PROVE  ShapeOK' /\ CloudsEven /\ SpacesEven
  <1>2. ShapeOK' /\ SpacesEven
    BY DEF ShapeOK, SpacesEven, FreePlan, Live
  <1>3. \A x \in Clouds : x # c => db'.cloud[x] = db.cloud[x]
    OBVIOUS
  <1>4. c \in Clouds => db'.cloud[c] = doc
    OBVIOUS
  <1>5. ASSUME NEW s \in Spaces, s \notin hist'.touched PROVE SameClouds(s)
    <2>1. c \in Clouds => db.cloud[c].of # s /\ db'.cloud[c].of # s
      BY <1>4, <1>5
    <2>2. CloudsOf(s)' = CloudsOf(s)
      BY <1>3, <2>1 DEF CloudsOf
    <2>3. ActiveOf(s)' = ActiveOf(s)
      <3> SUFFICES ASSUME NEW x PROVE x \in ActiveOf(s)' <=> x \in ActiveOf(s)
        OBVIOUS
      <3>1. x \in CloudsOf(s) => x \in Clouds /\ x # c
        BY <2>1 DEF CloudsOf
      <3>2. x \in CloudsOf(s) => db'.cloud[x] = db.cloud[x]
        BY <1>3, <3>1
      <3> QED BY <2>2, <3>2 DEF ActiveOf
    <2> QED BY <2>2, <2>3 DEF SameClouds
  <1>6. \A x \in Clouds : db'.cloud[x].of \in Spaces =>
           db'.cloud[x].of = db.cloud[x].of \/ db.space[db'.cloud[x].of].type # "unborn"
    BY <1>3, <1>4
  <1> QED BY <1>2, <1>5, <1>6 DEF CloudsEven, Unpaused

LEMMA OneCloudIs ==
  ASSUME DbOK, ShapeOK, NEW c, NEW doc, db' = [db EXCEPT !.cloud[c] = doc]
  PROVE  /\ db'.space = db.space /\ db'.cred = db.cred /\ db'.active = db.active /\ DOMAIN db'.cloud = Clouds
         /\ \A x \in Clouds : db'.cloud[x] = IF x = c THEN doc ELSE db.cloud[x]
  BY DEF DbOK, DbFields, ShapeOK

LEMMA NowTouched ==
  ASSUME HistOK, NEW more, NEW s,
         \/ hist' = [Noting(hist, more) EXCEPT !.touched = @ \cup {s}]
         \/ hist' = [Noting(Spend, more) EXCEPT !.touched = @ \cup {s}]
  PROVE  hist'.touched = hist.touched \cup {s} /\ hist'.lapses = hist.lapses \cup more
  <1>1. CASE hist' = [Noting(hist, more) EXCEPT !.touched = @ \cup {s}]
    BY <1>1 DEF HistOK, HistFields, Noting
  <1>2. CASE hist' = [Noting(Spend, more) EXCEPT !.touched = @ \cup {s}]
    BY <1>2 DEF HistOK, HistFields, Noting, Spend
  <1> QED BY <1>1, <1>2

LEMMA CreateCloudEven ==
  ASSUME Base, ShapeOK, StripeGood, OneAtATime, NEW w \in Workers, CreateCloud(w), Brief'
  PROVE  Even
  <1> DEFINE p == This(w)
             doc == [of |-> p.of, active |-> TRUE, cred |-> p.cred]
             free == Unused(db.cloud, NoCloud)
             c == Least(free)
  <1>1. /\ db' = [db EXCEPT !.cloud[c] = doc] /\ free # {} /\ Doing(w, "create")
        /\ Proceed(w, <<>>) /\ UNCHANGED stripe
        /\ hist' = [Noting(hist, Stale(~Live(p.of))) EXCEPT !.touched = @ \cup {p.of}]
    BY Zenon DEF CreateCloud
  <1>2. DOMAIN doc = DOMAIN NoCloud /\ doc.of = p.of
    BY DEF NoCloud
  <1>3. c \in Clouds /\ db.cloud[c] = NoCloud
    <2>1. free \in SUBSET Nat /\ \A x \in free : x \in Clouds /\ db.cloud[x] = NoCloud
      BY DocumentsOK DEF ShapeOK, Unused
    <2> HIDE DEF free
    <2> QED BY <1>1, <2>1, LeastIsIn
  <1>4. db.cloud[c].of \notin Spaces
    BY <1>3, DocumentsOK DEF NoCloud, None
  <1>11. db' = [db EXCEPT !.cloud[c] = doc]
    BY <1>1
  <1> HIDE DEF doc, p, c, free
  <1>5. hist'.touched = hist.touched \cup {p.of} /\ hist'.lapses = hist.lapses \cup Stale(~Live(p.of))
    BY <1>1, NowTouched DEF Base
  <1>6. Live(p.of)
    BY <1>5 DEF Brief, Barring, Stale
  <1>7. db.space[p.of].type # "unborn"
    BY <1>6 DEF Live, Kinds
  <1>8. Unpaused
    BY <1>1, OnlyThis
  <1>9. Orderly
    BY <1>1, OrderlyDone
  <1>10. ShapeOK' /\ CloudsEven /\ SpacesEven
    <2>1. /\ db'.space = db.space /\ db'.cred = db.cred /\ db'.active = db.active /\ DOMAIN db'.cloud = Clouds
          /\ \A x \in Clouds : db'.cloud[x] = IF x = c THEN doc ELSE db.cloud[x]
      BY <1>11, OneCloudIs DEF Base
    <2> QED BY <1>2, <1>4, <1>5, <1>7, <1>8, <2>1, CloudTouched
  <1> QED BY <1>1, <1>5, <1>9, <1>10, StripeStill DEF Even

LEMMA SetStatusEven ==
  ASSUME Base, ShapeOK, StripeGood, NEW u, NEW c, NEW active, SetStatus(u, c, active), Brief'
  PROVE  Even
  <1>1. PICK s : /\ db' = [db EXCEPT !.cloud[c].active = active] /\ db.cloud[c].of = s
                 /\ hist' = [Noting(Spend, Crowded) EXCEPT !.touched = @ \cup {s}]
                 /\ UNCHANGED <<job, stripe>>
    BY Zenon DEF SetStatus
  <1>2. hist'.touched = hist.touched \cup {s} /\ hist'.lapses = hist.lapses \cup Crowded
    BY <1>1, NowTouched DEF Base
  <1>3. Unpaused
    BY <1>2 DEF Brief, Barring, Crowded, AllIdle, Doing, Unpaused
  <1> DEFINE doc == [db.cloud[c] EXCEPT !.active = active]
  <1>4. db' = [db EXCEPT !.cloud[c] = doc]
    BY <1>1, Zenon
  <1>5. c \in Clouds => DOMAIN doc = DOMAIN NoCloud /\ doc.of = s
    BY <1>1 DEF ShapeOK, NoCloud
  <1> HIDE DEF doc
  <1>6. ShapeOK' /\ CloudsEven /\ SpacesEven
    <2>1. /\ db'.space = db.space /\ db'.cred = db.cred /\ db'.active = db.active /\ DOMAIN db'.cloud = Clouds
          /\ \A x \in Clouds : db'.cloud[x] = IF x = c THEN doc ELSE db.cloud[x]
      BY <1>1, <1>2, <1>3, <1>4, <1>5, OneCloudIs DEF Base
    <2> QED BY <1>1, <1>2, <1>3, <1>4, <1>5, <2>1, CloudTouched
  <1> QED BY <1>1, <1>2, <1>6, StripeStill, OrderlyStill DEF Even

LEMMA DropCloudEven ==
  ASSUME Base, ShapeOK, StripeGood, OneAtATime, NEW w \in Workers, DropCloud(w), Brief'
  PROVE  Even
  <1> DEFINE p == This(w)
             c == p.cloud
             doc == Buried(db.cloud[c])
  <1>1. Doing(w, "drop_cloud") /\ Proceed(w, <<>>) /\ UNCHANGED stripe
    BY Zenon DEF DropCloud
  <1>2. IsCloud(c)
    <2> SUFFICES ASSUME ~IsCloud(c) PROVE FALSE
      OBVIOUS
    <2>1. With({"stale"})
      BY Zenon DEF DropCloud
    <2>2. "stale" \in hist'.lapses
      BY <2>1, NotingMore DEF With, Base
    <2> QED BY <2>2 DEF Brief, Barring
  <1>3. db' = [db EXCEPT !.cloud[c] = doc]
    BY <1>2, Zenon DEF DropCloud
  <1>4. PICK more : hist' = [Noting(hist, more) EXCEPT !.touched = @ \cup {db.cloud[c].of}]
    BY <1>2, Zenon DEF DropCloud
  <1> HIDE DEF p, c
  <1>5. (c \in Clouds => DOMAIN doc = DOMAIN NoCloud) /\ doc.of \notin Spaces
    <2>1. c \in Clouds => DOMAIN doc = DOMAIN NoCloud /\ doc.of = Gone
      BY DEF ShapeOK, Buried, NoCloud
    <2>2. IsCloud(c) /\ c \notin Clouds => doc.of \notin Spaces
      BY DocumentsOK DEF Buried, Gone
    <2> QED BY <1>2, <2>1, <2>2, DocumentsOK DEF Gone
  <1> HIDE DEF doc
  <1>6. hist'.touched = hist.touched \cup {db.cloud[c].of}
    BY <1>4, NowTouched DEF Base
  <1>7. Unpaused
    BY <1>1, OnlyThis
  <1>8. Orderly
    BY <1>1, OrderlyDone
  <1>9. ShapeOK' /\ CloudsEven /\ SpacesEven
    <2>1. /\ db'.space = db.space /\ db'.cred = db.cred /\ db'.active = db.active /\ DOMAIN db'.cloud = Clouds
          /\ \A x \in Clouds : db'.cloud[x] = IF x = c THEN doc ELSE db.cloud[x]
      BY <1>3, <1>5, <1>6, <1>7, OneCloudIs DEF Base
    <2> QED BY <1>3, <1>5, <1>6, <1>7, <2>1, CloudTouched
  <1> QED BY <1>1, <1>6, <1>8, <1>9, StripeStill DEF Even

LEMMA RewireEven ==
  ASSUME Base, ShapeOK, StripeGood, OneAtATime, NEW w \in Workers, Rewire(w), Brief'
  PROVE  Even
  <1> DEFINE p == This(w)
             c == p.cloud
             doc == [db.cloud[c] EXCEPT !.cred = p.cred, !.active = TRUE]
  <1>1. Doing(w, "rewire") /\ Proceed(w, <<>>) /\ UNCHANGED stripe
    BY Zenon DEF Rewire
  <1>2. hist' = [Noting(hist, Stale(~IsCloud(c) \/ db.cloud[c].cred # p.was)) EXCEPT !.touched = @ \cup {db.cloud[c].of}]
    BY Zenon DEF Rewire
  <1>3. UNCHANGED db \/ db' = [db EXCEPT !.cloud[c].cred = p.cred, !.cloud[c].active = TRUE]
    BY Zenon DEF Rewire
  <1> HIDE DEF p, c
  <1>4. hist'.touched = hist.touched \cup {db.cloud[c].of}
    BY <1>2, NowTouched DEF Base
  <1>5. Unpaused
    BY <1>1, OnlyThis
  <1>6. Orderly
    BY <1>1, OrderlyDone
  <1>7. ShapeOK' /\ CloudsEven /\ SpacesEven
    <2>1. CASE UNCHANGED db
      BY <2>1, EvenStill
    <2>2. CASE db' = [db EXCEPT !.cloud[c].cred = p.cred, !.cloud[c].active = TRUE]
      <3>1. /\ db'.space = db.space /\ db'.cred = db.cred /\ db'.active = db.active /\ DOMAIN db'.cloud = Clouds
            /\ \A x \in Clouds : db'.cloud[x] = IF x = c THEN doc ELSE db.cloud[x]
        BY <2>2 DEF Base, DbOK, DbFields, ShapeOK, NoCloud
      <3>2. c \in Clouds => DOMAIN doc = DOMAIN NoCloud /\ doc.of = db.cloud[c].of
        BY DEF ShapeOK, NoCloud
      <3> HIDE DEF doc
      <3> QED BY <1>4, <1>5, <3>1, <3>2, CloudTouched
    <2> QED BY <1>3, <2>1, <2>2
  <1> QED BY <1>1, <1>4, <1>6, <1>7, StripeStill DEF Even

LEMMA ErasedEven ==
  ASSUME DbOK, ShapeOK, Unpaused, NEW item, db' = Without(item)
  PROVE  ShapeOK' /\ CloudsEven /\ SpacesEven
  <1> DEFINE s == item.of
  <1>1. CASE item.what = "clouds"
    <2>1. db' = [db EXCEPT !.cloud = [c \in Clouds |-> IF db.cloud[c].of = s THEN Buried(db.cloud[c]) ELSE db.cloud[c]]]
      BY <1>1 DEF Without
    <2> HIDE DEF s
    <2>2. /\ db'.cloud = [c \in Clouds |-> IF db.cloud[c].of = s THEN Buried(db.cloud[c]) ELSE db.cloud[c]]
          /\ db'.space = db.space /\ db'.cred = db.cred /\ db'.active = db.active
      BY <2>1 DEF DbOK, DbFields
    <2>3. \A c \in Clouds : DOMAIN Buried(db.cloud[c]) = DOMAIN NoCloud /\ Buried(db.cloud[c]).of \notin Spaces
      BY DocumentsOK DEF ShapeOK, Buried, NoCloud, Gone
    <2>4. ShapeOK' /\ SpacesEven
      BY <2>2, <2>3 DEF ShapeOK, SpacesEven, FreePlan, Live
    <2>5. ASSUME NEW x \in Spaces PROVE CloudsOf(x)' = {} \/ SameClouds(x)
      <3>1. CASE x = s
        BY <2>2, <2>3, <3>1 DEF CloudsOf
      <3>2. CASE x # s
        <4>1. \A c \in Clouds : \/ db'.cloud[c] = db.cloud[c]
                                \/ db.cloud[c].of # x /\ db'.cloud[c].of # x
          BY <2>2, <2>3, <3>2
        <4> QED BY <4>1 DEF SameClouds, CloudsOf, ActiveOf
      <3> QED BY <3>1, <3>2
    <2>6. \A c \in Clouds : db'.cloud[c].of \in Spaces => db'.cloud[c].of = db.cloud[c].of
      BY <2>2, <2>3
    <2> QED BY <2>4, <2>5, <2>6 DEF CloudsEven, Unpaused
  <1>2. CASE item.what = "creds"
    <2>1. db' = [db EXCEPT !.cred = [k \in Creds |-> IF db.cred[k] = s THEN Gone ELSE db.cred[k]]]
      BY <1>2 DEF Without
    <2>2. PICK v : DOMAIN v = Creds /\ db' = [db EXCEPT !.cred = v]
      BY <2>1
    <2> QED BY <2>2, CredsAside
  <1>3. CASE item.what \in {"keys", "members", "invites", "seats", "actives", "profile"}
    <2>1. SideDb
      <3>1. CASE item.what \in {"keys", "members", "invites", "seats"}
        <4>1. PICK f \in {"keys", "member", "invite"} : \E v : db' = [db EXCEPT ![f] = v]
          <5>1. CASE item.what = "keys"
            <6>1. PICK v : db' = [db EXCEPT !.keys = v]
              BY <5>1, Zenon DEF Without
            <6> QED BY <6>1
          <5>2. CASE item.what = "members"
            <6>1. PICK v : db' = [db EXCEPT !.member = v]
              BY <5>2, Zenon DEF Without
            <6> QED BY <6>1
          <5>3. CASE item.what = "invites"
            <6>1. PICK v : db' = [db EXCEPT !.invite = v]
              BY <5>3, Zenon DEF Without
            <6> QED BY <6>1
          <5>4. CASE item.what = "seats"
            <6>1. PICK v : db' = [db EXCEPT !.member = v]
              BY <5>4, Zenon DEF Without
            <6> QED BY <6>1
          <5> QED BY <3>1, <5>1, <5>2, <5>3, <5>4
        <4>2. PICK v : db' = [db EXCEPT ![f] = v]
          BY <4>1
        <4> QED BY <4>2, AsideInDb DEF DbFields
      <3>2. CASE item.what = "actives"
        <4>1. db' = [db EXCEPT !.active = [u \in Users |-> IF db.active[u] = s THEN None ELSE db.active[u]]]
          BY <3>2 DEF Without
        <4>2. PICK v : DOMAIN v = Users /\ db' = [db EXCEPT !.active = v]
          BY <4>1
        <4> QED BY <4>2 DEF DbOK, DbFields, SideDb, ShapeOK
      <3>3. CASE item.what = "profile"
        <4>1. PICK u, v : db' = [db EXCEPT !.active[u] = v]
          BY <3>3, Zenon DEF Without
        <4> QED BY <4>1, ActiveAside
      <3> QED BY <1>3, <3>1, <3>2, <3>3
    <2> QED BY <2>1, SideDbUndisturbed, EvenUndisturbed
  <1>4. CASE item.what \notin {"clouds", "creds", "keys", "members", "invites", "seats", "actives", "profile"}
    <2>1. PICK G : db' = [db EXCEPT !.space = [x \in Spaces |-> IF x \in G THEN [db.space[x] EXCEPT !.type = "gone"] ELSE db.space[x]]]
                   \/ \E x \in G : db' = [db EXCEPT !.space[x].type = "gone"]
      <3>1. CASE item.what = "space"
        <4>1. db' = [db EXCEPT !.space[s].type = "gone"]
          BY <3>1 DEF Without
        <4> QED BY <4>1
      <3>2. CASE item.what # "space"
        <4>1. db' = [db EXCEPT !.space = [x \in Spaces |-> IF x \in Owned(s) THEN [@[x] EXCEPT !.type = "gone"] ELSE @[x]]]
          BY <1>4, <3>2 DEF Without
        <4>2. \E G : G = Owned(s)
          OBVIOUS
        <4> QED BY <4>1, <4>2
      <3> QED BY <3>1, <3>2
    <2> HIDE DEF s
    <2>2. \A x \in Spaces : /\ DOMAIN db'.space[x] = DOMAIN NoSpace /\ db'.space[x].tier = db.space[x].tier
                            /\ db'.space[x].type \in {db.space[x].type, "gone"}
      <3>1. CASE db' = [db EXCEPT !.space = [x \in Spaces |-> IF x \in G THEN [db.space[x] EXCEPT !.type = "gone"] ELSE db.space[x]]]
        <4>1. db'.space = [x \in Spaces |-> IF x \in G THEN [db.space[x] EXCEPT !.type = "gone"] ELSE db.space[x]]
          BY <3>1 DEF DbOK, DbFields
        <4> QED BY <4>1 DEF ShapeOK, NoSpace
      <3>2. CASE \E x \in G : db' = [db EXCEPT !.space[x].type = "gone"]
        BY <3>2 DEF DbOK, DbFields, ShapeOK, NoSpace
      <3> QED BY <2>1, <3>1, <3>2
    <2>3. DOMAIN db' = DOMAIN db /\ (\A f \in DbFields \ {"space"} : db'[f] = db[f]) /\ DOMAIN db'.space = Spaces
      BY <2>1 DEF DbOK, DbFields, ShapeOK
    <2>4. ShapeOK' /\ CloudsEven
      BY <2>2, <2>3, SpaceTiers
    <2>5. SpacesEven
      BY <2>2 DEF SpacesEven, FreePlan, Live, Kinds
    <2> QED BY <2>4, <2>5
  <1> QED BY <1>1, <1>2, <1>3, <1>4

LEMMA EraseOneEven ==
  ASSUME Base, ShapeOK, StripeGood, OneAtATime, NEW w \in Workers, OrderOK(job[w], Selling), EraseOne(w), Brief'
  PROVE  Even
  <1> DEFINE p == This(w)
  <1>1. PICK item \in p.items, ok \in (IF hist.faults > 0 THEN BOOLEAN ELSE {TRUE}) :
          LET rest  == p.items \ {item}
              broke == p.broke \/ (~ok /\ item.what \notin BestEffort)
          IN /\ db' = IF ok THEN Without(item) ELSE db
             /\ hist' = [Noting(hist, IF ok THEN {} ELSE IF item.what \in BestEffort THEN {"swallowed"} ELSE {"failed"})
                           EXCEPT !.faults = IF ok THEN @ ELSE @ - 1]
             /\ IF rest # {} THEN Proceed(w, <<[Erase(rest) EXCEPT !.broke = broke]>>)
                ELSE IF broke THEN job' = [job EXCEPT ![w] = <<>>] ELSE Proceed(w, <<>>)
    BY Zenon DEF EraseOne
  <1>2. Doing(w, "erase") /\ UNCHANGED stripe
    BY Zenon DEF EraseOne
  <1>3. ~p.broke
    BY <1>2, NextIs DEF Base
  <1>4. ok = TRUE \/ item.what \in BestEffort
    <2> SUFFICES ASSUME ok # TRUE, item.what \notin BestEffort PROVE FALSE
      OBVIOUS
    <2>1. ok = FALSE
      BY <1>1
    <2>2. PICK f : hist' = [Noting(hist, {"failed"}) EXCEPT !.faults = f]
      BY <1>1, <2>1, Zenon
    <2> QED BY <2>2 DEF Noting, Base, HistOK, HistFields, Brief, Barring
  <1>5. Untouching
    <2>1. PICK more, f : hist' = [Noting(hist, more) EXCEPT !.faults = f]
      BY <1>1, Zenon
    <2> QED BY <2>1, TouchingNothing DEF Base
  <1>6. PICK rest : \/ rest # {} /\ Proceed(w, <<Erase(rest)>>)
                    \/ rest = {} /\ Proceed(w, <<>>)
    <2> DEFINE left == p.items \ {item}
    <2>1. \/ left # {} /\ Proceed(w, <<[Erase(left) EXCEPT !.broke = p.broke \/ (~ok /\ item.what \notin BestEffort)]>>)
          \/ left = {} /\ (~(p.broke \/ (~ok /\ item.what \notin BestEffort)) => Proceed(w, <<>>))
      BY <1>1, Zenon
    <2>2. (p.broke \/ (~ok /\ item.what \notin BestEffort)) = FALSE
      BY <1>3, <1>4, Zenon
    <2>3. [Erase(left) EXCEPT !.broke = FALSE] = Erase(left)
      BY EraseAgain
    <2> QED BY <2>1, <2>2, <2>3, Zenon
  <1>7. Orderly
    <2>1. CASE Proceed(w, <<>>)
      BY <1>2, <2>1, OrderlyDone
    <2>2. CASE Proceed(w, <<Erase(rest)>>)
      <3> DEFINE e == Erase(rest)
      <3>1. e.do = "erase" /\ ~e.broke
        BY EraseIs
      <3> HIDE DEF e
      <3>2. IsSeq(<<e>>) /\ Work(<<e>>) = {e}
        BY WorkOfOne
      <3>3. OrderOK(<<e>>, Selling') /\ \A x \in Work(<<e>>) : x.do # "pause"
        BY <3>1, <3>2, OrderOfErasing
      <3>4. Proceed(w, <<e>>)
        BY <2>2 DEF e
      <3> QED BY <1>2, <3>2, <3>3, <3>4, OrderlyOn
    <2> QED BY <1>6, <2>1, <2>2
  <1>8. ShapeOK' /\ CloudsEven /\ SpacesEven
    <2>1. CASE ok = TRUE
      <3>1. db' = Without(item)
        BY <1>1, <2>1, Zenon
      <3>2. Unpaused
        BY <1>2, OnlyThis
      <3> QED BY <3>1, <3>2, ErasedEven DEF Base
    <2>2. CASE ok = FALSE
      <3>1. UNCHANGED db
        BY <1>1, <2>2, Zenon
      <3> QED BY <3>1, EvenStill
    <2>3. ok \in BOOLEAN
      BY <1>1
    <2> QED BY <2>1, <2>2, <2>3
  <1> QED BY <1>2, <1>5, <1>7, <1>8, StripeStill DEF Even, Untouching

LEMMA CancelAllEven ==
  ASSUME Base, ShapeOK, StripeGood, NEW w \in Workers, CancelAll(w)
  PROVE  Even
  <1>1. Doing(w, "cancel") /\ Proceed(w, <<>>) /\ UNCHANGED db
    BY Zenon DEF CancelAll
  <1>2. PICK went \in SUBSET This(w).subs :
         LET dead == {k \in went : stripe.sub[k].state # "dead"} IN
         /\ stripe' = [stripe EXCEPT
              !.sub  = [k \in Subs |-> IF k \in dead THEN [@[k] EXCEPT !.state = "dead"] ELSE @[k]],
              !.sent = @ + Cardinality(dead),
              !.mail = @ \cup {[id |-> stripe.sent + Cardinality({j \in dead : j <= k}), kind |-> "deleted",
                                sub |-> k, plan |-> stripe.sub[k].plan, state |-> "dead",
                                of |-> stripe.sub[k].of] : k \in dead}]
         /\ hist' = [Noting(hist, IF went = This(w).subs THEN {} ELSE {"swallowed"})
                       EXCEPT !.faults = @ - Cardinality(This(w).subs \ went)]
    BY Zenon DEF CancelAll
  <1>3. Untouching
    <2>1. PICK more, faults : hist' = [Noting(hist, more) EXCEPT !.faults = faults]
      BY <1>2, Zenon
    <2> QED BY <2>1, TouchingNothing DEF Base
  <1> DEFINE dead == {k \in went : stripe.sub[k].state # "dead"}
             Tale(k) == [id |-> stripe.sent + Cardinality({j \in dead : j <= k}), kind |-> "deleted",
                         sub |-> k, plan |-> stripe.sub[k].plan, state |-> "dead",
                         of |-> stripe.sub[k].of]
             subs == [k \in Subs |-> IF k \in dead THEN [stripe.sub[k] EXCEPT !.state = "dead"] ELSE stripe.sub[k]]
  <1>4. PICK sent : stripe' = [stripe EXCEPT !.sub = subs, !.sent = sent,
                               !.mail = @ \cup {Tale(k) : k \in dead}]
    BY <1>2, Zenon
  <1>5. \A k : Tale(k).kind = "deleted"
    OBVIOUS
  <1> HIDE DEF Tale
  <1>6. /\ DOMAIN subs = Subs
        /\ \A k \in Subs : /\ DOMAIN subs[k] = {"plan", "state", "of"} /\ subs[k].plan = stripe.sub[k].plan
                           /\ subs[k].state \in {stripe.sub[k].state, "dead"}
    BY DEF StripeGood
  <1> HIDE DEF subs, dead
  <1>7. stripe'.sub = subs /\ stripe'.open = stripe.open /\ stripe'.mail = stripe.mail \cup {Tale(k) : k \in dead}
    BY <1>4 DEF Base, StripeOK, MailFields
  <1>8. Selling' = Selling
    BY <1>6, <1>7 DEF Selling
  <1>9. StripeGood'
    <2>1. \A k \in Subs : stripe'.sub[k].state \in {"active", "past_due"} => k \in Selling'
      <3> SUFFICES ASSUME NEW k \in Subs, subs[k].state \in {"active", "past_due"} PROVE k \in Selling
        BY <1>7, <1>8
      <3> QED BY <1>6 DEF StripeGood
    <2>2. \A e \in stripe'.mail : e.kind # "deleted" => Selected(e, Selling')
      BY <1>5, <1>7, <1>8 DEF StripeGood
    <2> QED BY <1>6, <1>7, <2>1, <2>2 DEF StripeGood
  <1>10. Orderly
    BY <1>1, OrderlyDone
  <1> QED BY <1>1, <1>3, <1>8, <1>9, <1>10, EvenStill DEF Even, Untouching, StripeEven

(****************************** the pausing ********************************)
LEMMA OldestAgain ==
  ASSUME NEW C \in SUBSET Nat, NEW n \in Nat
  PROVE  Oldest(Oldest(C, n), n) = Oldest(C, n)
  <1> DEFINE O == Oldest(C, n)
             Before(D, c) == {d \in D : d < c}
  <1>1. O \subseteq C
    BY DEF Oldest
  <1>2. ASSUME NEW c \in O PROVE Cardinality(Before(O, c)) < n
    <2>0. c \in Nat
      <3> HIDE DEF O, Before
      <3> QED BY <1>1
    <2>1. Before(C, c) \subseteq 0 .. c /\ Before(O, c) \subseteq Before(C, c)
      <3>1. ASSUME NEW d, d \in Before(C, c) PROVE d \in 0 .. c
        <4>1. d \in C /\ d < c
          BY <3>1
        <4>2. d \in Nat
          BY <4>1
        <4> QED BY <2>0, <4>1, <4>2
      <3>2. Before(O, c) \subseteq Before(C, c)
        <4> HIDE DEF O
        <4> QED BY <1>1
      <3> HIDE DEF O, Before
      <3> QED BY <3>1, <3>2
    <2>2. IsFiniteSet(0 .. c)
      BY <2>0, FS_Interval
    <2>3. IsFiniteSet(Before(C, c))
      BY <2>1, <2>2, FS_Subset
    <2>4. IsFiniteSet(Before(O, c)) /\ Cardinality(Before(O, c)) <= Cardinality(Before(C, c))
      BY <2>1, <2>3, FS_Subset
    <2>5. Cardinality(Before(C, c)) < n
      BY DEF Oldest
    <2>6. Cardinality(Before(C, c)) \in Nat /\ Cardinality(Before(O, c)) \in Nat
      BY <2>3, <2>4, FS_CardinalityType
    <2> HIDE DEF Before, O
    <2> QED BY <2>4, <2>5, <2>6
  <1>3. Oldest(O, n) = {c \in O : Cardinality(Before(O, c)) < n}
    BY DEF Oldest
  <1> HIDE DEF O, Before
  <1>4. Oldest(O, n) = O
    BY <1>2, <1>3
  <1> QED BY <1>4 DEF O

LEMMA GoesPausing ==
  ASSUME Base, OneAtATime, NEW w \in Workers, NEW d \in {"reconcile", "pause"}, Doing(w, d),
         NEW S, OrderOK(job[w], S), NEW X,
         Proceed(w, IF X = {} THEN <<>> ELSE <<[do |-> "pause", clouds |-> X]>>)
  PROVE  /\ \A v \in Workers : v # w => job[v] = <<>> /\ job'[v] = <<>>
         /\ OrderOK(job'[w], S)
         /\ X = {} => ~Doing(w, "pause")'
         /\ X # {} => Doing(w, "pause")' /\ This(w)'.clouds = X
         /\ \A x : Owed(job[w], x) => Owed(job'[w], x) \/ This(w) = Reconciling(x)
  <1> DEFINE a    == [do |-> "pause", clouds |-> X]
             more == IF X = {} THEN <<>> ELSE <<a>>
             j    == job[w]
             t    == more \o Tail(j)
             n    == Len(j)
             m    == Len(more)
  <1>1. j # <<>> /\ Head(j).do = d /\ IsSeq(j)
    BY JobsAreSeqs DEF Doing, Idle, Base
  <1>2. job' = [job EXCEPT ![w] = t]
    BY DEF Proceed
  <1>3. \A v \in Workers : v # w => job[v] = <<>> /\ job'[v] = <<>>
    BY <1>1, <1>2 DEF OneAtATime, Busy, Base, JobsOK
  <1>4. a.do = "pause" /\ a.clouds = X
    OBVIOUS
  <1> HIDE DEF a
  <1>5. IsSeq(more) /\ OrderOK(more, S) /\ (X # {} => m = 1 /\ more[1] = a) /\ (X = {} => more = <<>> /\ m = 0)
    <2>1. CASE X = {}
      BY <2>1, WorkOfNone, OrderOfNone
    <2>2. CASE X # {}
      BY <1>4, <2>2, WorkOfOne DEF OrderOK
    <2> QED BY <2>1, <2>2
  <1>6. job'[w] = t
    BY <1>2 DEF Base, JobsOK
  <1> HIDE DEF more, j
  <1>7. OrderOK(t, S)
    BY <1>1, <1>5, OrderJoined DEF j
  <1>8. /\ m \in Nat /\ n \in Nat /\ n > 0 /\ Len(t) = m + n - 1
        /\ \A i \in 1 .. m : t[i] = more[i]
        /\ \A i \in 2 .. n : t[m + i - 1] = j[i]
    BY <1>1, <1>5, JoinedAt
  <1>9. IsSeq(t)
    BY <1>1, <1>5, WorkOfRest, WorkJoined
  <1>10. j[1] = Head(j)
    BY <1>1, WorkOfRest
  <1>11. t # <<>> => Head(t) = t[1] /\ Len(t) > 0
    BY <1>9, WorkOfRest
  <1> HIDE DEF t, m, n
  <1>12. ASSUME X = {} PROVE ~Doing(w, "pause")'
    <2> SUFFICES ASSUME t # <<>>, t[1].do = "pause" PROVE FALSE
      BY <1>6, <1>11 DEF Doing, Idle
    <2>1. 2 \in 2 .. n /\ m + 2 - 1 = 1 /\ 2 \in 1 .. n
      BY <1>5, <1>8, <1>11, <1>12
    <2>2. t[1] = j[2]
      BY <1>8, <2>1
    <2>3. j[2].do = "pause" => 2 = 1
      BY <2>1 DEF OrderOK, j, n
    <2> QED BY <2>2, <2>3
  <1>13. ASSUME X # {} PROVE Doing(w, "pause")' /\ This(w)'.clouds = X
    <2>1. Len(t) > 0 /\ t[1] = a
      BY <1>5, <1>8, <1>13
    <2>2. t # <<>>
      BY <2>1
    <2> QED BY <1>4, <1>6, <1>11, <2>1, <2>2 DEF Doing, Idle, This
  <1>14. ASSUME NEW x, Owed(j, x) PROVE Owed(t, x) \/ Head(j) = Reconciling(x)
    <2>1. PICK i \in 1 .. n : j[i] = Reconciling(x)
      BY <1>14 DEF Owed, n
    <2>2. CASE i = 1
      BY <1>10, <2>1, <2>2
    <2>3. CASE i # 1
      <3>1. i \in 2 .. n /\ m + i - 1 \in 1 .. Len(t)
        BY <1>8, <2>3
      <3>2. t[m + i - 1] = Reconciling(x)
        BY <1>8, <2>1, <3>1
      <3> QED BY <3>1, <3>2 DEF Owed
    <2> QED BY <2>2, <2>3
  <1> QED BY <1>3, <1>6, <1>7, <1>12, <1>13, <1>14 DEF j, This

LEMMA CloudsAreNumbers ==
  ASSUME NEW s
  PROVE  CloudsOf(s) \in SUBSET Nat /\ CloudsOf(s) \subseteq Clouds /\ ActiveOf(s) \subseteq CloudsOf(s)
         /\ CloudLimit["free"] \in Nat /\ OldestOf(s) \subseteq CloudsOf(s)
  BY DocumentsOK DEF CloudsOf, ActiveOf, OldestOf, Oldest, Tiers

LEMMA ReconcileKeepsPauses ==
  ASSUME Base, OneAtATime, PauseInv, Brief, NEW w \in Workers, ReconcileTierDowngrade(w)
  PROVE  PauseInv'
  <1>0. PICK s : s = This(w).of
    OBVIOUS
  <1> DEFINE n == CloudLimit["free"]
  <1>1. PICK X : /\ Doing(w, "reconcile") /\ Clean /\ UNCHANGED <<db, stripe>>
                 /\ X = ActiveOf(s) \ Oldest(ActiveOf(s), n)
                 /\ Proceed(w, IF X = {} THEN <<>> ELSE <<[do |-> "pause", clouds |-> X]>>)
    BY <1>0, Zenon DEF ReconcileTierDowngrade
  <1>2. /\ ShapeOK /\ StripeGood /\ Grounded /\ OrderOK(job[w], Selling)
        /\ \A x \in Spaces \ hist.touched : Paused(x)
        /\ \A v \in Workers : OrderOK(job[v], Selling)
    BY DEF PauseInv
  <1>3. X \subseteq CloudsOf(s)
    BY <1>1, CloudsAreNumbers
  <1>4. /\ \A v \in Workers : v # w => job[v] = <<>> /\ job'[v] = <<>>
        /\ OrderOK(job'[w], Selling)
        /\ X = {} => ~Doing(w, "pause")'
        /\ X # {} => Doing(w, "pause")' /\ This(w)'.clouds = X
        /\ \A x : Owed(job[w], x) => Owed(job'[w], x) \/ This(w) = Reconciling(x)
    BY <1>1, <1>2, GoesPausing
  <1>5. /\ \A x : CloudsOf(x)' = CloudsOf(x) /\ ActiveOf(x)' = ActiveOf(x) /\ OldestOf(x)' = OldestOf(x)
        /\ \A x : FreePlan(x)' <=> FreePlan(x)
        /\ hist'.touched = hist.touched /\ Selling' = Selling
    BY <1>1 DEF CloudsOf, ActiveOf, OldestOf, FreePlan, Live, Clean, Selling
  <1>6. ShapeOK' /\ StripeGood' /\ Grounded'
    BY <1>1, <1>2, EvenStill, StripeStill DEF Grounded, StripeEven
  <1>7. \A v \in Workers : OrderOK(job'[v], Selling')
    BY <1>4, <1>5, OrderOfNone
  <1>8. \A v \in Workers : ~Doing(v, "pause")
    BY <1>1, OnlyThis DEF Unpaused
  <1>9. s \in Spaces \ hist.touched => (ActiveOf(s) = OldestOf(s) /\ X = {})
                                       \/ (ActiveOf(s) = CloudsOf(s) /\ X = CloudsOf(s) \ OldestOf(s))
    <2> SUFFICES ASSUME s \in Spaces \ hist.touched
                 PROVE  (ActiveOf(s) = OldestOf(s) /\ X = {})
                        \/ (ActiveOf(s) = CloudsOf(s) /\ X = CloudsOf(s) \ OldestOf(s))
      OBVIOUS
    <2>1. CASE ActiveOf(s) = OldestOf(s)
      <3>1. Oldest(ActiveOf(s), n) = ActiveOf(s)
        BY <2>1, CloudsAreNumbers, OldestAgain DEF OldestOf
      <3> QED BY <1>1, <2>1, <3>1
    <2>2. CASE ActiveOf(s) = CloudsOf(s)
      BY <1>1, <2>2 DEF OldestOf
    <2>3. ~\E v \in Workers : Pausing(v, s)
      BY <1>8 DEF Pausing
    <2> QED BY <1>2, <2>1, <2>2, <2>3 DEF Paused
  <1>10. X # {} => Pausing(w, s)'
    <2> SUFFICES ASSUME X # {} PROVE Pausing(w, s)'
      OBVIOUS
    <2>1. s \in Spaces \ hist.touched =>
             ActiveOf(s) = X \cup OldestOf(s) /\ X \cap OldestOf(s) = {}
      BY <1>9, CloudsAreNumbers
    <2>2. Doing(w, "pause")' /\ This(w)'.clouds = X /\ X \subseteq CloudsOf(s)'
      BY <1>3, <1>4, <1>5
    <2>3. s \in Spaces \ hist'.touched =>
             ActiveOf(s)' = X \cup OldestOf(s)' /\ X \cap OldestOf(s)' = {}
      BY <1>5, <2>1
    <2>4. This(w)'.clouds # {} /\ This(w)'.clouds \subseteq CloudsOf(s)'
      BY <2>2
    <2>5. s \in Spaces \ hist'.touched =>
             ActiveOf(s)' = This(w)'.clouds \cup OldestOf(s)' /\ This(w)'.clouds \cap OldestOf(s)' = {}
      BY <2>2, <2>3, Zenon
    <2> QED BY <2>2, <2>4, <2>5 DEF Pausing
  <1>11. \A v \in Workers : Doing(v, "pause")' => \E x : Pausing(v, x)'
    <2> SUFFICES ASSUME NEW v \in Workers, Doing(v, "pause")' PROVE \E x : Pausing(v, x)'
      OBVIOUS
    <2>1. v = w
      BY <1>4 DEF Doing, Idle
    <2> QED BY <1>4, <1>10, <2>1
  <1>12. \A x \in Spaces \ hist'.touched : Paused(x)'
    <2> SUFFICES ASSUME NEW x \in Spaces, x \notin hist.touched PROVE Paused(x)'
      BY <1>5
    <2>1. Paused(x)
      BY <1>2
    <2>2. CASE ActiveOf(x) = OldestOf(x)
      BY <1>5, <2>2 DEF Paused
    <2>3. CASE x # s /\ ActiveOf(x) = CloudsOf(x) /\ (FreePlan(x) => \E v \in Workers : Owed(job[v], x))
      <3>1. ASSUME FreePlan(x)' PROVE \E v \in Workers : Owed(job'[v], x)
        <4>1. PICK v \in Workers : Owed(job[v], x)
          BY <1>5, <2>3, <3>1
        <4>2. v = w
          BY <1>4, <4>1 DEF Owed
        <4>3. This(w) # Reconciling(x)
          BY <1>0, <2>3 DEF Reconciling
        <4> QED BY <1>4, <4>1, <4>2, <4>3
      <3> QED BY <1>5, <2>3, <3>1 DEF Paused
    <2>4. CASE x = s
      <3>1. CASE X = {}
        <4>1. ActiveOf(s) = OldestOf(s)
          BY <1>9, <2>4, <3>1, CloudsAreNumbers
        <4> QED BY <2>2, <2>4, <4>1
      <3>2. CASE X # {}
        <4>1. \E v \in Workers : Pausing(v, x)'
          BY <1>10, <2>4, <3>2
        <4> QED BY <4>1 DEF Paused
      <3> QED BY <3>1, <3>2
    <2>5. ~\E v \in Workers : Pausing(v, x)
      BY <1>8 DEF Pausing
    <2> QED BY <2>1, <2>2, <2>3, <2>4, <2>5 DEF Paused
  <1> QED BY <1>6, <1>7, <1>11, <1>12 DEF PauseInv

LEMMA PauseKeepsPauses ==
  ASSUME Base, OneAtATime, PauseInv, Brief, Brief', NEW w \in Workers, Pause(w)
  PROVE  PauseInv'
  <1> DEFINE P == This(w).clouds
             c == Least(P)
             X == P \ {c}
  <1>1. Doing(w, "pause")
    BY DEF Pause
  <1>2. /\ ShapeOK /\ StripeGood /\ Grounded /\ OrderOK(job[w], Selling)
        /\ \A x \in Spaces \ hist.touched : Paused(x)
        /\ \A v \in Workers : OrderOK(job[v], Selling)
    BY DEF PauseInv
  <1>3. PICK s : Pausing(w, s)
    BY <1>1 DEF PauseInv
  <1>4. P # {} /\ P \subseteq CloudsOf(s) /\ c \in P
    <2>1. P # {} /\ P \subseteq CloudsOf(s)
      BY <1>3 DEF Pausing
    <2>2. P \in SUBSET Nat
      BY <2>1, CloudsAreNumbers
    <2> HIDE DEF P
    <2> QED BY <2>1, <2>2, LeastIsIn
  <1>5. /\ db' = [db EXCEPT !.cloud[c].active = FALSE] /\ Clean /\ UNCHANGED stripe
        /\ Proceed(w, IF X = {} THEN <<>> ELSE <<[do |-> "pause", clouds |-> X]>>) /\ IsCloud(c)
    <2>1. "failed" \notin hist'.lapses
      BY DEF Brief, Barring
    <2>2. ~Throws(w)
      BY <2>1, NotingMore DEF Throws, With, Base
    <2> QED BY <2>2, Zenon DEF Pause
  <1> HIDE DEF P, c, X
  <1>6. s \in Spaces /\ c \in Clouds /\ db.cloud[c].of = s
    BY <1>4, <1>5 DEF IsCloud, CloudsOf
  <1>7. /\ \A v \in Workers : v # w => job[v] = <<>> /\ job'[v] = <<>>
        /\ OrderOK(job'[w], Selling)
        /\ X = {} => ~Doing(w, "pause")'
        /\ X # {} => Doing(w, "pause")' /\ This(w)'.clouds = X
        /\ \A x : Owed(job[w], x) => Owed(job'[w], x) \/ This(w) = Reconciling(x)
    BY <1>1, <1>2, <1>5, GoesPausing
  <1>8. /\ db'.space = db.space /\ db'.cred = db.cred /\ db'.active = db.active
        /\ db'.cloud = [db.cloud EXCEPT ![c].active = FALSE]
    BY <1>5 DEF Base, DbOK, DbFields
  <1>9. /\ DOMAIN db'.cloud = Clouds
        /\ \A x \in Clouds : DOMAIN db'.cloud[x] = DOMAIN NoCloud /\ db'.cloud[x].of = db.cloud[x].of
        /\ \A x \in Clouds : x # c => db'.cloud[x] = db.cloud[x]
        /\ ~db'.cloud[c].active
    BY <1>2, <1>6, <1>8 DEF ShapeOK, NoCloud
  <1>10. ShapeOK' /\ StripeGood' /\ Grounded'
    BY <1>2, <1>5, <1>8, <1>9, StripeStill DEF Grounded, StripeEven, ShapeOK
  <1>11. \A x : CloudsOf(x)' = CloudsOf(x) /\ OldestOf(x)' = OldestOf(x)
    BY <1>9 DEF CloudsOf, OldestOf
  <1>12. \A x : x # s => ActiveOf(x)' = ActiveOf(x)
    <2> SUFFICES ASSUME NEW x, x # s, NEW y PROVE y \in ActiveOf(x)' <=> y \in ActiveOf(x)
      OBVIOUS
    <2>1. y \in CloudsOf(x) => y \in Clouds /\ y # c
      BY <1>6 DEF CloudsOf
    <2> QED BY <1>9, <1>11, <2>1 DEF ActiveOf
  <1>13. ActiveOf(s)' = ActiveOf(s) \ {c}
    <2> SUFFICES ASSUME NEW y \in CloudsOf(s) PROVE y \in ActiveOf(s)' <=> y \in ActiveOf(s) \ {c}
      BY <1>11 DEF ActiveOf
    <2>1. y \in Clouds
      BY DEF CloudsOf
    <2> QED BY <1>9, <1>11, <2>1 DEF ActiveOf
  <1>14. hist'.touched = hist.touched /\ Selling' = Selling /\ \A x : FreePlan(x)' <=> FreePlan(x)
    BY <1>5, <1>8 DEF Clean, Selling, FreePlan, Live
  <1>15. s \in Spaces \ hist.touched => ActiveOf(s)' = X \cup OldestOf(s) /\ X \cap OldestOf(s) = {}
    <2> SUFFICES ASSUME s \in Spaces \ hist.touched PROVE ActiveOf(s)' = X \cup OldestOf(s) /\ X \cap OldestOf(s) = {}
      OBVIOUS
    <2>1. ActiveOf(s) = P \cup OldestOf(s) /\ P \cap OldestOf(s) = {}
      BY <1>3 DEF Pausing, P
    <2> QED BY <1>4, <1>13, <2>1 DEF X
  <1>16. X # {} => Pausing(w, s)'
    <2> SUFFICES ASSUME X # {} PROVE Pausing(w, s)'
      OBVIOUS
    <2>1. X \subseteq CloudsOf(s)
      BY <1>4 DEF X
    <2> QED BY <1>7, <1>11, <1>14, <1>15, <2>1 DEF Pausing
  <1>17. \A v \in Workers : Doing(v, "pause")' => \E x : Pausing(v, x)'
    <2> SUFFICES ASSUME NEW v \in Workers, Doing(v, "pause")' PROVE \E x : Pausing(v, x)'
      OBVIOUS
    <2>1. v = w
      BY <1>7 DEF Doing, Idle
    <2> QED BY <1>7, <1>16, <2>1
  <1>18. \A x \in Spaces \ hist'.touched : Paused(x)'
    <2> SUFFICES ASSUME NEW x \in Spaces, x \notin hist.touched PROVE Paused(x)'
      BY <1>14
    <2>1. CASE x = s
      <3>1. CASE X = {}
        <4>1. ActiveOf(s)' = OldestOf(s)'
          BY <1>11, <1>15, <2>1, <3>1
        <4> QED BY <2>1, <4>1 DEF Paused
      <3>2. CASE X # {}
        BY <1>16, <2>1, <3>2 DEF Paused
      <3> QED BY <3>1, <3>2
    <2>2. CASE x # s
      <3>1. CASE ActiveOf(x) = OldestOf(x)
        BY <1>11, <1>12, <2>2, <3>1 DEF Paused
      <3>2. CASE \E v \in Workers : Pausing(v, x)
        <4>1. PICK v \in Workers : Pausing(v, x)
          BY <3>2
        <4>2. v = w
          BY <1>7, <4>1 DEF Pausing, Doing, Idle
        <4>3. P \subseteq CloudsOf(x)
          BY <4>1, <4>2 DEF Pausing, P
        <4>4. db.cloud[c].of = x
          BY <1>4, <4>3 DEF CloudsOf
        <4> QED BY <1>6, <2>2, <4>4
      <3>3. CASE ActiveOf(x) = CloudsOf(x) /\ (FreePlan(x) => \E v \in Workers : Owed(job[v], x))
        <4>1. ASSUME FreePlan(x)' PROVE \E v \in Workers : Owed(job'[v], x)
          <5>1. PICK v \in Workers : Owed(job[v], x)
            BY <1>14, <3>3, <4>1
          <5>2. v = w
            BY <1>7, <5>1 DEF Owed
          <5>3. This(w) # Reconciling(x)
            BY <1>1 DEF Reconciling, Doing, This
          <5> QED BY <1>7, <5>1, <5>2, <5>3
        <4> QED BY <1>11, <1>12, <2>2, <3>3, <4>1 DEF Paused
      <3>4. Paused(x)
        BY <1>2
      <3> QED BY <3>1, <3>2, <3>3, <3>4 DEF Paused
    <2> QED BY <2>1, <2>2
  <1>19. \A v \in Workers : OrderOK(job'[v], Selling')
    BY <1>7, <1>14, OrderOfNone
  <1> QED BY <1>10, <1>17, <1>18, <1>19 DEF PauseInv

(****************************** every step *********************************)
LEMMA BriefIsInTurn ==
  ASSUME BudgetInv, Brief
  PROVE  OneAtATime
  <1>1. Barring({"failed", "overlap"})
    BY DEF Brief, Barring
  <1> QED BY <1>1 DEF BudgetInv

LEMMA BillingKeepsPauses ==
  ASSUME Base, Base', OneAtATime, PauseInv, Brief, Brief', Grows, BillingNext
  PROVE  PauseInv'
  <1>0. /\ ShapeOK /\ StripeGood
        /\ \A w \in Workers : OrderOK(job[w], Selling)
    BY DEF PauseInv
  <1>1. Even => PauseInv'
    BY EvenKeepsInv
  <1>2. ASSUME NEW u \in Users, NEW plan \in SelfServe, Checkout(u, plan) PROVE Even
    BY <1>0, <1>2, CheckoutEven
  <1>3. ASSUME NEW u \in Users, NEW k \in Subs, NEW change \in SelfServe \cup {"cancel"}, Portal(u, k, change)
        PROVE  Even
    BY <1>0, <1>3, PortalEven
  <1>4. ASSUME NEW w \in Workers, NEW u \in Users, StatusAsked(w, u) PROVE Even
    BY <1>0, <1>4, StatusAskedEven
  <1>5. ASSUME NEW c \in stripe.open, Pay(c) PROVE Even
    BY <1>0, <1>5, PayEven
  <1>6. ASSUME NEW k \in Subs, Dunning(k) PROVE Even
    BY <1>0, <1>6, DunningEven
  <1>7. ASSUME NEW u \in Users, ConvertPersonal(u) PROVE Even
    BY <1>0, <1>7, ConvertPersonalEven
  <1>8. ASSUME NEW w \in Workers, NEW e \in stripe.mail, Deliver(w, e) PROVE Even
    BY <1>0, <1>8, DeliverEven
  <1>9. ASSUME NEW w \in Workers, Completed(w) PROVE Even
    BY <1>0, <1>9, CompletedEven
  <1>10. ASSUME NEW w \in Workers, Upgrade(w) PROVE Even
    BY <1>0, <1>10, UpgradeEven
  <1>11. ASSUME NEW w \in Workers, Updated(w) PROVE Even
    BY <1>0, <1>11, UpdatedEven
  <1>12. ASSUME NEW w \in Workers, Deleted(w) PROVE Even
    BY <1>0, <1>12, DeletedEven
  <1>13. ASSUME NEW w \in Workers, Save(w) PROVE Even
    BY <1>0, <1>13, SaveEven
  <1>14. ASSUME NEW w \in Workers, Mark(w) PROVE Even
    BY <1>0, <1>14, MarkEven
  <1>15. ASSUME NEW w \in Workers, DowngradeOwnedOrganizations(w) PROVE Even
    BY <1>0, <1>15, OrgsEven
  <1>16. ASSUME NEW w \in Workers, Look(w) PROVE Even
    BY <1>0, <1>16, LookEven
  <1>17. ASSUME NEW w \in Workers, InsertOrg(w) PROVE Even
    BY <1>0, <1>17, InsertOrgEven
  <1>18. ASSUME NEW w \in Workers, NEW u \in Users, CreateOrg(w, u) PROVE Even
    BY <1>0, <1>18, CreateOrgEven
  <1>19. ASSUME NEW w \in Workers, ReconcileTierDowngrade(w) PROVE PauseInv'
    BY <1>19, ReconcileKeepsPauses
  <1>20. ASSUME NEW w \in Workers, Pause(w) PROVE PauseInv'
    BY <1>20, PauseKeepsPauses
  <1> HIDE DEF Even, PauseInv
  <1> QED BY <1>1, <1>2, <1>3, <1>4, <1>5, <1>6, <1>7, <1>8, <1>9, <1>10, <1>11, <1>12, <1>13, <1>14, <1>15,
             <1>16, <1>17, <1>18, <1>19, <1>20, Zenon DEF BillingNext

LEMMA CloudAccountsEven ==
  ASSUME Base, OneAtATime, PauseInv, Brief, Brief', CloudAccountsNext
  PROVE  Even
  <1>0. /\ ShapeOK /\ StripeGood
        /\ \A w \in Workers : OrderOK(job[w], Selling)
    BY DEF PauseInv
  <1>1. ASSUME NEW w \in Workers, NEW u \in Users, Connect(w, u) PROVE Even
    BY <1>0, <1>1, ConnectEven
  <1>2. ASSUME NEW w \in Workers, NEW u \in Users, DeleteOrg(w, u) PROVE Even
    BY <1>0, <1>2, DeleteOrgEven
  <1>3. ASSUME NEW w \in Workers, NEW u \in Users, NEW c \in Clouds, Disconnect(w, u, c) PROVE Even
    BY <1>0, <1>3, DisconnectEven
  <1>4. ASSUME NEW w \in Workers, NEW u \in Users, NEW c \in Clouds, Rotate(w, u, c) PROVE Even
    BY <1>0, <1>4, RotateEven
  <1>5. ASSUME NEW u \in Users, NEW c \in Clouds, NEW on \in BOOLEAN, SetStatus(u, c, on) PROVE Even
    BY <1>0, <1>5, SetStatusEven
  <1>6. ASSUME Bystander PROVE Even
    BY <1>0, <1>6, SideIsEven
  <1>7. ASSUME NEW w \in Workers, NEW u, NEW k,
               CreateKey(u) \/ RevokeKey(u, k) \/ RollKey(w, u, k) \/ RevokeRolled(w) \/ SetProfile(w)
        PROVE  Even
    BY <1>6, <1>7, KeysStandBy
  <1>8. ASSUME NEW w \in Workers, NEW u \in Users, DeleteMe(w, u) PROVE Even
    BY <1>0, <1>8, DeleteMeEven
  <1>9. ASSUME NEW w \in Workers, NEW u \in Users, Provision(w, u) PROVE Even
    BY <1>0, <1>9, ProvisionEven
  <1>10. ASSUME NEW w \in Workers, NEW u \in Users, CreateAccount(w, u) PROVE Even
    BY <1>0, <1>10, CreateAccountEven
  <1>11. ASSUME NEW w \in Workers, StoreCredential(w) PROVE Even
    BY <1>0, <1>11, StoreCredentialEven
  <1>12. ASSUME NEW w \in Workers, CreateCloud(w) PROVE Even
    BY <1>0, <1>12, CreateCloudEven
  <1>13. ASSUME NEW w \in Workers, DropCredential(w) PROVE Even
    BY <1>0, <1>13, DropCredentialEven
  <1>14. ASSUME NEW w \in Workers, DropCloud(w) PROVE Even
    BY <1>0, <1>14, DropCloudEven
  <1>15. ASSUME NEW w \in Workers, Rewire(w) PROVE Even
    BY <1>0, <1>15, RewireEven
  <1>16. ASSUME NEW w \in Workers, EraseOne(w) PROVE Even
    BY <1>0, <1>16, EraseOneEven
  <1>17. ASSUME NEW w \in Workers, CancelAll(w) PROVE Even
    BY <1>0, <1>17, CancelAllEven
  <1>18. ASSUME NEW w \in Workers, InsertPersonal(w) PROVE Even
    BY <1>0, <1>18, InsertPersonalEven
  <1> HIDE DEF Even
  <1> QED BY <1>1, <1>2, <1>3, <1>4, <1>5, <1>7, <1>8, <1>9, <1>10, <1>11, <1>12, <1>13, <1>14, <1>15,
             <1>16, <1>17, <1>18, Zenon DEF CloudAccountsNext

LEMMA PausesStay ==
  ASSUME Inv, PauseInv, [Next]_vars
  PROVE  PauseInv'
  <1>0. Inv' /\ Base /\ Base' /\ BudgetInv
    <2>1. Inv'
      BY InvStays
    <2> QED BY <2>1 DEF Inv
  <1>1. CASE UNCHANGED vars
    <2>1. UNCHANGED <<db, job, stripe, hist>>
      BY <1>1 DEF vars
    <2>2. Grows /\ Orderly /\ Untouching /\ (Brief' => Brief)
      BY <2>1 DEF Grows, Orderly, Untouching, Brief, Barring
    <2> SUFFICES ASSUME Brief' PROVE PauseInv'
      BY DEF PauseInv
    <2>3. ShapeOK /\ StripeGood
      BY <2>2 DEF PauseInv
    <2>4. Even
      BY <2>1, <2>2, <2>3, StartsEven
    <2> QED BY <1>0, <2>2, <2>4, EvenKeepsInv
  <1>2. CASE \E w \in Workers : Fails(w)
    <2>1. PICK f : hist' = [Noting(hist, {"failed"}) EXCEPT !.faults = f]
      BY <1>2, Zenon DEF Fails
    <2>2. ~Brief'
      BY <1>0, <2>1 DEF Noting, Base, HistOK, HistFields, Brief, Barring
    <2> QED BY <2>2 DEF PauseInv
  <1>3. CASE BillingNext \/ CloudAccountsNext \/ TeamNext \/ BudgetsNext \/ ConsoleNext
    <2>1. Grows
      <3>1. ConsoleNext => Grows
        BY <1>0, ConsoleIsPlain, MildIsSoft DEF MildStep, Soft
      <3> HIDE DEF Grows
      <3> QED BY <1>0, <1>3, <3>1, BillingIsDiscreet, CloudAccountsIsDiscreet, TeamIsDiscreet, BudgetsIsDiscreet,
                 DiscreetGrows
    <2> SUFFICES ASSUME Brief' PROVE PauseInv'
      BY DEF PauseInv
    <2>2. Brief
      BY <2>1 DEF Grows, Brief, Barring
    <2>3. OneAtATime /\ ShapeOK /\ StripeGood
      BY <1>0, <2>2, BriefIsInTurn DEF PauseInv
    <2>4. Even => PauseInv'
      BY <1>0, <2>1, EvenKeepsInv
    <2>5. CASE BillingNext
      BY <1>0, <2>1, <2>2, <2>3, <2>5, BillingKeepsPauses
    <2>6. CASE CloudAccountsNext
      BY <1>0, <2>2, <2>3, <2>4, <2>6, CloudAccountsEven
    <2>7. CASE TeamNext \/ BudgetsNext \/ ConsoleNext
      <3>1. Bystander
        BY <1>0, <2>7, TeamStandsBy, BudgetsStandBy, ConsoleStandsBy
      <3> QED BY <1>0, <2>3, <2>4, <3>1, SideIsEven
    <2> QED BY <1>3, <2>5, <2>6, <2>7
  <1> QED BY <1>1, <1>2, <1>3, Zenon DEF Next

LEMMA PausesAtFirst ==
  ASSUME Init
  PROVE  PauseInv
  <1>1. PICK c \in Casts :
          /\ db = c.db /\ stripe = c.stripe /\ job = [w \in Workers |-> <<>>]
          /\ hist = [left |-> c.left, faults |-> c.faults, lapses |-> {}, touched |-> {},
                     outgrown |-> {}, sent |-> [t \in Thresholds |-> 0]]
    BY Zenon DEF Init, DocumentsInit
  <1>2. \A w \in Workers : job[w] = <<>>
    BY <1>1
  <1>3. \A w \in Workers : OrderOK(job[w], Selling) /\ ~Doing(w, "pause")
    BY <1>2, OrderOfNone DEF Doing, Idle
  <1>4. ShapeOK
    BY <1>1, CastsOK, Zenon DEF ShapeOK
  <1>5. StripeGood
    <2>1. /\ DOMAIN stripe.sub = Subs /\ \A k \in Subs : DOMAIN stripe.sub[k] = {"plan", "state", "of"}
          /\ \A k \in Subs : stripe.sub[k].state \in {"active", "past_due"} => stripe.sub[k].plan # "free"
          /\ \A o \in stripe.open : o.plan # "free"
          /\ \A e \in stripe.mail : e.kind # "deleted" =>
                e.plan # "free" /\ e.sub \in {k \in Subs : stripe.sub[k].plan # "free"}
      BY <1>1, PlansOK
    <2> QED BY <2>1 DEF StripeGood, Selling, Selected
  <1>6. Grounded
    BY <1>1, PlansOK DEF Grounded
  <1>7. ASSUME NEW s \in Spaces PROVE Paused(s)
    <2>1. \/ ActiveOf(s) = OldestOf(s)
          \/ ActiveOf(s) = CloudsOf(s) /\ ~(db.space[s].type \in Kinds /\ db.space[s].tier = "free")
      BY <1>1, PlansOK DEF ActiveOf, OldestOf, CloudsOf
    <2> QED BY <2>1 DEF Paused, FreePlan, Live
  <1> QED BY <1>3, <1>4, <1>5, <1>6, <1>7 DEF PauseInv

LEMMA PausesHold == Spec => []PauseInv
  BY PausesAtFirst, PausesStay, InvHolds, PTL DEF Spec

(* A workspace on the free plan whose cloud accounts nobody set by hand    *)
(* has exactly the oldest its plan allows active once all is quiet, for    *)
(* any plans, workspaces, cloud accounts and subscriptions, unless a step  *)
(* failed, requests overlapped, or an event came out of order, twice or    *)
(* unmarked (reconcileTierDowngrade).                                      *)
THEOREM OldestKept == Spec => []DowngradeKeepsOldest
  <1>1. PauseInv => DowngradeKeepsOldest
    <2> SUFFICES ASSUME PauseInv, AllIdle, Barring(Settling \cup {"overlap"}),
                        NEW s \in Spaces \ hist.touched, Live(s), db.space[s].tier = "free"
                 PROVE  ActiveOf(s) = Oldest(CloudsOf(s), CloudLimit["free"])
      BY Zenon DEF DowngradeKeepsOldest, QuietNow
    <2>1. Brief
      BY DEF Brief, Barring, Settling
    <2>2. Paused(s)
      BY <2>1 DEF PauseInv
    <2>3. \A w \in Workers : job[w] = <<>>
      BY DEF AllIdle, Idle
    <2>4. \A w \in Workers : ~Pausing(w, s) /\ ~Owed(job[w], s)
      BY <2>3 DEF Pausing, Doing, Idle, Owed
    <2> QED BY <2>2, <2>4 DEF Paused, FreePlan, OldestOf
  <1> QED BY <1>1, PausesHold, PTL

(***************************** credentials *********************************)
(* While no step fails, lets an error go or acts on what another handler   *)
(* has changed (Trusty): a cloud account of a workspace has a credential   *)
(* of that workspace, unless a handler is about to replace it or the       *)
(* workspace is about to go; and a credential is used by a cloud account,  *)
(* unless a handler is about to link it or its workspace is about to go.   *)
CloudWork == {"store", "create", "rewire", "drop_cred", "drop_cloud"}
Afar(j)   == \A x \in Work(j) : x.do \notin CloudWork \cup {"erase", "cancel"}

Known(s)    == s \in Spaces /\ db.space[s].type # "unborn"
Dooms(I, s) == \E i \in I : (i.what = "space" /\ i.of = s) \/ (i.what = "accounts" /\ s \in Owned(i.of))
Fated(I, s) == Known(s) /\ (~Live(s) \/ Dooms(I, s))
Doomed(s)   == Fated({}, s) \/ \E w \in Workers : Fated(Items(job[w]), s)

Holds(j, k) == j # <<>> /\ Tail(j) = <<>> /\ Head(j).do \in {"create", "rewire"} /\ Head(j).cred = k
Mends(j, c) == \E x \in Work(j) : x.do \in {"store", "rewire", "drop_cloud"} /\ x.cloud = c
Spent(k)      == k \in Creds => db.cred[k] = Gone
InPlace(k, s) == db.cred[k] = s \/ (db.cred[k] = Gone /\ Doomed(s))
Reserved(k, c) == k \in Creds =>
    /\ db.cred[k] # None /\ \A x \in Clouds : db.cloud[x].cred = k => x = c
    /\ \A w \in Workers : ~Holds(job[w], k)
Loose(k, w) ==
    /\ k \in Creds /\ db.cred[k] # None /\ \A c \in Clouds : db.cloud[c].cred # k
    /\ \A v \in Workers : Holds(job[v], k) => v = w
Within(c, s) == s \in Spaces => db.cloud[c].of \in {s, Gone}

(* What a handler of cloud accounts carries from step to step.             *)
ToStore(x) ==
    x.do = "store" /\ (x.cloud # None => x.cloud \in Clouds /\ Spent(x.was) /\ Within(x.cloud, x.of))
ToCreate(x, w) == x.do = "create" /\ Loose(x.cred, w) /\ InPlace(x.cred, x.of)
ToRewire(x, w) ==
    /\ x.do = "rewire" /\ x.cloud \in Clouds /\ Spent(x.was) /\ Loose(x.cred, w)
    /\ db.cloud[x.cloud].of # None /\ (IsCloud(x.cloud) => InPlace(x.cred, db.cloud[x.cloud].of))
ToDrop(x) == x.do = "drop_cloud" /\ x.cloud \in Clouds /\ Spent(x.was)
ToReplace(x, y) ==
    /\ x.do = "drop_cred" /\ y.do \in {"store", "drop_cloud"} /\ y.cloud \in Clouds /\ y.was = x.cred
    /\ Reserved(x.cred, y.cloud) /\ (y.do = "store" => Within(y.cloud, y.of))
Ending(j) ==
    /\ \A x \in Work(j) : x.do \in {"erase", "cancel"} /\ (x.do = "erase" => ~x.broke)
    /\ \A i \in Items(j) : /\ i = Item(i.what, i.of) /\ i.what \in Cascade \cup Ends \cup {"seats"}
                           /\ i.what \in {"clouds", "creds"} => Fated(Items(j), i.of)
ToDo(x, w) == ToStore(x) \/ ToCreate(x, w) \/ ToRewire(x, w) \/ ToDrop(x)
Carries(j, w) ==
    \/ Afar(j) \/ Ending(j)
    \/ j # <<>> /\ Tail(j) = <<>> /\ ToDo(Head(j), w)
    \/ j # <<>> /\ Tail(j) # <<>> /\ Tail(Tail(j)) = <<>> /\ ToReplace(Head(j), Head(Tail(j)))

Lasting(c) == IsCloud(c) =>
    LET s == db.cloud[c].of
        k == db.cloud[c].cred
    IN Known(s) /\ k \in Creds /\ (db.cred[k] = s \/ Doomed(s) \/ \E w \in Workers : Mends(job[w], c))
OwnCred(c) == db.cloud[c].cred \in Creds =>
    db.cred[db.cloud[c].cred] # None /\ \A x \in Clouds : db.cloud[x].cred = db.cloud[c].cred => x = c
Useful(k) == db.cred[k] \in Spaces =>
    /\ Known(db.cred[k])
    /\ \/ Doomed(db.cred[k]) \/ \E w \in Workers : Holds(job[w], k)
       \/ \E c \in Clouds : db.cloud[c].cred = k /\ db.cloud[c].of = db.cred[k]
Trusty  == Barring({"failed", "stale", "swallowed"})
Matched ==
    /\ ShapeOK /\ \A w \in Workers : Carries(job[w], w)
    /\ \A c \in Clouds : Lasting(c) /\ OwnCred(c)
    /\ \A k \in Creds : Useful(k)
CredInv == Trusty => Matched

(* What every step leaves of the documents, for the handlers that do not   *)
(* make it: W makes it.                                                    *)
SpacesLast == \A s \in Spaces : Known(s) =>
    /\ Known(s)' /\ db'.space[s].owner = db.space[s].owner
    /\ ~Live(s) => ~Live(s)'
CloudsLast(W) == \A c \in Clouds :
    /\ db.cloud[c].of = None \/ db'.cloud[c].of \in {db.cloud[c].of, Gone}
    /\ \/ db'.cloud[c].cred = db.cloud[c].cred
       \/ \E w \in W : Holds(job[w], db'.cloud[c].cred)
CredsLast == \A k \in Creds :
    \/ db'.cred[k] = db.cred[k]
    \/ db.cred[k] = None
    \/ /\ db'.cred[k] = Gone
       /\ \/ \E s : s = db.cred[k] /\ Doomed(s)'
          \/ \A v \in Workers : ~Holds(job[v], k)
OthersWait(W) == \A v \in Workers \ W : job'[v] = job[v] \/ (Afar(job[v]) /\ Afar(job'[v]))
World(W) ==
    /\ W \in SUBSET Workers /\ OthersWait(W)
    /\ ShapeOK' /\ SpacesLast /\ CloudsLast(W) /\ CredsLast
    /\ \A w \in W : \A s : Fated(Items(job[w]), s) => Doomed(s)'
    /\ \A w \in W, k \in Creds : Holds(job'[w], k) => Holds(job[w], k) \/ db.cred[k] = None

LEMMA NothingIsNone ==
  /\ None \notin Spaces /\ Gone \notin Spaces /\ None \notin Clouds /\ None \notin Creds
  /\ Gone # None
  BY DocumentsOK DEF None, Gone

LEMMA AfarIs ==
  ASSUME NEW j, IsSeq(j), Afar(j)
  PROVE  /\ Items(j) = {} /\ (\A k : ~Holds(j, k)) /\ (\A c : ~Mends(j, c))
         /\ j # <<>> => Head(j).do \notin CloudWork \cup {"erase", "cancel"}
  <1>1. j # <<>> => Head(j) \in Work(j)
    BY WorkOfRest
  <1>2. Items(j) = {}
    BY DEF Items, Afar
  <1> QED BY <1>1, <1>2 DEF Afar, Holds, Mends, CloudWork

LEMMA FateStays ==
  ASSUME SpacesLast, NEW I, NEW s, Fated(I, s)
  PROVE  Fated(I, s)'
  <1>1. Known(s) /\ s \in Spaces /\ Known(s)' /\ db'.space[s].owner = db.space[s].owner /\ (~Live(s) => ~Live(s)')
    BY DEF Fated, Known, SpacesLast
  <1>2. CASE ~Live(s)
    BY <1>1, <1>2 DEF Fated
  <1>3. CASE Dooms(I, s) /\ Live(s)'
    <2>1. \A u : s \in Owned(u) => s \in Owned(u)'
      BY <1>1, <1>3 DEF Owned
    <2>2. Dooms(I, s)'
      BY <1>3, <2>1 DEF Dooms
    <2> QED BY <1>1, <2>2 DEF Fated
  <1> QED BY <1>1, <1>2, <1>3 DEF Fated

LEMMA DoomStays ==
  ASSUME Base, NEW W, World(W), NEW s, Doomed(s)
  PROVE  Doomed(s)'
  <1>0. SpacesLast
    BY DEF World
  <1>1. CASE Fated({}, s)
    <2>1. Fated({}, s)'
      BY <1>0, <1>1, FateStays
    <2> QED BY <2>1 DEF Doomed
  <1>2. ASSUME NEW v \in Workers, Fated(Items(job[v]), s) PROVE Doomed(s)'
    <2>1. CASE v \in W
      BY <1>2, <2>1 DEF World
    <2>2. CASE job'[v] = job[v]
      <3>1. PICK I : I = Items(job[v])
        OBVIOUS
      <3>2. Fated(I, s)'
        BY <1>0, <1>2, <3>1, FateStays
      <3>3. I = Items(job'[v])
        BY <2>2, <3>1
      <3>4. Fated(Items(job[v]), s)'
        BY <3>2, <3>3 DEF Fated, Dooms
      <3> QED BY <3>4 DEF Doomed
    <2>3. CASE Afar(job[v])
      <3>1. Items(job[v]) = {}
        BY <2>3, JobsAreSeqs, AfarIs DEF Base
      <3> QED BY <1>1, <1>2, <3>1
    <2> QED BY <2>1, <2>2, <2>3 DEF World, OthersWait
  <1> QED BY <1>1, <1>2 DEF Doomed

LEMMA HolderHas ==
  ASSUME NEW j, IsSeq(j), NEW w, Carries(j, w), NEW k, Holds(j, k)
  PROVE  Loose(k, w)
  <1>1. j # <<>> /\ Tail(j) = <<>> /\ Head(j).do \in {"create", "rewire"} /\ Head(j).cred = k
    BY DEF Holds
  <1>2. Head(j) \in Work(j)
    BY <1>1, WorkOfRest
  <1>3. ~Afar(j) /\ ~Ending(j)
    BY <1>1, <1>2 DEF Afar, Ending, CloudWork
  <1>4. ToDo(Head(j), w)
    BY <1>1, <1>3 DEF Carries
  <1> QED BY <1>1, <1>4 DEF ToDo, ToStore, ToCreate, ToRewire, ToDrop

LEMMA HoldersHave ==
  ASSUME Base, Matched, NEW v \in Workers, NEW k, Holds(job[v], k)
  PROVE  Loose(k, v)
  BY JobsAreSeqs, HolderHas DEF Base, Matched

(* What others do leaves what a handler carries good.                      *)
LEMMA SpentStays ==
  ASSUME NEW W, World(W), NEW k, Spent(k)
  PROVE  Spent(k)'
  BY NothingIsNone DEF World, CredsLast, Spent

LEMMA StoredStays ==
  ASSUME NEW W, World(W), NEW k \in Creds, db.cred[k] # None
  PROVE  db'.cred[k] # None
  BY NothingIsNone DEF World, CredsLast

LEMMA WithinStays ==
  ASSUME NEW W, World(W), NEW c \in Clouds, NEW s, Within(c, s)
  PROVE  Within(c, s)'
  BY NothingIsNone DEF World, CloudsLast, Within

(* A credential that nobody else holds, or that nobody holds, is not linked *)
(* by another.                                                             *)
LEMMA HoldingNew ==
  ASSUME Base, Base', NEW W, World(W), NEW k \in Creds, db.cred[k] # None, NEW v \in Workers, Holds(job[v], k)'
  PROVE  Holds(job[v], k)
  <1>1. Holds(job'[v], k)
    BY DEF Holds
  <1>2. CASE v \in W
    BY <1>1, <1>2 DEF World
  <1>3. CASE job'[v] = job[v]
    BY <1>1, <1>3
  <1>4. CASE Afar(job'[v])
    <2>1. IsSeq(job'[v])
      BY JobsAreSeqsNext DEF Base
    <2> QED BY <1>1, <1>4, <2>1, AfarIs
  <1> QED BY <1>2, <1>3, <1>4 DEF World, OthersWait

LEMMA LooseStays ==
  ASSUME Base, Base', NEW W, World(W), NEW w \in Workers \ W, NEW k, Holds(job[w], k), Loose(k, w)
  PROVE  Loose(k, w)'
  <1>1. k \in Creds /\ db.cred[k] # None /\ (\A c \in Clouds : db.cloud[c].cred # k)
        /\ \A v \in Workers : Holds(job[v], k) => v = w
    BY DEF Loose
  <1>2. db'.cred[k] # None
    BY <1>1, StoredStays
  <1>3. \A c \in Clouds : db'.cloud[c].cred # k
    BY <1>1 DEF World, CloudsLast
  <1>4. \A v \in Workers : Holds(job[v], k)' => v = w
    BY <1>1, HoldingNew
  <1> QED BY <1>1, <1>2, <1>3, <1>4 DEF Loose

LEMMA InPlaceStays ==
  ASSUME Base, Base', NEW W, World(W), NEW w \in Workers, NEW k \in Creds, Holds(job[w], k), db.cred[k] # None,
         NEW s, InPlace(k, s)
  PROVE  InPlace(k, s)'
  <1>1. Doomed(s) => Doomed(s)'
    BY DoomStays
  <1>2. \/ db'.cred[k] = db.cred[k]
        \/ db'.cred[k] = Gone /\ \E t : t = db.cred[k] /\ Doomed(t)'
    BY DEF World, CredsLast
  <1>3. CASE db.cred[k] = Gone /\ Doomed(s)
    <2>1. db'.cred[k] = Gone
      BY <1>2, <1>3
    <2> QED BY <1>1, <1>3, <2>1 DEF InPlace
  <1>4. CASE db.cred[k] = s
    BY <1>2, <1>4 DEF InPlace
  <1> QED BY <1>3, <1>4 DEF InPlace

LEMMA ReservedStays ==
  ASSUME Base, Base', NEW W, World(W), NEW k, NEW c, Reserved(k, c)
  PROVE  Reserved(k, c)'
  <1> SUFFICES ASSUME k \in Creds PROVE Reserved(k, c)'
    BY DEF Reserved
  <1>1. /\ db.cred[k] # None /\ \A x \in Clouds : db.cloud[x].cred = k => x = c
        /\ \A v \in Workers : ~Holds(job[v], k)
    BY DEF Reserved
  <1>2. db'.cred[k] # None
    BY <1>1, StoredStays
  <1>3. \A x \in Clouds : db'.cloud[x].cred = k => x = c
    BY <1>1 DEF World, CloudsLast
  <1>4. \A v \in Workers : ~Holds(job[v], k)'
    BY <1>1, HoldingNew
  <1> QED BY <1>2, <1>3, <1>4 DEF Reserved

LEMMA EndingStays ==
  ASSUME SpacesLast, NEW j, Ending(j)
  PROVE  Ending(j)'
  <1>1. ASSUME NEW s, Fated(Items(j), s) PROVE Fated(Items(j), s)'
    <2>1. PICK I : I = Items(j)
      OBVIOUS
    <2>2. Fated(I, s)'
      BY <1>1, <2>1, FateStays
    <2> QED BY <2>1, <2>2 DEF Fated, Dooms, Items, Work
  <1> QED BY <1>1 DEF Ending, Items, Work

LEMMA ToDoStays ==
  ASSUME Base, Base', NEW W, World(W), NEW w \in Workers \ W, NEW x, ToDo(x, w),
         x.do \in {"create", "rewire"} => Holds(job[w], x.cred)
  PROVE  ToDo(x, w)'
  <1>1. CASE ToStore(x)
    <2>1. ToStore(x)'
      BY <1>1, SpentStays, WithinStays DEF ToStore
    <2> QED BY <2>1 DEF ToDo
  <1>2. CASE ToCreate(x, w)
    <2>1. PICK k, s : k = x.cred /\ s = x.of
      OBVIOUS
    <2>2. Loose(k, w) /\ InPlace(k, s) /\ Holds(job[w], k) /\ k \in Creds /\ db.cred[k] # None
      BY <1>2, <2>1 DEF ToCreate, Loose
    <2>3. Loose(k, w)' /\ InPlace(k, s)'
      BY <2>2, LooseStays, InPlaceStays
    <2>4. ToCreate(x, w)'
      BY <1>2, <2>1, <2>3 DEF ToCreate
    <2> QED BY <2>4 DEF ToDo
  <1>3. CASE ToRewire(x, w)
    <2>1. PICK k, c, s : k = x.cred /\ c = x.cloud /\ s = db.cloud[x.cloud].of
      OBVIOUS
    <2>2. /\ Loose(k, w) /\ Holds(job[w], k) /\ k \in Creds /\ db.cred[k] # None
          /\ c \in Clouds /\ s = db.cloud[c].of /\ s # None /\ (IsCloud(c) => InPlace(k, s)) /\ Spent(x.was)
      BY <1>3, <2>1 DEF ToRewire, Loose
    <2>3. Loose(k, w)' /\ (IsCloud(c) => InPlace(k, s)') /\ Spent(x.was)'
      BY <2>2, LooseStays, InPlaceStays, SpentStays
    <2>4. db'.cloud[c].of \in {s, Gone}
      BY <2>2 DEF World, CloudsLast
    <2>5. db'.cloud[c].of # None /\ (IsCloud(c)' => IsCloud(c) /\ db'.cloud[c].of = s)
      BY <2>2, <2>4, NothingIsNone DEF IsCloud
    <2>6. \A t : t = s => (InPlace(k, s)' => InPlace(k, t)')
      OBVIOUS
    <2>7. IsCloud(c)' => InPlace(k, db.cloud[c].of)'
      BY <2>3, <2>5 DEF InPlace
    <2>8. ToRewire(x, w)'
      BY <1>3, <2>1, <2>2, <2>3, <2>5, <2>7 DEF ToRewire
    <2> QED BY <2>8 DEF ToDo
  <1>4. CASE ToDrop(x)
    <2>1. ToDrop(x)'
      BY <1>4, SpentStays DEF ToDrop
    <2> QED BY <2>1 DEF ToDo
  <1> QED BY <1>1, <1>2, <1>3, <1>4 DEF ToDo

LEMMA ToReplaceStays ==
  ASSUME Base, Base', NEW W, World(W), NEW x, NEW y, ToReplace(x, y)
  PROVE  ToReplace(x, y)'
  <1>1. Reserved(x.cred, y.cloud)'
    BY ReservedStays DEF ToReplace
  <1>2. y.do = "store" => Within(y.cloud, y.of)'
    BY WithinStays DEF ToReplace
  <1> QED BY <1>1, <1>2 DEF ToReplace

LEMMA CarriesStays ==
  ASSUME Base, Base', Matched, NEW W, World(W), NEW w \in Workers \ W
  PROVE  Carries(job[w], w)'
  <1>1. CASE Afar(job'[w])
    BY <1>1 DEF Carries, Afar, Work
  <1>2. CASE job'[w] = job[w]
    <2>1. PICK j : j = job[w]
      OBVIOUS
    <2>2. Carries(j, w)
      BY <2>1 DEF Matched
    <2>3. Carries(j, w)'
      <3>1. CASE Afar(j)
        BY <3>1 DEF Carries, Afar, Work
      <3>2. CASE Ending(j)
        <4>1. Ending(j)'
          BY <3>2, EndingStays DEF World
        <4> QED BY <4>1 DEF Carries
      <3>3. CASE j # <<>> /\ Tail(j) = <<>> /\ ToDo(Head(j), w)
        <4>1. PICK x : x = Head(j)
          OBVIOUS
        <4>2. x.do \in {"create", "rewire"} => Holds(job[w], x.cred)
          BY <2>1, <3>3, <4>1 DEF Holds
        <4>3. ToDo(x, w)'
          BY <3>3, <4>1, <4>2, ToDoStays
        <4> QED BY <3>3, <4>1, <4>3 DEF Carries
      <3>4. CASE j # <<>> /\ Tail(j) # <<>> /\ Tail(Tail(j)) = <<>> /\ ToReplace(Head(j), Head(Tail(j)))
        <4>1. PICK x, y : x = Head(j) /\ y = Head(Tail(j))
          OBVIOUS
        <4>2. ToReplace(x, y)'
          BY <3>4, <4>1, ToReplaceStays
        <4> QED BY <3>4, <4>1, <4>2 DEF Carries
      <3> QED BY <2>2, <3>1, <3>2, <3>3, <3>4 DEF Carries
    <2> QED BY <1>2, <2>1, <2>3
  <1> QED BY <1>1, <1>2 DEF World, OthersWait

(* A step keeps credentials matched if it does so for the handler that     *)
(* makes it, and for the cloud accounts and credentials it changes.        *)
CloudStays(c, W) ==
    /\ db'.cloud[c].of = db.cloud[c].of /\ db'.cloud[c].cred = db.cloud[c].cred
    /\ \A w \in W : Mends(job[w], c) => Mends(job'[w], c)
    /\ db.cloud[c].cred \in Creds =>
          \/ db'.cred[db.cloud[c].cred] = db.cred[db.cloud[c].cred]
          \/ \E s : s = db.cloud[c].of /\ Doomed(s)'
          \/ \E w \in W : Mends(job'[w], c)
CredStays(k, W) ==
    /\ db'.cred[k] = db.cred[k]
    /\ \A w \in W : Holds(job[w], k) => Holds(job'[w], k)
    /\ \A c \in Clouds : db.cloud[c].cred = k /\ db.cloud[c].of = db.cred[k] =>
          \/ db'.cloud[c].cred = k /\ db'.cloud[c].of = db.cred[k]
          \/ \E s : s = db.cred[k] /\ Doomed(s)'

LEMMA LastingStays ==
  ASSUME Base, Base', Matched, NEW W, World(W), NEW c \in Clouds, CloudStays(c, W)
  PROVE  Lasting(c)'
  <1> SUFFICES ASSUME IsCloud(c)' PROVE Lasting(c)'
    BY DEF Lasting
  <1>1. PICK s, k : s = db.cloud[c].of /\ k = db.cloud[c].cred
    OBVIOUS
  <1>2. db'.cloud[c].of = s /\ db'.cloud[c].cred = k /\ IsCloud(c)
    BY <1>1 DEF CloudStays, IsCloud
  <1>3. Known(s) /\ k \in Creds /\ (db.cred[k] = s \/ Doomed(s) \/ \E w \in Workers : Mends(job[w], c))
    BY <1>1, <1>2 DEF Matched, Lasting
  <1>4. Known(s)'
    BY <1>3 DEF World, SpacesLast, Known
  <1>5. Doomed(s) => Doomed(s)'
    BY DoomStays
  <1>6. ASSUME NEW w \in Workers, Mends(job[w], c) PROVE Mends(job'[w], c)
    <2>1. CASE w \in W
      BY <1>6, <2>1 DEF CloudStays
    <2>2. CASE job'[w] = job[w]
      BY <1>6, <2>2
    <2>3. CASE Afar(job[w])
      BY <1>6, <2>3, JobsAreSeqs, AfarIs DEF Base
    <2> QED BY <2>1, <2>2, <2>3 DEF World, OthersWait
  <1>7. db.cred[k] = s => db'.cred[k] = s \/ Doomed(s)' \/ \E w \in Workers : Mends(job'[w], c)
    BY <1>1, <1>3 DEF CloudStays, World
  <1>8. db'.cred[k] = s \/ Doomed(s)' \/ \E w \in Workers : Mends(job'[w], c)
    BY <1>3, <1>5, <1>6, <1>7
  <1>9. (\E w \in Workers : Mends(job'[w], c)) => (\E w \in Workers : Mends(job[w], c))'
    BY DEF Mends, Work
  <1>10. Known(db.cloud[c].of)'
    BY <1>2, <1>4 DEF Known
  <1>11. Doomed(s)' => Doomed(db.cloud[c].of)'
    BY <1>2 DEF Doomed, Fated, Dooms, Known, Live
  <1> QED BY <1>2, <1>3, <1>8, <1>9, <1>10, <1>11 DEF Lasting

LEMMA OwnCredsStay ==
  ASSUME Matched, NEW W, World(W), \A c \in Clouds : db'.cloud[c].cred = db.cloud[c].cred, NEW c \in Clouds
  PROVE  OwnCred(c)'
  <1> SUFFICES ASSUME db'.cloud[c].cred \in Creds PROVE OwnCred(c)'
    BY DEF OwnCred
  <1>1. PICK k : k = db.cloud[c].cred
    OBVIOUS
  <1>2. k \in Creds /\ db.cred[k] # None /\ \A x \in Clouds : db.cloud[x].cred = k => x = c
    BY <1>1 DEF Matched, OwnCred
  <1>3. db'.cred[k] # None
    BY <1>2, StoredStays
  <1> QED BY <1>1, <1>2, <1>3 DEF OwnCred

LEMMA UsefulStays ==
  ASSUME Base, Base', Matched, NEW W, World(W), NEW k \in Creds, CredStays(k, W)
  PROVE  Useful(k)'
  <1> SUFFICES ASSUME db'.cred[k] \in Spaces PROVE Useful(k)'
    BY DEF Useful
  <1>1. PICK s : s = db.cred[k]
    OBVIOUS
  <1>2. db'.cred[k] = s /\ s \in Spaces
    BY <1>1 DEF CredStays
  <1>3. /\ Known(s)
        /\ \/ Doomed(s) \/ \E w \in Workers : Holds(job[w], k)
           \/ \E c \in Clouds : db.cloud[c].cred = k /\ db.cloud[c].of = s
    BY <1>1, <1>2 DEF Matched, Useful
  <1>4. Known(s)'
    BY <1>3 DEF World, SpacesLast, Known
  <1>5. Doomed(s) => Doomed(s)'
    BY DoomStays
  <1>6. ASSUME NEW w \in Workers, Holds(job[w], k) PROVE Holds(job'[w], k)
    <2>1. CASE w \in W
      BY <1>6, <2>1 DEF CredStays
    <2>2. CASE job'[w] = job[w]
      BY <1>6, <2>2
    <2>3. CASE Afar(job[w])
      BY <1>6, <2>3, JobsAreSeqs, AfarIs DEF Base
    <2> QED BY <2>1, <2>2, <2>3 DEF World, OthersWait
  <1>7. ASSUME NEW c \in Clouds, db.cloud[c].cred = k, db.cloud[c].of = s
        PROVE  Doomed(s)' \/ (db'.cloud[c].cred = k /\ db'.cloud[c].of = s)
    BY <1>1, <1>7 DEF CredStays
  <1>8. \/ Doomed(s)' \/ \E w \in Workers : Holds(job'[w], k)
        \/ \E c \in Clouds : db'.cloud[c].cred = k /\ db'.cloud[c].of = s
    BY <1>3, <1>5, <1>6, <1>7
  <1>9. (\E w \in Workers : Holds(job'[w], k)) => (\E w \in Workers : Holds(job[w], k))'
    BY DEF Holds
  <1>10. Known(db.cred[k])' /\ (Doomed(s)' => Doomed(db.cred[k])')
    BY <1>2, <1>4 DEF Doomed, Fated, Dooms, Known, Live
  <1> QED BY <1>2, <1>8, <1>9, <1>10 DEF Useful

LEMMA MatchedStays ==
  ASSUME Base, Base', Matched, NEW W, World(W), \A w \in W : Carries(job[w], w)',
         \A c \in Clouds : Lasting(c)' \/ CloudStays(c, W),
         (\A c \in Clouds : OwnCred(c)') \/ \A c \in Clouds : db'.cloud[c].cred = db.cloud[c].cred,
         \A k \in Creds : Useful(k)' \/ CredStays(k, W)
  PROVE  Matched'
  <1>1. ShapeOK'
    BY DEF World
  <1>2. ASSUME NEW w \in Workers PROVE Carries(job[w], w)'
    BY CarriesStays
  <1>3. ASSUME NEW c \in Clouds PROVE Lasting(c)' /\ OwnCred(c)'
    BY LastingStays, OwnCredsStay
  <1>4. ASSUME NEW k \in Creds PROVE Useful(k)'
    BY UsefulStays
  <1> QED BY <1>1, <1>2, <1>3, <1>4 DEF Matched

(* A step that neither stores, links nor drops anything.                   *)
SameCreds ==
    /\ ShapeOK' /\ SpacesLast /\ db'.cred = db.cred
    /\ \A c \in Clouds : db'.cloud[c].of = db.cloud[c].of /\ db'.cloud[c].cred = db.cloud[c].cred
LEMMA StillMatched ==
  ASSUME Base, Base', Matched, SameCreds, NEW W \in SUBSET Workers, OthersWait(W),
         \A w \in W : /\ Carries(job[w], w)'
                      /\ \A s : Fated(Items(job[w]), s) => Doomed(s)'
                      /\ \A k : ~Holds(job[w], k) /\ ~Holds(job'[w], k)
                      /\ \A c : ~Mends(job[w], c)
  PROVE  Matched'
  <1>1. World(W)
    BY DEF World, SameCreds, CloudsLast, CredsLast
  <1>2. \A c \in Clouds : CloudStays(c, W)
    BY DEF SameCreds, CloudStays
  <1>3. \A k \in Creds : CredStays(k, W)
    BY DEF SameCreds, CredStays
  <1> QED BY <1>1, <1>2, <1>3, MatchedStays DEF SameCreds

(******************** steps that leave credentials alone *******************)
ErrandWork == SideWork \cup {"completed", "updated", "deleted", "mark", "upgrade", "save", "reconcile", "pause",
                             "orgs", "look", "insert", "personal"}
Errands(t) == IsSeq(t) /\ \A x \in Work(t) : x.do \in ErrandWork
Errand == "failed" \in hist'.lapses \/ ((ShapeOK => SameCreds) /\ Busied(ErrandWork))

LEMMA ErrandsAreAfar ==
  /\ \A t : Errands(t) => Afar(t)
  /\ ErrandWork \cap (CloudWork \cup {"erase", "cancel", "drop_cred"}) = {}
  BY DEF Errands, Afar, ErrandWork, SideWork, BudgetWork, SeatWork, CloudWork

LEMMA IdleIsAfar == Afar(<<>>)
  BY WorkOfNone DEF Afar

LEMMA ErrandMatches ==
  ASSUME Base, Base', Matched, SameCreds, Busied(ErrandWork)
  PROVE  Matched'
  <1>1. ASSUME NEW v \in Workers, job'[v] # job[v] PROVE Afar(job[v]) /\ Afar(job'[v])
    <2>1. job[v] = <<>> \/ Head(job[v]).do \in ErrandWork
      BY <1>1 DEF Busied
    <2>2. PICK more : IsSeq(more) /\ (\A x \in Work(more) : x.do \in ErrandWork) /\ Following(v, more)
      BY <1>1 DEF Busied
    <2>3. IsSeq(job[v])
      BY JobsAreSeqs DEF Base
    <2>4. Afar(job[v])
      <3>1. CASE job[v] = <<>>
        BY <3>1, IdleIsAfar
      <3>2. CASE job[v] # <<>>
        <4>1. Head(job[v]) \in Work(job[v]) /\ Head(job[v]).do \notin CloudWork \cup {"erase", "cancel", "drop_cred"}
          BY <2>1, <2>3, <3>2, WorkOfRest, ErrandsAreAfar
        <4>2. Carries(job[v], v)
          BY DEF Matched
        <4> QED BY <4>1, <4>2 DEF Carries, Ending, ToDo, ToStore, ToCreate, ToRewire, ToDrop, ToReplace, CloudWork
      <3> QED BY <3>1, <3>2
    <2>5. Afar(more)
      BY <2>2, ErrandsAreAfar DEF Errands
    <2>6. CASE job[v] = <<>>
      BY <2>2, <2>4, <2>5, <2>6 DEF Following
    <2>7. CASE job[v] # <<>>
      <3>1. IsSeq(Tail(job[v])) /\ Work(Tail(job[v])) \subseteq Work(job[v])
        BY <2>3, <2>7, WorkOfRest
      <3>2. Work(more \o Tail(job[v])) = Work(more) \cup Work(Tail(job[v]))
        BY <2>2, <3>1, WorkJoined
      <3> QED BY <2>2, <2>4, <2>5, <2>7, <3>1, <3>2 DEF Following, Afar
    <2> QED BY <2>4, <2>6, <2>7
  <1>2. OthersWait({})
    BY <1>1 DEF OthersWait
  <1> QED BY <1>2, StillMatched

(* What is left of the documents, case by case.                            *)
LEMMA SameDb ==
  ASSUME UNCHANGED db
  PROVE  ShapeOK => SameCreds
  BY DEF SameCreds, ShapeOK, SpacesLast, Known, Live

LEMMA UndisturbedCreds ==
  ASSUME Undisturbed
  PROVE  SameCreds
  BY DEF SameCreds, Undisturbed, SpaceKept, SpacesLast, Known, Live

LEMMA SpacesOnly ==
  ASSUME DbOK, ShapeOK, DOMAIN db' = DOMAIN db, \A f \in DbFields \ {"space"} : db'[f] = db[f],
         DOMAIN db'.space = Spaces, \A s \in Spaces : DOMAIN db'.space[s] = DOMAIN NoSpace,
         SpacesLast
  PROVE  SameCreds
  BY DEF SameCreds, ShapeOK, DbOK, DbFields

LEMMA BornCreds ==
  ASSUME DbOK, ShapeOK, NEW s, s \in Unborn, NEW doc, doc.type \in Kinds, DOMAIN doc = DOMAIN NoSpace,
         db' = [db EXCEPT !.space[s] = doc]
  PROVE  SameCreds
  <1>1. DOMAIN db' = DOMAIN db /\ \A f \in DbFields \ {"space"} : db'[f] = db[f]
    BY DEF DbOK, DbFields
  <1>2. db'.space = [db.space EXCEPT ![s] = doc]
    BY DEF DbOK, DbFields
  <1>3. DOMAIN db'.space = Spaces /\ \A x \in Spaces : DOMAIN db'.space[x] = DOMAIN NoSpace
    BY <1>2 DEF ShapeOK
  <1>4. \A x \in Spaces : Known(x) => x # s /\ db'.space[x] = db.space[x]
    BY <1>2 DEF Unborn, ShapeOK, Known
  <1>5. SpacesLast
    BY <1>4 DEF SpacesLast, Known, Live
  <1> QED BY <1>1, <1>3, <1>5, SpacesOnly

LEMMA ErrandsAre ==
  /\ Errands(<<>>)
  /\ \A a : a.do \in ErrandWork => Errands(<<a>>)
  /\ \A a, b : a.do \in ErrandWork /\ b.do \in ErrandWork => Errands(<<a, b>>)
  /\ \A s, t : Errands(s) /\ Errands(t) => Errands(s \o t)
  <1>1. Errands(<<>>)
    BY WorkOfNone DEF Errands
  <1>2. \A a : a.do \in ErrandWork => Errands(<<a>>)
    <2> SUFFICES ASSUME NEW a, a.do \in ErrandWork PROVE Errands(<<a>>)
      OBVIOUS
    <2>1. IsSeq(<<a>>) /\ Work(<<a>>) = {a}
      BY WorkOfOne
    <2> QED BY <2>1 DEF Errands
  <1>3. \A a, b : a.do \in ErrandWork /\ b.do \in ErrandWork => Errands(<<a, b>>)
    BY WorkOfTwo DEF Errands
  <1>4. \A s, t : Errands(s) /\ Errands(t) => Errands(s \o t)
    <2> SUFFICES ASSUME NEW s, NEW t, Errands(s), Errands(t) PROVE Errands(s \o t)
      OBVIOUS
    <2>1. IsSeq(s \o t) /\ Work(s \o t) = Work(s) \cup Work(t)
      BY WorkJoined DEF Errands
    <2> QED BY <2>1 DEF Errands
  <1> QED BY <1>1, <1>2, <1>3, <1>4

LEMMA ErrandOn ==
  ASSUME Base, NEW w \in Workers, NEW d \in ErrandWork, Doing(w, d), NEW more, Errands(more), Proceed(w, more),
         ShapeOK => SameCreds
  PROVE  Errand
  BY BusiedOn DEF Errand, Errands

LEMMA ErrandStarts ==
  ASSUME Base, NEW w \in Workers, NEW steps, Errands(steps), Begin(w, steps), ShapeOK => SameCreds
  PROVE  Errand
  BY BusiedStart DEF Errand, Errands

LEMMA ErrandAtOnce ==
  ASSUME UNCHANGED job, ShapeOK => SameCreds
  PROVE  Errand
  BY BusiedStill DEF Errand

LEMMA ThrowsFails ==
  ASSUME Base, NEW w, Throws(w)
  PROVE  "failed" \in hist'.lapses
  BY NotingMore DEF Throws, With, Base

LEMMA SideIsErrand ==
  ASSUME Bystander
  PROVE  Errand
  <1>1. CASE "failed" \in hist'.lapses
    BY <1>1 DEF Errand
  <1>2. CASE (ShapeOK => Undisturbed) /\ Busied(SideWork)
    <2>1. \A x \in SideWork : x \in ErrandWork
      BY DEF ErrandWork
    <2>2. Busied(ErrandWork)
      BY <1>2, <2>1 DEF Busied
    <2> QED BY <1>2, <2>2, UndisturbedCreds DEF Errand
  <1> QED BY <1>1, <1>2 DEF Bystander

LEMMA UpdatedErrand ==
  ASSUME Base, NEW w \in Workers, Updated(w)
  PROVE  Errand
  <1> DEFINE e      == This(w).ev
             action == ClassifySubscriptionStatus[e.state]
             Tier(s) == CASE action = "apply" -> e.plan [] action = "downgrade" -> "free"
                          [] OTHER -> db.space[s].tier
             First(s) == <<SaveOf(s, Tier(s), e.sub)>>
             Second(s) == IF Tier(s) = "free" THEN <<Reconciling(s)>> ELSE <<>>
             Third(s) == IF action = "downgrade" THEN <<[do |-> "orgs", owner |-> db.space[s].owner]>> ELSE <<>>
             more == IF Subscriber(e.sub) = {} THEN <<>>
                     ELSE LET s == Least(Subscriber(e.sub)) IN First(s) \o Second(s) \o Third(s)
  <1>1. /\ Doing(w, "updated") /\ Proceed(w, more) /\ UNCHANGED db
    BY Zenon DEF Updated
  <1>2. ASSUME NEW s PROVE Errands(First(s)) /\ Errands(Second(s)) /\ Errands(Third(s))
    <2>1. Errands(First(s))
      <3> DEFINE a == SaveOf(s, Tier(s), e.sub)
      <3>1. a.do = "save"
        BY DEF SaveOf
      <3> HIDE DEF a
      <3>2. Errands(<<a>>)
        BY <3>1, ErrandsAre DEF ErrandWork
      <3> QED BY <3>2 DEF a
    <2>2. Errands(Second(s))
      <3>1. Errands(<<Reconciling(s)>>)
        BY ErrandsAre DEF ErrandWork, Reconciling
      <3> HIDE DEF Tier
      <3> QED BY <3>1, ErrandsAre
    <2>3. Errands(Third(s))
      <3>1. Errands(<<[do |-> "orgs", owner |-> db.space[s].owner]>>)
        BY ErrandsAre DEF ErrandWork
      <3> HIDE DEF action
      <3> QED BY <3>1, ErrandsAre
    <2> QED BY <2>1, <2>2, <2>3
  <1>3. Errands(more)
    <2> HIDE DEF First, Second, Third, e
    <2> QED BY <1>2, ErrandsAre
  <1> HIDE DEF more
  <1> QED BY <1>1, <1>3, SameDb, ErrandOn DEF ErrandWork

LEMMA DeletedErrand ==
  ASSUME Base, NEW w \in Workers, Deleted(w)
  PROVE  Errand
  <1> DEFINE e == This(w).ev
             Steps(s) == <<SaveOf(s, "free", None), Reconciling(s),
                           [do |-> "orgs", owner |-> db.space[s].owner]>>
             more == IF Subscriber(e.sub) = {} THEN <<>> ELSE Steps(Least(Subscriber(e.sub)))
  <1>1. /\ Doing(w, "deleted") /\ Proceed(w, more) /\ UNCHANGED db
    BY Zenon DEF Deleted
  <1>2. ASSUME NEW s PROVE Errands(Steps(s))
    <2> DEFINE a == SaveOf(s, "free", None)
               b == Reconciling(s)
               c == [do |-> "orgs", owner |-> db.space[s].owner]
    <2>1. a.do = "save" /\ b.do = "reconcile" /\ c.do = "orgs"
      BY DEF SaveOf, Reconciling
    <2> HIDE DEF a, b, c
    <2>2. <<a, b, c>> \in Seq({a, b, c}) /\ Work(<<a, b, c>>) = {a, b, c}
      BY DEF Work
    <2>3. Errands(<<a, b, c>>)
      BY <2>1, <2>2 DEF Errands, IsSeq, ErrandWork
    <2> QED BY <2>3 DEF a, b, c
  <1>3. Errands(more)
    <2> HIDE DEF Steps
    <2> QED BY <1>2, ErrandsAre
  <1> HIDE DEF more
  <1> QED BY <1>1, <1>3, SameDb, ErrandOn DEF ErrandWork

LEMMA PauseErrand ==
  ASSUME Base, NEW w \in Workers, Pause(w)
  PROVE  Errand
  <1>1. CASE Throws(w)
    BY <1>1, ThrowsFails DEF Errand
  <1>2. CASE ~Throws(w)
    <2>1. /\ Doing(w, "pause")
          /\ \E more : Proceed(w, more) /\ (more = <<>> \/ \E x : more = <<[do |-> "pause", clouds |-> x]>>)
      BY <1>2, Zenon DEF Pause
    <2>2. PICK c : db' = [db EXCEPT !.cloud[c].active = FALSE]
      BY <1>2, Zenon DEF Pause
    <2>3. \A x : Errands(<<[do |-> "pause", clouds |-> x]>>)
      BY ErrandsAre DEF ErrandWork
    <2>4. ASSUME ShapeOK PROVE SameCreds
      <3>1. /\ db'.space = db.space /\ db'.cred = db.cred /\ db'.active = db.active
            /\ db'.cloud = [db.cloud EXCEPT ![c].active = FALSE]
        BY <2>2 DEF Base, DbOK, DbFields
      <3>2. /\ DOMAIN db'.cloud = Clouds
            /\ \A x \in Clouds : /\ DOMAIN db'.cloud[x] = DOMAIN NoCloud /\ db'.cloud[x].of = db.cloud[x].of
                                 /\ db'.cloud[x].cred = db.cloud[x].cred
        BY <2>4, <3>1 DEF ShapeOK, NoCloud
      <3> QED BY <2>4, <3>1, <3>2 DEF SameCreds, ShapeOK, SpacesLast, Known, Live
    <2> QED BY <2>1, <2>3, <2>4, ErrandsAre, ErrandOn DEF ErrandWork
  <1> QED BY <1>1, <1>2

LEMMA OrgsErrand ==
  ASSUME Base, NEW w \in Workers, DowngradeOwnedOrganizations(w)
  PROVE  Errand
  <1> DEFINE o     == This(w).owner
             stale == {s \in Owned(o) : db.space[s].type = "organization" /\ db.space[s].tier \in SelfServe}
             Nth(k) == CHOOSE s \in stale : Cardinality({d \in stale : d <= s}) = k
             Step(k) == LET s == Nth((k + 1) \div 2)
                        IN IF k % 2 = 1 THEN SaveOf(s, "free", db.space[s].sub) ELSE Reconciling(s)
             n      == 2 * Cardinality(stale)
             steps  == [k \in 1 .. n |-> Step(k)]
  <1>1. Doing(w, "orgs") /\ Proceed(w, steps) /\ UNCHANGED db
    BY Zenon DEF DowngradeOwnedOrganizations
  <1>2. n \in Nat
    <2>1. IsFiniteSet(stale)
      BY DocumentsOK, FS_Subset DEF Owned
    <2>2. Cardinality(stale) \in Nat
      BY <2>1, FS_CardinalityType
    <2> HIDE DEF stale
    <2> QED BY <2>2
  <1>3. \A k : Step(k).do \in {"save", "reconcile"}
    <2> SUFFICES ASSUME NEW k PROVE Step(k).do \in {"save", "reconcile"}
      OBVIOUS
    <2> HIDE DEF Nth
    <2>1. PICK s : Step(k) = SaveOf(s, "free", db.space[s].sub) \/ Step(k) = Reconciling(s)
      BY Zenon
    <2> HIDE DEF Step
    <2> QED BY <2>1 DEF SaveOf, Reconciling
  <1> HIDE DEF n, Step
  <1>4. Errands(steps)
    <2> DEFINE S == {Step(k) : k \in 1 .. n}
    <2>1. steps \in [1 .. n -> S]
      OBVIOUS
    <2>2. steps \in Seq(S) /\ Len(steps) = n
      BY <1>2, <2>1, SeqDef
    <2>3. Work(steps) = S
      BY <2>1, <2>2 DEF Work
    <2>4. \A x \in Work(steps) : x.do \in {"save", "reconcile"}
      BY <1>3, <2>3
    <2> QED BY <2>2, <2>3, <2>4 DEF Errands, IsSeq, ErrandWork
  <1> HIDE DEF steps
  <1> QED BY <1>1, <1>4, SameDb, ErrandOn DEF ErrandWork

LEMMA LookErrand ==
  ASSUME Base, NEW w \in Workers, Look(w)
  PROVE  Errand
  <1>1. PICK more : /\ Doing(w, "look") /\ Proceed(w, more) /\ UNCHANGED db
                    /\ \/ more = <<>>
                       \/ \E s, doc, sub : more = <<[do |-> "save", of |-> s, was |-> doc, tier |-> "free",
                                                     sub |-> sub], Reconciling(s)>>
    <2>1. PICK reach \in [own : BOOLEAN, owner : BOOLEAN] :
            LET s == This(w).of
                doc == This(w).was
                got == doc.sub # None /\ reach.own IN
            Proceed(w, IF doc.tier \notin SelfServe \/ TierIsBacked(doc, reach) THEN <<>>
                       ELSE <<[do |-> "save", of |-> s, was |-> doc, tier |-> "free",
                               sub |-> IF got THEN doc.sub ELSE None], Reconciling(s)>>)
      BY Zenon DEF Look
    <2>2. Doing(w, "look") /\ UNCHANGED db
      BY Zenon DEF Look
    <2>3. CASE This(w).was.tier \notin SelfServe \/ TierIsBacked(This(w).was, reach)
      BY <2>1, <2>2, <2>3, Zenon
    <2>4. CASE ~(This(w).was.tier \notin SelfServe \/ TierIsBacked(This(w).was, reach))
      BY <2>1, <2>2, <2>4, Zenon
    <2> QED BY <2>3, <2>4
  <1>2. \A s, doc, sub : Errands(<<[do |-> "save", of |-> s, was |-> doc, tier |-> "free", sub |-> sub], Reconciling(s)>>)
    <2> SUFFICES ASSUME NEW s, NEW doc, NEW sub
                 PROVE  Errands(<<[do |-> "save", of |-> s, was |-> doc, tier |-> "free", sub |-> sub], Reconciling(s)>>)
      OBVIOUS
    <2> DEFINE a == [do |-> "save", of |-> s, was |-> doc, tier |-> "free", sub |-> sub]
    <2>1. a.do = "save" /\ Reconciling(s).do = "reconcile"
      BY DEF Reconciling
    <2> HIDE DEF a
    <2>2. Errands(<<a, Reconciling(s)>>)
      BY <2>1, ErrandsAre DEF ErrandWork
    <2> QED BY <2>2 DEF a
  <1> QED BY <1>1, <1>2, SameDb, ErrandsAre, ErrandOn DEF ErrandWork

LEMMA BillingErrands ==
  ASSUME Base, BillingNext
  PROVE  Errand
  <1> USE DEF ErrandWork
  <1>s. UNCHANGED db => (ShapeOK => SameCreds)
    BY SameDb
  <1>1. ASSUME NEW u, NEW plan, Checkout(u, plan) PROVE Errand
    <2>1. PICK s : AtOnce /\ db' = [db EXCEPT !.space[s].cust = TRUE]
      BY <1>1, Zenon DEF Checkout
    <2>2. ShapeOK => SameCreds
      <3> SUFFICES ASSUME ShapeOK PROVE SameCreds
        OBVIOUS
      <3>1. DOMAIN db' = DOMAIN db /\ \A f \in DbFields \ {"space"} : db'[f] = db[f]
        BY <2>1 DEF Base, DbOK, DbFields
      <3>2. db'.space = [db.space EXCEPT ![s].cust = TRUE]
        BY <2>1 DEF Base, DbOK, DbFields
      <3>3. DOMAIN db'.space = Spaces /\ \A x \in Spaces : DOMAIN db'.space[x] = DOMAIN NoSpace /\ SpaceKept(x)
        BY <3>2 DEF ShapeOK, SpaceKept, NoSpace
      <3>4. SpacesLast
        BY <3>3 DEF SpacesLast, SpaceKept, Known, Live
      <3> QED BY <3>1, <3>3, <3>4, SpacesOnly DEF Base
    <2> QED BY <2>1, <2>2, ErrandAtOnce DEF AtOnce
  <1>2. ASSUME NEW u, NEW k, NEW change, Portal(u, k, change) PROVE Errand
    <2>1. AtOnce /\ UNCHANGED db
      BY <1>2, Zenon DEF Portal
    <2> QED BY <1>s, <2>1, ErrandAtOnce DEF AtOnce
  <1>3. ASSUME NEW w \in Workers, NEW u, StatusAsked(w, u) PROVE Errand
    <2>1. PICK s : Begin(w, <<[do |-> "look", of |-> s, was |-> db.space[s]]>>) /\ UNCHANGED db
      BY <1>3, Zenon DEF StatusAsked
    <2>2. Errands(<<[do |-> "look", of |-> s, was |-> db.space[s]]>>)
      BY ErrandsAre
    <2> QED BY <1>s, <2>1, <2>2, ErrandStarts
  <1>4. ASSUME NEW c, Pay(c) PROVE Errand
    <2>1. UNCHANGED <<db, job>>
      BY <1>4, Zenon DEF Pay
    <2> QED BY <1>s, <2>1, ErrandAtOnce
  <1>5. ASSUME NEW k, Dunning(k) PROVE Errand
    <2>1. UNCHANGED <<db, job>>
      BY <1>5, Zenon DEF Dunning
    <2> QED BY <1>s, <2>1, ErrandAtOnce
  <1>6. ASSUME NEW u, ConvertPersonal(u) PROVE Errand
    <2>1. PICK s : Live(s) /\ AtOnce /\ db' = [db EXCEPT !.space[s].type = "organization"]
      BY <1>6 DEF ConvertPersonal, Personal, Owned
    <2>2. ShapeOK => SameCreds
      <3> SUFFICES ASSUME ShapeOK PROVE SameCreds
        OBVIOUS
      <3>1. DOMAIN db' = DOMAIN db /\ \A f \in DbFields \ {"space"} : db'[f] = db[f]
        BY <2>1 DEF Base, DbOK, DbFields
      <3>2. db'.space = [db.space EXCEPT ![s].type = "organization"]
        BY <2>1 DEF Base, DbOK, DbFields
      <3>3. /\ DOMAIN db'.space = Spaces /\ \A x \in Spaces : DOMAIN db'.space[x] = DOMAIN NoSpace
            /\ \A x \in Spaces : db'.space[x].owner = db.space[x].owner
            /\ \A x \in Spaces : db'.space[x].type = IF x = s THEN "organization" ELSE db.space[x].type
        BY <3>2 DEF ShapeOK, NoSpace
      <3>4. SpacesLast
        BY <2>1, <3>3 DEF SpacesLast, Known, Live, Kinds
      <3> QED BY <3>1, <3>3, <3>4, SpacesOnly DEF Base
    <2> QED BY <2>1, <2>2, ErrandAtOnce DEF AtOnce
  <1>7. ASSUME NEW w \in Workers, NEW e \in stripe.mail, Deliver(w, e) PROVE Errand
    <2>1. Idle(w) /\ UNCHANGED db /\ (UNCHANGED job \/ job' = [job EXCEPT ![w] = Handling(e)])
      BY <1>7, Zenon DEF Deliver
    <2>2. CASE UNCHANGED job
      BY <1>s, <2>1, <2>2, ErrandAtOnce
    <2>3. CASE job' = [job EXCEPT ![w] = Handling(e)]
      <3>1. e.kind \in {"completed", "updated", "deleted"}
        BY DEF Base, StripeOK
      <3>2. Errands(Handling(e))
        BY <3>1, ErrandsAre DEF Handling
      <3>3. PICK steps : steps = Handling(e)
        OBVIOUS
      <3>4. Following(w, steps) /\ job[w] = <<>>
        BY <2>1, <2>3, <3>3 DEF Following, Base, JobsOK, Idle
      <3>5. \A v \in Workers : v # w => job'[v] = job[v]
        BY <2>3 DEF Base, JobsOK
      <3>6. Busied(ErrandWork)
        BY <3>2, <3>3, <3>4, <3>5 DEF Busied, Errands
      <3> QED BY <1>s, <2>1, <3>6 DEF Errand
    <2> QED BY <2>1, <2>2, <2>3
  <1>8. ASSUME NEW w \in Workers, Completed(w) PROVE Errand
    <2>1. PICK e, tier : Doing(w, "completed") /\ UNCHANGED db /\ Proceed(w, <<[do |-> "upgrade", ev |-> e, tier |-> tier]>>)
      BY <1>8, Zenon DEF Completed
    <2>2. Errands(<<[do |-> "upgrade", ev |-> e, tier |-> tier]>>)
      BY ErrandsAre
    <2> QED BY <1>s, <2>1, <2>2, ErrandOn
  <1>9. ASSUME NEW w \in Workers, Upgrade(w) PROVE Errand
    <2>1. Doing(w, "upgrade") /\ Proceed(w, <<>>)
      BY <1>9, Zenon DEF Upgrade
    <2>2. \/ UNCHANGED db
          \/ \E s, t, k : db' = [db EXCEPT !.space[s].tier = t, !.space[s].sub = k, !.space[s].cust = TRUE]
      BY <1>9, Zenon DEF Upgrade
    <2>3. ASSUME NEW s, NEW t, NEW k, ShapeOK,
                 db' = [db EXCEPT !.space[s].tier = t, !.space[s].sub = k, !.space[s].cust = TRUE]
          PROVE  SameCreds
      <3>1. DOMAIN db' = DOMAIN db /\ \A f \in DbFields \ {"space"} : db'[f] = db[f]
        BY <2>3 DEF Base, DbOK, DbFields
      <3>3. /\ DOMAIN db'.space = Spaces
            /\ \A x \in Spaces : /\ DOMAIN db'.space[x] = DOMAIN NoSpace /\ db'.space[x].type = db.space[x].type
                                 /\ db'.space[x].owner = db.space[x].owner
        BY <2>3 DEF Base, DbOK, DbFields, ShapeOK, NoSpace
      <3>4. SpacesLast
        BY <3>3 DEF SpacesLast, Known, Live
      <3> QED BY <2>3, <3>1, <3>3, <3>4, SpacesOnly DEF Base
    <2> QED BY <1>s, <2>1, <2>2, <2>3, ErrandsAre, ErrandOn
  <1>10. ASSUME NEW w \in Workers, Updated(w) PROVE Errand
    BY <1>10, UpdatedErrand
  <1>11. ASSUME NEW w \in Workers, Deleted(w) PROVE Errand
    BY <1>11, DeletedErrand
  <1>12. ASSUME NEW w \in Workers, Save(w) PROVE Errand
    <2>1. CASE Throws(w)
      BY <2>1, ThrowsFails DEF Errand
    <2>2. CASE ~Throws(w)
      <3>1. Doing(w, "save") /\ Proceed(w, <<>>)
        BY <1>12, <2>2, Zenon DEF Save
      <3> DEFINE p == This(w)
      <3>2. db' = [db EXCEPT !.space[p.of].tier = IF p.tier = p.was.tier THEN @ ELSE p.tier,
                             !.space[p.of].sub  = IF p.sub = p.was.sub THEN @ ELSE p.sub]
        BY <1>12, <2>2, Zenon DEF Save
      <3> HIDE DEF p
      <3>3. ASSUME ShapeOK PROVE SameCreds
        <4>1. DOMAIN db' = DOMAIN db /\ \A f \in DbFields \ {"space"} : db'[f] = db[f]
          BY <3>2 DEF Base, DbOK, DbFields
        <4>2. /\ DOMAIN db'.space = Spaces
              /\ \A x \in Spaces : /\ DOMAIN db'.space[x] = DOMAIN NoSpace /\ db'.space[x].type = db.space[x].type
                                   /\ db'.space[x].owner = db.space[x].owner
          BY <3>2, <3>3 DEF Base, DbOK, DbFields, ShapeOK, NoSpace
        <4>3. SpacesLast
          BY <4>2 DEF SpacesLast, Known, Live
        <4> QED BY <3>3, <4>1, <4>2, <4>3, SpacesOnly DEF Base
      <3> QED BY <3>1, <3>3, ErrandsAre, ErrandOn
    <2> QED BY <2>1, <2>2
  <1>13. ASSUME NEW w \in Workers, Mark(w) PROVE Errand
    <2>1. Doing(w, "mark") /\ Proceed(w, <<>>) /\ UNCHANGED db
      BY <1>13, Zenon DEF Mark
    <2> QED BY <1>s, <2>1, ErrandsAre, ErrandOn
  <1>14. ASSUME NEW w \in Workers, ReconcileTierDowngrade(w) PROVE Errand
    <2>1. /\ Doing(w, "reconcile") /\ UNCHANGED db
          /\ \E more : Proceed(w, more) /\ (more = <<>> \/ \E x : more = <<[do |-> "pause", clouds |-> x]>>)
      BY <1>14, Zenon DEF ReconcileTierDowngrade
    <2>2. \A x : Errands(<<[do |-> "pause", clouds |-> x]>>)
      BY ErrandsAre
    <2> QED BY <1>s, <2>1, <2>2, ErrandsAre, ErrandOn
  <1>15. ASSUME NEW w \in Workers, Pause(w) PROVE Errand
    BY <1>15, PauseErrand
  <1>16. ASSUME NEW w \in Workers, DowngradeOwnedOrganizations(w) PROVE Errand
    BY <1>16, OrgsErrand
  <1>17. ASSUME NEW w \in Workers, Look(w) PROVE Errand
    BY <1>17, LookErrand
  <1>18. ASSUME NEW w \in Workers, InsertOrg(w) PROVE Errand
    <2> DEFINE p == This(w)
               doc == [NoSpace EXCEPT !.type = "organization", !.owner = p.owner, !.tier = p.tier]
    <2>1. db' = [db EXCEPT !.space[Least(Unborn)] = doc] /\ Unborn # {}
      BY <1>18, Zenon DEF InsertOrg
    <2>2. Doing(w, "insert") /\ Proceed(w, <<>>)
      BY <1>18, Zenon DEF InsertOrg
    <2>3. doc.type \in Kinds /\ DOMAIN doc = DOMAIN NoSpace
      BY DEF NoSpace, Kinds
    <2> HIDE DEF doc
    <2>4. ShapeOK => SameCreds
      BY <2>1, <2>3, FreshSpace, BornCreds DEF Base
    <2> QED BY <2>2, <2>4, ErrandsAre, ErrandOn
  <1>19. ASSUME NEW w \in Workers, NEW u, CreateOrg(w, u) PROVE Errand
    <2>1. PICK s : Begin(w, <<[do |-> "insert", owner |-> u, from |-> s, tier |-> db.space[s].tier]>>) /\ UNCHANGED db
      BY <1>19, Zenon DEF CreateOrg
    <2>2. Errands(<<[do |-> "insert", owner |-> u, from |-> s, tier |-> db.space[s].tier]>>)
      BY ErrandsAre
    <2> QED BY <1>s, <2>1, <2>2, ErrandStarts
  <1> QED BY <1>1, <1>2, <1>3, <1>4, <1>5, <1>6, <1>7, <1>8, <1>9, <1>10, <1>11, <1>12, <1>13, <1>14, <1>15,
             <1>16, <1>17, <1>18, <1>19, Zenon DEF BillingNext

LEMMA CloudAccountsErrands ==
  ASSUME Base, NEW w \in Workers, NEW u, NEW c, NEW on, NEW k,
         \/ CreateKey(u) \/ RevokeKey(u, k) \/ RollKey(w, u, k) \/ RevokeRolled(w) \/ SetProfile(w)
         \/ SetStatus(u, c, on) \/ Provision(w, u) \/ CreateAccount(w, u) \/ InsertPersonal(w)
  PROVE  Errand
  <1> USE DEF ErrandWork
  <1>1. CASE CreateKey(u) \/ RevokeKey(u, k) \/ RollKey(w, u, k) \/ RevokeRolled(w) \/ SetProfile(w)
    BY <1>1, KeysStandBy, SideIsErrand
  <1>2. CASE SetStatus(u, c, on)
    <2>1. db' = [db EXCEPT !.cloud[c].active = on] /\ UNCHANGED job
      BY <1>2, Zenon DEF SetStatus
    <2>2. ASSUME ShapeOK PROVE SameCreds
      <3>1. /\ db'.space = db.space /\ db'.cred = db.cred /\ db'.active = db.active
            /\ db'.cloud = [db.cloud EXCEPT ![c].active = on]
        BY <2>1 DEF Base, DbOK, DbFields
      <3>2. /\ DOMAIN db'.cloud = Clouds
            /\ \A x \in Clouds : /\ DOMAIN db'.cloud[x] = DOMAIN NoCloud /\ db'.cloud[x].of = db.cloud[x].of
                                 /\ db'.cloud[x].cred = db.cloud[x].cred
        BY <2>2, <3>1 DEF ShapeOK, NoCloud
      <3> QED BY <2>2, <3>1, <3>2 DEF SameCreds, ShapeOK, SpacesLast, Known, Live
    <2> QED BY <2>1, <2>2, ErrandAtOnce
  <1>3. CASE Provision(w, u)
    <2>1. PICK s : /\ Begin(w, <<[do |-> "profile", user |-> u, of |-> s]>>)
                   /\ db' = [db EXCEPT !.space[s] = NewPersonal(u)] /\ s = Least(Unborn) /\ Unborn # {}
      BY <1>3, Zenon DEF Provision
    <2>2. Errands(<<[do |-> "profile", user |-> u, of |-> s]>>)
      BY ErrandsAre DEF SideWork
    <2>3. ShapeOK => SameCreds
      BY <2>1, PersonalIs, FreshSpace, BornCreds DEF Base
    <2> QED BY <2>1, <2>2, <2>3, ErrandStarts
  <1>4. CASE CreateAccount(w, u)
    <2>1. Begin(w, <<[do |-> "personal", user |-> u]>>) /\ UNCHANGED db
      BY <1>4, Zenon DEF CreateAccount
    <2>2. Errands(<<[do |-> "personal", user |-> u]>>)
      BY ErrandsAre
    <2> QED BY <2>1, <2>2, SameDb, ErrandStarts
  <1>5. CASE InsertPersonal(w)
    <2>1. Doing(w, "personal") /\ Proceed(w, <<>>) /\ Unborn # {}
      BY <1>5, Zenon DEF InsertPersonal
    <2>2. PICK x : db' = [db EXCEPT !.space[Least(Unborn)] = NewPersonal(x)]
      BY <1>5, Zenon DEF InsertPersonal
    <2>3. ShapeOK => SameCreds
      BY <2>1, <2>2, PersonalIs, FreshSpace, BornCreds DEF Base
    <2> QED BY <2>1, <2>3, ErrandsAre, ErrandOn
  <1> QED BY <1>1, <1>2, <1>3, <1>4, <1>5

(******************** requests about cloud accounts start ******************)
LEMMA StartMatches ==
  ASSUME Base, Base', Matched, UNCHANGED db, NEW w \in Workers, job[w] = <<>>,
         \A v \in Workers : v # w => job'[v] = job[v],
         Carries(job[w], w)', \A k : ~Holds(job'[w], k)
  PROVE  Matched'
  <1>1. SameCreds
    BY SameDb DEF Matched
  <1>2. \A s : Fated({}, s) => Doomed(s)'
    BY <1>1, FateStays DEF SameCreds, Doomed
  <1>3. Items(job[w]) = {} /\ (\A k : ~Holds(job[w], k)) /\ \A c : ~Mends(job[w], c)
    BY IdleIsAfar, WorkOfNone, AfarIs
  <1>4. OthersWait({w})
    BY DEF OthersWait
  <1> QED BY <1>1, <1>2, <1>3, <1>4, StillMatched

LEMMA BeganIs ==
  ASSUME Base, NEW w \in Workers, NEW steps, Begin(w, steps)
  PROVE  job[w] = <<>> /\ job'[w] = steps /\ \A v \in Workers : v # w => job'[v] = job[v]
  BY DEF Begin, Idle, Base, JobsOK

LEMMA TwoIs ==
  ASSUME NEW a, NEW b
  PROVE  /\ <<a, b>> # <<>> /\ Head(<<a, b>>) = a /\ Tail(<<a, b>>) = <<b>> /\ <<b>> # <<>>
         /\ Head(<<b>>) = b /\ Tail(<<b>>) = <<>>
  <1>1. IsSeq(<<a, b>>) /\ <<a, b>> # <<>> /\ Len(<<a, b>>) = 2 /\ <<a, b>>[1] = a /\ <<a, b>>[2] = b
    BY WorkOfTwo
  <1>2. Head(<<a, b>>) = a /\ Tail(<<a, b>>) = <<b>>
    BY <1>1, WorkOfRest
  <1> QED BY <1>1, <1>2, WorkOfOne

LEMMA ConnectMatches ==
  ASSUME Base, Base', Matched, NEW w \in Workers, NEW u, Connect(w, u)
  PROVE  Matched'
  <1>1. PICK s : Begin(w, <<[do |-> "store", of |-> s, cloud |-> None, was |-> None]>>) /\ UNCHANGED db
    BY Zenon DEF Connect
  <1> DEFINE a == [do |-> "store", of |-> s, cloud |-> None, was |-> None]
  <1>2. a.do = "store" /\ a.cloud = None
    OBVIOUS
  <1>3. ToStore(a)'
    BY <1>2 DEF ToStore
  <1>4. job[w] = <<>> /\ job'[w] = <<a>> /\ \A v \in Workers : v # w => job'[v] = job[v]
    BY <1>1, BeganIs
  <1> HIDE DEF a
  <1>5. <<a>> # <<>> /\ Head(<<a>>) = a /\ Tail(<<a>>) = <<>>
    BY WorkOfOne
  <1>6. ToDo(a, w)'
    BY <1>3 DEF ToDo
  <1>7. Carries(<<a>>, w)'
    BY <1>5, <1>6 DEF Carries
  <1>8. Carries(job[w], w)'
    BY <1>4, <1>7
  <1>9. \A k : ~Holds(job'[w], k)
    BY <1>2, <1>4, <1>5 DEF Holds
  <1> QED BY <1>1, <1>4, <1>8, <1>9, StartMatches

(* The credential of a cloud account is about to be dropped.               *)
LEMMA DroppingMatches ==
  ASSUME Base, Base', Matched, UNCHANGED db, NEW w \in Workers, NEW c \in Clouds, NEW y, NEW k,
         k = db.cloud[c].cred, Begin(w, <<[do |-> "drop_cred", cred |-> k], y>>),
         y.do \in {"store", "drop_cloud"}, y.cloud = c, y.was = k, y.do = "store" => y.of = db.cloud[c].of
  PROVE  Matched'
  <1> DEFINE x == [do |-> "drop_cred", cred |-> k]
  <1>1. x.do = "drop_cred" /\ x.cred = k
    OBVIOUS
  <1>2. job[w] = <<>> /\ job'[w] = <<x, y>> /\ \A v \in Workers : v # w => job'[v] = job[v]
    BY BeganIs
  <1> HIDE DEF x
  <1>3. /\ <<x, y>> # <<>> /\ Head(<<x, y>>) = x /\ Tail(<<x, y>>) = <<y>> /\ <<y>> # <<>>
        /\ Head(<<y>>) = y /\ Tail(<<y>>) = <<>>
    BY TwoIs
  <1>4. \A l : ~Holds(job'[w], l)
    BY <1>2, <1>3 DEF Holds
  <1>5. Reserved(k, c)'
    <2> SUFFICES ASSUME k \in Creds PROVE Reserved(k, c)'
      BY DEF Reserved
    <2>1. db.cred[k] # None /\ \A z \in Clouds : db.cloud[z].cred = k => z = c
      BY DEF Matched, OwnCred
    <2>2. ASSUME NEW v \in Workers PROVE ~Holds(job'[v], k)
      <3>1. CASE v = w
        BY <1>4, <3>1
      <3>2. CASE v # w
        <4>1. Holds(job[v], k) => Loose(k, v)
          BY HoldersHave
        <4>2. ~Holds(job[v], k)
          BY <4>1 DEF Loose
        <4> QED BY <1>2, <3>2, <4>2
      <3> QED BY <3>1, <3>2
    <2>3. \A v \in Workers : ~Holds(job[v], k)'
      BY <2>2 DEF Holds
    <2> QED BY <2>1, <2>3 DEF Reserved
  <1>6. y.do = "store" => Within(c, y.of)'
    BY DEF Within
  <1>7. ToReplace(x, y)'
    BY <1>1, <1>5, <1>6 DEF ToReplace
  <1>8. Carries(<<x, y>>, w)'
    BY <1>3, <1>7 DEF Carries
  <1>9. Carries(job[w], w)'
    BY <1>2, <1>8
  <1> QED BY <1>2, <1>4, <1>9, StartMatches

LEMMA DisconnectMatches ==
  ASSUME Base, Base', Matched, NEW w \in Workers, NEW u, NEW c \in Clouds, Disconnect(w, u, c)
  PROVE  Matched'
  <1>1. PICK k : /\ k = db.cloud[c].cred /\ UNCHANGED db
                 /\ Begin(w, <<[do |-> "drop_cred", cred |-> k], [do |-> "drop_cloud", cloud |-> c, was |-> k]>>)
    BY Zenon DEF Disconnect, Dropping
  <1> DEFINE y == [do |-> "drop_cloud", cloud |-> c, was |-> k]
  <1>2. y.do = "drop_cloud" /\ y.cloud = c /\ y.was = k
    OBVIOUS
  <1>3. Begin(w, <<[do |-> "drop_cred", cred |-> k], y>>)
    BY <1>1
  <1> HIDE DEF y
  <1> QED BY <1>1, <1>2, <1>3, DroppingMatches

LEMMA RotateMatches ==
  ASSUME Base, Base', Matched, NEW w \in Workers, NEW u, NEW c \in Clouds, Rotate(w, u, c)
  PROVE  Matched'
  <1>1. PICK k, s :
          /\ k = db.cloud[c].cred /\ s = db.cloud[c].of /\ UNCHANGED db
          /\ Begin(w, <<[do |-> "drop_cred", cred |-> k], [do |-> "store", of |-> s, cloud |-> c, was |-> k]>>)
    BY Zenon DEF Rotate, Dropping
  <1> DEFINE y == [do |-> "store", of |-> s, cloud |-> c, was |-> k]
  <1>2. y.do = "store" /\ y.cloud = c /\ y.was = k /\ y.of = s
    OBVIOUS
  <1>3. Begin(w, <<[do |-> "drop_cred", cred |-> k], y>>)
    BY <1>1
  <1> HIDE DEF y
  <1> QED BY <1>1, <1>2, <1>3, DroppingMatches

(* Deletions start.                                                        *)
Wipes(t) == IsSeq(t) /\ \A x \in Work(t) : x.do \in {"erase", "cancel"} /\ (x.do = "erase" => ~x.broke)

LEMMA WipesAre ==
  /\ Wipes(<<>>) /\ \A s, t : Wipes(s) /\ Wipes(t) => Wipes(s \o t)
  /\ \A e : e.do = "cancel" \/ (e.do = "erase" /\ ~e.broke) => Wipes(<<e>>)
  /\ \A a, b : a.do = "erase" /\ ~a.broke /\ b.do = "erase" /\ ~b.broke => Wipes(<<a, b>>)
  <1>1. Wipes(<<>>)
    BY WorkOfNone DEF Wipes
  <1>2. ASSUME NEW s, NEW t, Wipes(s), Wipes(t) PROVE Wipes(s \o t)
    <2>1. IsSeq(s \o t) /\ Work(s \o t) = Work(s) \cup Work(t)
      BY <1>2, WorkJoined DEF Wipes
    <2> QED BY <1>2, <2>1 DEF Wipes
  <1>3. ASSUME NEW e, e.do = "cancel" \/ (e.do = "erase" /\ ~e.broke) PROVE Wipes(<<e>>)
    <2>1. IsSeq(<<e>>) /\ Work(<<e>>) = {e}
      BY WorkOfOne
    <2> QED BY <1>3, <2>1 DEF Wipes
  <1>4. ASSUME NEW a, NEW b, a.do = "erase", ~a.broke, b.do = "erase", ~b.broke PROVE Wipes(<<a, b>>)
    <2>1. IsSeq(<<a, b>>) /\ Work(<<a, b>>) = {a, b}
      BY WorkOfTwo
    <2> QED BY <1>4, <2>1 DEF Wipes
  <1> QED BY <1>1, <1>2, <1>3, <1>4

LEMMA EndingIdles ==
  ASSUME NEW j, IsSeq(j), Ending(j)
  PROVE  \A k : ~Holds(j, k)
  <1>1. j # <<>> => Head(j) \in Work(j)
    BY WorkOfRest
  <1> QED BY <1>1 DEF Ending, Holds

LEMMA StartsEnding ==
  ASSUME Base, Base', Matched, UNCHANGED db, NEW w \in Workers, NEW j, job[w] = <<>>, Wipes(j),
         job' = [job EXCEPT ![w] = j],
         \A i \in Items(j) : /\ i = Item(i.what, i.of) /\ i.what \in Cascade \cup Ends \cup {"seats"}
                             /\ i.what \in {"clouds", "creds"} => Fated(Items(j), i.of)
  PROVE  Matched'
  <1>1. Ending(j)
    BY DEF Ending, Wipes
  <1>2. SpacesLast
    BY SameDb DEF Matched, SameCreds
  <1>3. Ending(j)'
    BY <1>1, <1>2, EndingStays
  <1>4. job'[w] = j /\ \A v \in Workers : v # w => job'[v] = job[v]
    BY DEF Base, JobsOK
  <1>5. Carries(j, w)'
    BY <1>3 DEF Carries
  <1>6. Carries(job[w], w)'
    BY <1>4, <1>5
  <1>7. \A k : ~Holds(job'[w], k)
    BY <1>1, <1>4, EndingIdles DEF Wipes
  <1> QED BY <1>4, <1>6, <1>7, StartMatches

LEMMA DeleteOrgMatches ==
  ASSUME Base, Base', Matched, NEW w \in Workers, NEW u, DeleteOrg(w, u)
  PROVE  Matched'
  <1>1. PICK s : /\ Live(s) /\ db.space[s].type = "organization" /\ UNCHANGED db
                 /\ Begin(w, <<Erase(Of(Cascade, s)), Erase(Of({"space"}, s))>>)
    BY Zenon DEF DeleteOrg
  <1> DEFINE a == Erase(Of(Cascade, s))
             b == Erase(Of({"space"}, s))
  <1>2. Idle(w) /\ job' = [job EXCEPT ![w] = <<a, b>>]
    BY <1>1 DEF Begin
  <1>3. /\ a.do = "erase" /\ a.items = Of(Cascade, s) /\ ~a.broke
        /\ b.do = "erase" /\ b.items = Of({"space"}, s) /\ ~b.broke
    BY EraseIs
  <1>4. \A i : i \in a.items \cup b.items <=> i = Item("space", s) \/ \E x \in Cascade : i = Item(x, s)
    BY <1>3, OfIs
  <1> HIDE DEF a, b
  <1>5. Wipes(<<a, b>>)
    BY <1>3, WipesAre
  <1>6. PICK j, I : j = <<a, b>> /\ I = Items(j)
    OBVIOUS
  <1>7. I = a.items \cup b.items
    BY <1>3, <1>6, WorkOfTwo DEF Items
  <1>8. \A i \in I : i.of = s /\ i = Item(i.what, i.of) /\ i.what \in Cascade \cup Ends \cup {"seats"}
    BY <1>4, <1>7, ItemIs DEF Ends
  <1>9. Fated(I, s)
    <2>1. Item("space", s) \in I /\ Item("space", s).what = "space" /\ Item("space", s).of = s
      BY <1>4, <1>7, ItemIs
    <2> QED BY <1>1, <2>1 DEF Fated, Known, Live, Dooms
  <1>10. job[w] = <<>>
    BY <1>2 DEF Idle
  <1> QED BY <1>1, <1>2, <1>5, <1>6, <1>8, <1>9, <1>10, StartsEnding

LEMMA DeleteMeMatches ==
  ASSUME Base, Base', Matched, NEW w \in Workers, NEW u, DeleteMe(w, u)
  PROVE  Matched'
  <1> DEFINE mine == Owned(u)
             paid == {db.space[s].sub : s \in mine} \ {None}
             All(items) == UNION {Of(items, s) : s \in mine}
             first  == IF paid = {} THEN <<>> ELSE <<[do |-> "cancel", subs |-> paid]>>
             second == IF mine = {} THEN <<>> ELSE <<Erase(All(OwnedCascade)), Erase(All({"invites"}))>>
             seats  == Erase({[what |-> "seats", of |-> u]})
             last   == Erase({[what |-> "profile", of |-> u], [what |-> "accounts", of |-> u]})
  <1>1. Idle(w) /\ UNCHANGED db /\ job' = [job EXCEPT ![w] = first \o second \o <<seats, last>>]
    BY Zenon DEF DeleteMe
  <1>2. \A items, i : i \in All(items) <=> \E s \in mine, x \in items : i = Item(x, s)
    BY OfIs
  <1>3. Wipes(first) /\ Items(first) = {}
    <2>1. CASE paid = {}
      BY <2>1, WipesAre, ItemsIs
    <2>2. CASE paid # {}
      <3> DEFINE e == [do |-> "cancel", subs |-> paid]
      <3>1. e.do = "cancel" /\ first = <<e>>
        BY <2>2
      <3> HIDE DEF e, first, paid
      <3> QED BY <3>1, WipesAre, ItemsIs
    <2> QED BY <2>1, <2>2
  <1>4. Wipes(second) /\ Items(second) = All(OwnedCascade) \cup All({"invites"})
    <2>1. CASE mine = {}
      BY <2>1, WipesAre, ItemsIs
    <2>2. CASE mine # {}
      <3> DEFINE a == Erase(All(OwnedCascade))
                 b == Erase(All({"invites"}))
      <3>1. second = <<a, b>>
        BY <2>2
      <3>2. /\ a.do = "erase" /\ a.items = All(OwnedCascade) /\ ~a.broke
            /\ b.do = "erase" /\ b.items = All({"invites"}) /\ ~b.broke
        BY EraseIs
      <3> HIDE DEF a, b, second, All
      <3> QED BY <3>1, <3>2, WorkOfTwo, WipesAre DEF Items
    <2> QED BY <2>1, <2>2
  <1>5. /\ Wipes(<<seats, last>>)
        /\ Items(<<seats, last>>) = {Item("seats", u), Item("profile", u), Item("accounts", u)}
    <2>1. /\ seats.do = "erase" /\ seats.items = {Item("seats", u)} /\ ~seats.broke
          /\ last.do = "erase" /\ last.items = {Item("profile", u), Item("accounts", u)} /\ ~last.broke
      BY EraseIs DEF Item
    <2> HIDE DEF seats, last
    <2> QED BY <2>1, WipesAre, WorkOfTwo DEF Items
  <1> DEFINE both == first \o second
  <1> HIDE DEF first, second, seats, last, All, mine, paid
  <1>6. Wipes(both) /\ Items(both) = All(OwnedCascade) \cup All({"invites"})
    BY <1>3, <1>4, WipesAre, ItemsIs DEF Wipes
  <1>7. job' = [job EXCEPT ![w] = both \o <<seats, last>>]
    BY <1>1
  <1> HIDE DEF both
  <1>8. PICK j, I : j = both \o <<seats, last>> /\ I = Items(j)
    OBVIOUS
  <1>9. Wipes(j) /\ I = Items(both) \cup Items(<<seats, last>>)
    BY <1>5, <1>6, <1>8, WipesAre, ItemsIs DEF Wipes
  <1>10. \A i : i \in I <=> \/ i = Item("seats", u) \/ i = Item("profile", u) \/ i = Item("accounts", u)
                            \/ \E s \in mine, x \in OwnedCascade \cup {"invites"} : i = Item(x, s)
    BY <1>2, <1>5, <1>6, <1>9
  <1>11. \A s \in mine : Fated(I, s)
    <2>1. Item("accounts", u) \in I /\ Item("accounts", u).what = "accounts" /\ Item("accounts", u).of = u
      BY <1>10, ItemIs
    <2>2. \A s \in mine : s \in Owned(u) /\ s \in Spaces /\ db.space[s].type # "unborn"
      BY DEF mine, Owned, Live, Kinds
    <2>3. \A s \in mine : Dooms(I, s)
      BY <2>1, <2>2 DEF Dooms
    <2> QED BY <2>2, <2>3 DEF Fated, Known
  <1>12. \A i \in I : /\ i = Item(i.what, i.of) /\ i.what \in Cascade \cup Ends \cup {"seats"}
                      /\ i.what \in {"clouds", "creds"} => i.of \in mine
    BY <1>10, ItemIs DEF Ends, OwnedCascade, Cascade
  <1>13. job[w] = <<>>
    BY <1>1 DEF Idle
  <1>14. job' = [job EXCEPT ![w] = j]
    BY <1>7, <1>8
  <1> QED BY <1>1, <1>8, <1>9, <1>11, <1>12, <1>13, <1>14, StartsEnding

(* What is left of a deletion after its first step.                        *)
LEMMA WorkTurns ==
  ASSUME NEW s, IsSeq(s), s # <<>>
  PROVE  /\ Work(s) = {Head(s)} \cup Work(Tail(s)) /\ IsSeq(Tail(s))
         /\ Items(s) = Items(<<Head(s)>>) \cup Items(Tail(s))
  <1>1. s \in Seq(Work(s))
    BY DEF IsSeq
  <1>2. /\ IsSeq(Tail(s)) /\ Head(s) = s[1] /\ Head(s) \in Work(s) /\ Work(Tail(s)) \subseteq Work(s)
        /\ Len(s) \in Nat /\ Len(s) > 0 /\ Len(Tail(s)) = Len(s) - 1
    BY WorkOfRest
  <1>3. \A i \in 1 .. Len(s) - 1 : Tail(s)[i] = s[i + 1]
    BY <1>1
  <1>4. Work(s) = {Head(s)} \cup Work(Tail(s))
    <2> SUFFICES ASSUME NEW n \in 1 .. Len(s), n # 1 PROVE s[n] \in Work(Tail(s))
      BY <1>2 DEF Work
    <2>1. n - 1 \in 1 .. Len(s) - 1 /\ Tail(s)[n - 1] = s[n]
      BY <1>2, <1>3
    <2> QED BY <1>2, <2>1 DEF Work
  <1>5. Items(s) = Items(<<Head(s)>>) \cup Items(Tail(s))
    BY <1>4, WorkOfOne DEF Items
  <1> QED BY <1>2, <1>4, <1>5

LEMMA EndingOf ==
  ASSUME NEW w \in Workers, Matched, IsSeq(job[w]), job[w] # <<>>, Head(job[w]).do \in {"erase", "cancel"}
  PROVE  Ending(job[w])
  <1>1. Head(job[w]) \in Work(job[w])
    BY WorkOfRest
  <1>2. Carries(job[w], w)
    BY DEF Matched
  <1> QED BY <1>1, <1>2 DEF Carries, Afar, ToDo, ToStore, ToCreate, ToRewire, ToDrop, ToReplace, CloudWork

LEMMA CancelAllMatches ==
  ASSUME Base, Base', Matched, NEW w \in Workers, CancelAll(w)
  PROVE  Matched'
  <1>1. Doing(w, "cancel") /\ Proceed(w, <<>>) /\ UNCHANGED db
    BY Zenon DEF CancelAll
  <1>2. PICK j, t : j = job[w] /\ t = Tail(j)
    OBVIOUS
  <1>3. j # <<>> /\ Head(j).do = "cancel" /\ IsSeq(j)
    BY <1>1, <1>2, JobsAreSeqs DEF Doing, Idle, Base
  <1>4. job' = [job EXCEPT ![w] = t]
    BY <1>1, <1>2, <1>3, WorkOfRest, WorkJoined, JobsAreSeqs DEF Proceed
  <1>5. Ending(j)
    BY <1>2, <1>3, EndingOf
  <1>6. IsSeq(t) /\ Work(j) = {Head(j)} \cup Work(t) /\ Items(j) = Items(<<Head(j)>>) \cup Items(t)
    BY <1>2, <1>3, WorkTurns
  <1>7. Items(<<Head(j)>>) = {}
    BY <1>3, ItemsIs
  <1>8. Items(t) = Items(j)
    BY <1>6, <1>7
  <1>9. Ending(t)
    BY <1>5, <1>6, <1>8 DEF Ending
  <1>10. SameCreds
    BY <1>1, SameDb DEF Matched
  <1>11. Ending(t)'
    BY <1>9, <1>10, EndingStays DEF SameCreds
  <1>12. job'[w] = t /\ \A v \in Workers : v # w => job'[v] = job[v]
    BY <1>4 DEF Base, JobsOK
  <1>13. Carries(t, w)'
    BY <1>11 DEF Carries
  <1>14. Carries(job[w], w)'
    BY <1>12, <1>13
  <1>15. \A k : ~Holds(job[w], k) /\ ~Holds(job'[w], k)
    BY <1>2, <1>3, <1>5, <1>6, <1>9, <1>12, EndingIdles
  <1>16. \A c : ~Mends(job[w], c)
    BY <1>2, <1>5 DEF Ending, Mends
  <1>17. ASSUME NEW s, Fated(Items(job[w]), s) PROVE Doomed(s)'
    <2>1. PICK I : I = Items(t)
      OBVIOUS
    <2>2. Fated(I, s)
      BY <1>2, <1>8, <1>17, <2>1
    <2>3. Fated(I, s)'
      BY <1>10, <2>2, FateStays DEF SameCreds
    <2>4. I = Items(job'[w])
      BY <1>12, <2>1
    <2>5. Fated(Items(job[w]), s)'
      BY <2>3, <2>4 DEF Fated, Dooms
    <2> QED BY <2>5 DEF Doomed
  <1>18. OthersWait({w})
    BY <1>12 DEF OthersWait
  <1> QED BY <1>10, <1>14, <1>15, <1>16, <1>17, <1>18, StillMatched

(* Storing, linking and dropping, a step at a time.                        *)
LEMMA CloudStep ==
  ASSUME Base, Matched, NEW w \in Workers, NEW d \in CloudWork, Doing(w, d), NEW more, IsSeq(more), Proceed(w, more)
  PROVE  /\ job[w] # <<>> /\ Head(job[w]) = This(w) /\ This(w).do = d /\ Items(job[w]) = {}
         /\ \A v \in Workers : v # w => job'[v] = job[v]
         /\ d # "drop_cred" => /\ ToDo(This(w), w) /\ Tail(job[w]) = <<>> /\ job'[w] = more
                               /\ Work(job[w]) = {This(w)}
         /\ d = "drop_cred" => \E y : /\ ToReplace(This(w), y) /\ Work(job[w]) = {This(w), y}
                                      /\ more = <<>> => job'[w] # <<>> /\ Head(job'[w]) = y /\ Tail(job'[w]) = <<>>
                                                        /\ Work(job'[w]) = {y}
  <1>1. job[w] # <<>> /\ Head(job[w]) = This(w) /\ This(w).do = d /\ IsSeq(job[w])
    BY JobsAreSeqs DEF Doing, Idle, This, Base
  <1>2. Work(job[w]) = {This(w)} \cup Work(Tail(job[w])) /\ IsSeq(Tail(job[w]))
    BY <1>1, WorkTurns
  <1>3. job'[w] = more \o Tail(job[w]) /\ \A v \in Workers : v # w => job'[v] = job[v]
    BY DEF Proceed, Base, JobsOK
  <1>4. ~Afar(job[w]) /\ ~Ending(job[w])
    BY <1>1, <1>2 DEF Afar, Ending, CloudWork
  <1>5. Carries(job[w], w)
    BY DEF Matched
  <1>6. CASE Tail(job[w]) = <<>> /\ ToDo(This(w), w)
    <2>1. more \o <<>> = more
      BY DEF IsSeq
    <2>2. Work(job[w]) = {This(w)}
      BY <1>2, <1>6, WorkOfNone
    <2>3. d \notin {"drop_cred", "erase"}
      BY <1>1, <1>6 DEF ToDo, ToStore, ToCreate, ToRewire, ToDrop
    <2>4. Items(job[w]) = {}
      BY <1>1, <2>2, <2>3 DEF Items
    <2> QED BY <1>1, <1>3, <1>6, <2>1, <2>2, <2>3, <2>4
  <1>7. CASE Tail(job[w]) # <<>> /\ Tail(Tail(job[w])) = <<>> /\ ToReplace(This(w), Head(Tail(job[w])))
    <2>1. PICK t, y : t = Tail(job[w]) /\ y = Head(t)
      OBVIOUS
    <2>2. Work(t) = {y}
      <3>1. IsSeq(t) /\ t # <<>> /\ Tail(t) = <<>>
        BY <1>2, <1>7, <2>1
      <3>2. Work(t) = {Head(t)} \cup Work(Tail(t))
        BY <3>1, WorkTurns
      <3> QED BY <2>1, <3>1, <3>2, WorkOfNone
    <2>3. d = "drop_cred" /\ y.do \in {"store", "drop_cloud"} /\ ToReplace(This(w), y)
      BY <1>1, <1>7, <2>1 DEF ToReplace
    <2>4. Work(job[w]) = {This(w), y}
      BY <1>2, <2>1, <2>2
    <2>5. Items(job[w]) = {}
      BY <1>1, <2>3, <2>4 DEF Items
    <2>6. more = <<>> => job'[w] = t
      BY <1>2, <1>3, <2>1, WorkOfNone, WorkJoined
    <2> QED BY <1>1, <1>3, <1>7, <2>1, <2>2, <2>3, <2>4, <2>5, <2>6
  <1> QED BY <1>1, <1>4, <1>5, <1>6, <1>7 DEF Carries

(* The world such a step leaves: workspaces as they are, and the rest.     *)
LEMMA CloudWorld ==
  ASSUME Base, Matched, NEW w \in Workers, Items(job[w]) = {}, \A v \in Workers : v # w => job'[v] = job[v],
         ShapeOK', db'.space = db.space, CloudsLast({w}), CredsLast,
         \A k \in Creds : Holds(job'[w], k) => Holds(job[w], k) \/ db.cred[k] = None
  PROVE  World({w})
  <1>1. SpacesLast
    BY DEF SpacesLast, Known, Live
  <1>2. \A s : Fated({}, s) => Doomed(s)'
    BY <1>1, FateStays DEF Doomed
  <1>3. OthersWait({w})
    BY DEF OthersWait
  <1> QED BY <1>1, <1>2, <1>3 DEF World

LEMMA StoreMatches ==
  ASSUME Base, Base', Matched, Trusty', NEW w \in Workers, StoreCredential(w)
  PROVE  Matched'
  <1> DEFINE p == This(w)
             free == Unused(db.cred, None)
             next == IF p.cloud = None
                     THEN [do |-> "create", of |-> p.of, cred |-> Least(free)]
                     ELSE [do |-> "rewire", cloud |-> p.cloud, cred |-> Least(free), was |-> p.was]
  <1>1. /\ Doing(w, "store") /\ db' = [db EXCEPT !.cred[Least(free)] = p.of]
        /\ Proceed(w, <<next>>) /\ With(Stale(~Live(p.of))) /\ free # {}
    BY Zenon DEF StoreCredential
  <1>2. PICK k0 : k0 = Least(free)
    OBVIOUS
  <1>3. k0 \in Creds /\ db.cred[k0] = None
    <2>1. free \subseteq Nat
      BY DocumentsOK DEF Unused, Matched, ShapeOK
    <2>2. k0 \in free
      BY <1>1, <1>2, <2>1, LeastIsIn
    <2> QED BY <2>2 DEF Unused, Matched, ShapeOK
  <1>4. PICK s, c, y : s = p.of /\ c = p.cloud /\ y = next
    OBVIOUS
  <1>5. /\ c = None => y.do = "create" /\ y.of = s /\ y.cred = k0
        /\ c # None => y.do = "rewire" /\ y.cloud = c /\ y.cred = k0 /\ y.was = p.was
    BY <1>2, <1>4
  <1>6. Live(s) /\ s \in Spaces /\ Known(s)
    <2>1. hist'.lapses = hist.lapses \cup Stale(~Live(s))
      BY <1>1, <1>4, NotingMore DEF Base, With
    <2>2. Live(s)
      BY <2>1 DEF Trusty, Barring, Stale
    <2> QED BY <2>2 DEF Live, Known, Kinds
  <1>7. /\ db'.space = db.space /\ db'.cloud = db.cloud /\ db'.active = db.active
        /\ db'.cred = [db.cred EXCEPT ![k0] = s]
    BY <1>1, <1>2, <1>4 DEF Base, DbOK, DbFields
  <1>8. /\ ShapeOK' /\ db'.cred[k0] = s
        /\ \A k \in Creds : k # k0 => db'.cred[k] = db.cred[k]
    BY <1>3, <1>7 DEF Matched, ShapeOK
  <1>9. Proceed(w, <<y>>) /\ IsSeq(<<y>>) /\ Work(<<y>>) = {y} /\ <<y>> # <<>> /\ Head(<<y>>) = y /\ Tail(<<y>>) = <<>>
    BY <1>1, <1>4, WorkOfOne
  <1> HIDE DEF next, free
  <1>10. /\ Items(job[w]) = {} /\ (\A v \in Workers : v # w => job'[v] = job[v]) /\ ToDo(p, w)
         /\ p.do = "store" /\ job'[w] = <<y>> /\ Work(job[w]) = {p} /\ job[w] # <<>> /\ Head(job[w]) = p
    BY <1>1, <1>9, CloudStep DEF CloudWork
  <1> HIDE DEF p
  <1>11. c # None => c \in Clouds /\ Spent(p.was) /\ Within(c, s)
    BY <1>4, <1>10 DEF ToDo, ToStore, ToCreate, ToRewire, ToDrop
  <1>12. \A k : Holds(job'[w], k) <=> k = k0
    BY <1>5, <1>9, <1>10 DEF Holds
  <1>13. \A k : ~Holds(job[w], k)
    BY <1>10 DEF Holds
  <1>14. World({w})
    <2>1. CloudsLast({w}) /\ CredsLast
      BY <1>3, <1>7, <1>8 DEF CloudsLast, CredsLast
    <2> QED BY <1>3, <1>7, <1>8, <1>10, <1>12, <2>1, CloudWorld
  <1>15. \A d \in Clouds : db.cloud[d].cred # k0
    BY <1>3 DEF Matched, OwnCred
  <1>16. Loose(k0, w)'
    <2>1. \A v \in Workers : v # w => ~Holds(job[v], k0)
      BY <1>3, HoldersHave DEF Loose
    <2>2. \A v \in Workers : Holds(job'[v], k0) => v = w
      BY <1>10, <2>1
    <2>3. \A v \in Workers : Holds(job[v], k0)' => v = w
      BY <2>2 DEF Holds
    <2> QED BY <1>3, <1>6, <1>7, <1>8, <1>15, <2>3, NothingIsNone DEF Loose
  <1>17. InPlace(k0, s)'
    BY <1>8 DEF InPlace
  <1>18. ToDo(y, w)'
    <2>1. CASE c = None
      <3>1. ToCreate(y, w)'
        BY <1>5, <1>16, <1>17, <2>1 DEF ToCreate
      <3> QED BY <3>1 DEF ToDo
    <2>2. CASE c # None
      <3>2. db'.cloud[c].of \in {s, Gone}
        BY <1>6, <1>7, <1>11, <2>2 DEF Within
      <3>3. db'.cloud[c].of # None /\ (IsCloud(c)' => db'.cloud[c].of = s)
        BY <1>6, <3>2, NothingIsNone DEF IsCloud
      <3>4. IsCloud(c)' => InPlace(k0, db.cloud[c].of)'
        BY <1>8, <3>3 DEF InPlace
      <3>5. Spent(y.was)'
        <4>1. Spent(p.was)
          BY <1>11, <2>2
        <4>2. Spent(y.was)
          BY <1>5, <2>2, <4>1
        <4> QED BY <1>14, <4>2, SpentStays
      <3>6. ToRewire(y, w)'
        BY <1>5, <1>11, <1>16, <2>2, <3>3, <3>4, <3>5 DEF ToRewire
      <3> QED BY <3>6 DEF ToDo
    <2> QED BY <2>1, <2>2
  <1>19. Carries(<<y>>, w)'
    BY <1>9, <1>18 DEF Carries
  <1>20. Carries(job[w], w)'
    BY <1>10, <1>19
  <1>21. ASSUME NEW d \in Clouds PROVE CloudStays(d, {w})
    <2>1. Mends(job[w], d) => c = d
      BY <1>4, <1>10 DEF Mends
    <2>2. c = d => Mends(job'[w], d)
      BY <1>5, <1>9, <1>10, NothingIsNone DEF Mends
    <2>3. db.cloud[d].cred \in Creds => db'.cred[db.cloud[d].cred] = db.cred[db.cloud[d].cred]
      BY <1>8, <1>15
    <2> QED BY <1>7, <2>1, <2>2, <2>3 DEF CloudStays
  <1>22. ASSUME NEW k \in Creds PROVE Useful(k)' \/ CredStays(k, {w})
    <2>1. CASE k = k0
      <3>1. (\E v \in Workers : Holds(job'[v], k)) => (\E v \in Workers : Holds(job[v], k))'
        BY DEF Holds
      <3>2. Known(s)'
        BY <1>6, <1>7 DEF Known
      <3>3. Known(db.cred[k])'
        BY <1>8, <2>1, <3>2 DEF Known
      <3> QED BY <1>12, <2>1, <3>1, <3>3 DEF Useful
    <2>2. CASE k # k0
      BY <1>7, <1>8, <1>13, <2>2 DEF CredStays
    <2> QED BY <2>1, <2>2
  <1>23. \A d \in Clouds : db'.cloud[d].cred = db.cloud[d].cred
    BY <1>7
  <1>24. \A v \in {w} : Carries(job[v], v)'
    BY <1>20
  <1> QED BY <1>14, <1>21, <1>22, <1>23, <1>24, MatchedStays

LEMMA CreateCloudMatches ==
  ASSUME Base, Base', Matched, Trusty', NEW w \in Workers, CreateCloud(w)
  PROVE  Matched'
  <1> DEFINE p == This(w)
             free == Unused(db.cloud, NoCloud)
             doc == [of |-> p.of, active |-> TRUE, cred |-> p.cred]
  <1>1. /\ Doing(w, "create") /\ db' = [db EXCEPT !.cloud[Least(free)] = doc] /\ Proceed(w, <<>>) /\ free # {}
    BY Zenon DEF CreateCloud
  <1>2. PICK touched : hist' = [Noting(hist, Stale(~Live(p.of))) EXCEPT !.touched = touched]
    BY DEF CreateCloud
  <1>3. PICK c, s, k : c = Least(free) /\ s = p.of /\ k = p.cred
    OBVIOUS
  <1>4. c \in Clouds /\ db.cloud[c].of = None /\ db.cloud[c].cred = None
    <2>1. free \subseteq Nat
      BY DocumentsOK DEF Unused, Matched, ShapeOK
    <2>2. c \in free
      BY <1>1, <1>3, <2>1, LeastIsIn
    <2> QED BY <2>2 DEF Unused, Matched, ShapeOK, NoCloud
  <1>5. Live(s) /\ s \in Spaces /\ Known(s)
    <2>1. hist'.lapses = hist.lapses \cup Stale(~Live(s))
      BY <1>2, <1>3 DEF Base, HistOK, HistFields, Noting
    <2>2. Live(s)
      BY <2>1 DEF Trusty, Barring, Stale
    <2> QED BY <2>2 DEF Live, Known, Kinds
  <1>6. /\ db'.space = db.space /\ db'.cred = db.cred /\ db'.active = db.active
        /\ db'.cloud = [db.cloud EXCEPT ![c] = doc]
    BY <1>1, <1>3 DEF Base, DbOK, DbFields
  <1>7. DOMAIN doc = DOMAIN NoCloud /\ doc.of = s /\ doc.cred = k
    BY <1>3 DEF NoCloud
  <1> HIDE DEF doc, free
  <1>8. /\ ShapeOK' /\ db'.cloud[c].of = s /\ db'.cloud[c].cred = k
        /\ \A d \in Clouds : d # c => db'.cloud[d].of = db.cloud[d].of /\ db'.cloud[d].cred = db.cloud[d].cred
    BY <1>4, <1>6, <1>7 DEF Matched, ShapeOK
  <1>9. /\ Items(job[w]) = {} /\ (\A v \in Workers : v # w => job'[v] = job[v]) /\ ToDo(p, w)
        /\ p.do = "create" /\ job'[w] = <<>> /\ Work(job[w]) = {p} /\ job[w] # <<>> /\ Head(job[w]) = p
        /\ Tail(job[w]) = <<>>
    BY <1>1, WorkOfNone, CloudStep DEF CloudWork
  <1> HIDE DEF p
  <1>10. Loose(k, w) /\ InPlace(k, s)
    BY <1>3, <1>9 DEF ToDo, ToStore, ToCreate, ToRewire, ToDrop
  <1>11. /\ k \in Creds /\ db.cred[k] # None /\ \A d \in Clouds : db.cloud[d].cred # k
    BY <1>10 DEF Loose
  <1>12. Holds(job[w], k) /\ (\A l : Holds(job[w], l) => l = k) /\ \A d : ~Mends(job[w], d)
    BY <1>3, <1>9 DEF Holds, Mends
  <1>13. \A l : ~Holds(job'[w], l)
    BY <1>9 DEF Holds
  <1>14. World({w})
    <2>1. CloudsLast({w}) /\ CredsLast
      BY <1>4, <1>6, <1>8, <1>12 DEF CloudsLast, CredsLast
    <2> QED BY <1>6, <1>8, <1>9, <1>13, <2>1, CloudWorld
  <1>15. Doomed(s) => Doomed(s)'
    BY <1>14, DoomStays
  <1>16. Known(s)'
    BY <1>5, <1>6 DEF Known
  <1>17. Lasting(c)'
    <2>1. Known(db.cloud[c].of)'
      BY <1>8, <1>16 DEF Known
    <2>2. Doomed(s)' => Doomed(db.cloud[c].of)'
      BY <1>8 DEF Doomed, Fated, Dooms, Known, Live
    <2>3. db'.cred[k] = s \/ Doomed(s)'
      BY <1>6, <1>10, <1>15 DEF InPlace
    <2> QED BY <1>8, <1>11, <2>1, <2>2, <2>3 DEF Lasting
  <1>18. ASSUME NEW d \in Clouds, d # c PROVE CloudStays(d, {w})
    BY <1>6, <1>8, <1>12, <1>18 DEF CloudStays
  <1>19. ASSUME NEW d \in Clouds PROVE OwnCred(d)'
    <2>1. CASE d = c
      BY <1>6, <1>8, <1>11, <2>1 DEF OwnCred
    <2>2. CASE d # c
      <3>1. OwnCred(d)
        BY DEF Matched
      <3> QED BY <1>6, <1>8, <1>11, <2>2, <3>1 DEF OwnCred
    <2> QED BY <2>1, <2>2
  <1>20. ASSUME NEW l \in Creds PROVE Useful(l)' \/ CredStays(l, {w})
    <2>1. CASE l = k
      <3>1. db'.cred[l] \in Spaces => db'.cred[l] = s
        BY <1>6, <1>10, <2>1, NothingIsNone DEF InPlace
      <3>2. db'.cred[l] = s => Known(db.cred[l])'
        BY <1>16 DEF Known
      <3> QED BY <1>4, <1>8, <2>1, <3>1, <3>2 DEF Useful
    <2>2. CASE l # k
      <3>1. l # None
        BY NothingIsNone
      <3> QED BY <1>4, <1>6, <1>8, <1>12, <2>2, <3>1 DEF CredStays
    <2> QED BY <2>1, <2>2
  <1>21. \A v \in {w} : Carries(job[v], v)'
    <2>1. Afar(job[w])'
      BY <1>9, WorkOfNone DEF Afar
    <2> QED BY <2>1 DEF Carries
  <1> QED BY <1>14, <1>17, <1>18, <1>19, <1>20, <1>21, MatchedStays

LEMMA DropCredentialMatches ==
  ASSUME Base, Base', Matched, NEW w \in Workers, DropCredential(w)
  PROVE  Matched'
  <1>1. PICK k, x : /\ k = This(w).cred /\ Doing(w, "drop_cred") /\ Proceed(w, <<>>)
                    /\ x = (IF db.cred[k] = None THEN None ELSE Gone) /\ db' = [db EXCEPT !.cred[k] = x]
    BY Zenon DEF DropCredential
  <1>2. PICK y : /\ ToReplace(This(w), y) /\ Work(job[w]) = {This(w), y} /\ Work(job'[w]) = {y}
                 /\ job'[w] # <<>> /\ Head(job'[w]) = y /\ Tail(job'[w]) = <<>>
    BY <1>1, WorkOfNone, CloudStep DEF CloudWork
  <1>3. /\ Items(job[w]) = {} /\ (\A v \in Workers : v # w => job'[v] = job[v]) /\ This(w).do = "drop_cred"
        /\ Head(job[w]) = This(w)
    BY <1>1, WorkOfNone, CloudStep DEF CloudWork
  <1>4. /\ y.do \in {"store", "drop_cloud"} /\ y.cloud \in Clouds /\ y.was = k
        /\ Reserved(k, y.cloud) /\ (y.do = "store" => Within(y.cloud, y.of))
    BY <1>1, <1>2 DEF ToReplace
  <1>5. /\ db'.space = db.space /\ db'.cloud = db.cloud /\ db'.active = db.active
        /\ db'.cred = [db.cred EXCEPT ![k] = x]
    BY <1>1 DEF Base, DbOK, DbFields
  <1>6. /\ ShapeOK'
        /\ k \in Creds => db'.cred[k] = x
        /\ \A l \in Creds : l # k => db'.cred[l] = db.cred[l]
    BY <1>5 DEF Matched, ShapeOK
  <1>7. k \in Creds => /\ db'.cred[k] = Gone /\ (\A c \in Clouds : db.cloud[c].cred = k => c = y.cloud)
                       /\ \A v \in Workers : ~Holds(job[v], k)
    BY <1>1, <1>4, <1>6 DEF Reserved
  <1>8. \A l : ~Holds(job[w], l) /\ ~Holds(job'[w], l)
    BY <1>2, <1>3, <1>4 DEF Holds
  <1>9. \A c : (Mends(job[w], c) => Mends(job'[w], c)) /\ (c = y.cloud => Mends(job'[w], c))
    BY <1>2, <1>3, <1>4 DEF Mends
  <1>10. World({w})
    <2>1. CloudsLast({w}) /\ CredsLast
      BY <1>5, <1>6, <1>7 DEF CloudsLast, CredsLast
    <2> QED BY <1>3, <1>5, <1>6, <1>8, <2>1, CloudWorld
  <1>11. \A v \in {w} : Carries(job[v], v)'
    <2>1. Spent(y.was)'
      BY <1>4, <1>7 DEF Spent
    <2>2. y.do = "store" => Within(y.cloud, y.of)'
      BY <1>4, <1>5 DEF Within
    <2>3. ToDo(y, w)'
      BY <1>4, <2>1, <2>2 DEF ToDo, ToStore, ToDrop
    <2> QED BY <1>2, <2>3 DEF Carries
  <1>12. \A c \in Clouds : CloudStays(c, {w})
    BY <1>5, <1>6, <1>7, <1>9 DEF CloudStays
  <1>13. \A c \in Clouds : db'.cloud[c].cred = db.cloud[c].cred
    BY <1>5
  <1>14. ASSUME NEW l \in Creds PROVE Useful(l)' \/ CredStays(l, {w})
    <2>1. CASE l = k
      BY <1>7, <2>1, NothingIsNone DEF Useful
    <2>2. CASE l # k
      BY <1>5, <1>6, <1>8, <2>2 DEF CredStays
    <2> QED BY <2>1, <2>2
  <1> QED BY <1>10, <1>11, <1>12, <1>13, <1>14, MatchedStays

LEMMA DropCloudMatches ==
  ASSUME Base, Base', Matched, Trusty', NEW w \in Workers, DropCloud(w)
  PROVE  Matched'
  <1> DEFINE p == This(w)
  <1>1. Doing(w, "drop_cloud") /\ Proceed(w, <<>>)
    BY Zenon DEF DropCloud
  <1>2. IsCloud(p.cloud) /\ db.cloud[p.cloud].cred = p.was
    <2>1. CASE ~IsCloud(p.cloud)
      <3>1. With({"stale"})
        BY <2>1, Zenon DEF DropCloud
      <3>2. "stale" \in hist'.lapses
        BY <3>1, NotingMore DEF Base, With
      <3> QED BY <3>2 DEF Trusty, Barring
    <2>2. CASE IsCloud(p.cloud)
      <3>1. PICK touched : hist' = [Noting(hist, Stale(db.cloud[p.cloud].cred # p.was)) EXCEPT !.touched = touched]
        BY <2>2, Zenon DEF DropCloud
      <3>2. hist'.lapses = hist.lapses \cup Stale(db.cloud[p.cloud].cred # p.was)
        BY <3>1 DEF Base, HistOK, HistFields, Noting
      <3> QED BY <2>2, <3>2 DEF Trusty, Barring, Stale
    <2> QED BY <2>1, <2>2
  <1>3. db' = [db EXCEPT !.cloud[p.cloud] = Buried(db.cloud[p.cloud])]
    BY <1>2, Zenon DEF DropCloud
  <1>4. PICK c, k : c = p.cloud /\ k = p.was
    OBVIOUS
  <1>5. /\ Items(job[w]) = {} /\ (\A v \in Workers : v # w => job'[v] = job[v]) /\ ToDo(p, w)
        /\ p.do = "drop_cloud" /\ job'[w] = <<>> /\ Work(job[w]) = {p} /\ Head(job[w]) = p
    BY <1>1, WorkOfNone, CloudStep DEF CloudWork
  <1> DEFINE doc == Buried(db.cloud[c])
  <1>6. db' = [db EXCEPT !.cloud[c] = doc]
    BY <1>3, <1>4
  <1> HIDE DEF p
  <1>7. c \in Clouds /\ Spent(k) /\ IsCloud(c) /\ db.cloud[c].cred = k
    BY <1>2, <1>4, <1>5 DEF ToDo, ToStore, ToCreate, ToRewire, ToDrop
  <1>8. DOMAIN doc = DOMAIN NoCloud /\ doc.of = Gone /\ doc.cred = db.cloud[c].cred
    BY <1>7 DEF Buried, Matched, ShapeOK, NoCloud
  <1> HIDE DEF doc
  <1>9. /\ db'.space = db.space /\ db'.cred = db.cred /\ db'.active = db.active
        /\ db'.cloud = [db.cloud EXCEPT ![c] = doc]
    BY <1>6 DEF Base, DbOK, DbFields
  <1>10. /\ ShapeOK' /\ db'.cloud[c].of = Gone /\ (\A d \in Clouds : db'.cloud[d].cred = db.cloud[d].cred)
         /\ \A d \in Clouds : d # c => db'.cloud[d].of = db.cloud[d].of
    BY <1>7, <1>8, <1>9 DEF Matched, ShapeOK
  <1>11. \A l : ~Holds(job[w], l) /\ ~Holds(job'[w], l)
    BY <1>5 DEF Holds
  <1>12. \A d : Mends(job[w], d) => d = c
    BY <1>4, <1>5 DEF Mends
  <1>13. World({w})
    <2>1. CloudsLast({w}) /\ CredsLast
      BY <1>9, <1>10 DEF CloudsLast, CredsLast
    <2> QED BY <1>5, <1>9, <1>10, <1>11, <2>1, CloudWorld
  <1>14. Lasting(c)'
    BY <1>10, NothingIsNone DEF Lasting, IsCloud
  <1>15. ASSUME NEW d \in Clouds, d # c PROVE CloudStays(d, {w})
    BY <1>9, <1>10, <1>12, <1>15 DEF CloudStays
  <1>16. ASSUME NEW l \in Creds PROVE CredStays(l, {w})
    <2>1. ~(db.cloud[c].cred = l /\ db.cloud[c].of = db.cred[l])
      BY <1>7, NothingIsNone DEF Spent, IsCloud
    <2> QED BY <1>9, <1>10, <1>11, <2>1 DEF CredStays
  <1>17. \A v \in {w} : Carries(job[v], v)'
    <2>1. Afar(job[w])'
      BY <1>5, WorkOfNone DEF Afar
    <2> QED BY <2>1 DEF Carries
  <1> QED BY <1>10, <1>13, <1>14, <1>15, <1>16, <1>17, MatchedStays

LEMMA RewireMatches ==
  ASSUME Base, Base', Matched, Trusty', NEW w \in Workers, Rewire(w)
  PROVE  Matched'
  <1> DEFINE p == This(w)
  <1>1. Doing(w, "rewire") /\ Proceed(w, <<>>)
    BY Zenon DEF Rewire
  <1>2. IsCloud(p.cloud) /\ db.cloud[p.cloud].cred = p.was
    <2> DEFINE odd == ~IsCloud(p.cloud) \/ db.cloud[p.cloud].cred # p.was
    <2>1. PICK touched : hist' = [Noting(hist, Stale(odd)) EXCEPT !.touched = touched]
      BY DEF Rewire
    <2> HIDE DEF odd
    <2>2. hist'.lapses = hist.lapses \cup Stale(odd)
      BY <2>1 DEF Base, HistOK, HistFields, Noting
    <2>3. ~odd
      BY <2>2 DEF Trusty, Barring, Stale
    <2> QED BY <2>3 DEF odd
  <1>3. db' = [db EXCEPT !.cloud[p.cloud].cred = p.cred, !.cloud[p.cloud].active = TRUE]
    BY <1>2, Zenon DEF Rewire
  <1>4. PICK c, k, was, s : c = p.cloud /\ k = p.cred /\ was = p.was /\ s = db.cloud[p.cloud].of
    OBVIOUS
  <1>5. /\ Items(job[w]) = {} /\ (\A v \in Workers : v # w => job'[v] = job[v]) /\ ToDo(p, w)
        /\ p.do = "rewire" /\ job'[w] = <<>> /\ Work(job[w]) = {p} /\ job[w] # <<>> /\ Head(job[w]) = p
        /\ Tail(job[w]) = <<>>
    BY <1>1, WorkOfNone, CloudStep DEF CloudWork
  <1>6. db' = [db EXCEPT !.cloud[c].cred = k, !.cloud[c].active = TRUE]
    BY <1>3, <1>4
  <1> HIDE DEF p
  <1>7. /\ c \in Clouds /\ Spent(was) /\ IsCloud(c) /\ db.cloud[c].cred = was /\ s = db.cloud[c].of /\ s \in Spaces
        /\ Loose(k, w) /\ InPlace(k, s)
    BY <1>2, <1>4, <1>5 DEF ToDo, ToStore, ToCreate, ToRewire, ToDrop, IsCloud
  <1>8. /\ db'.space = db.space /\ db'.cred = db.cred /\ db'.active = db.active
        /\ DOMAIN db'.cloud = Clouds /\ \A d \in Clouds : DOMAIN db'.cloud[d] = DOMAIN NoCloud
    BY <1>6 DEF Base, DbOK, DbFields, Matched, ShapeOK
  <1>9. /\ ShapeOK' /\ db'.cloud[c].cred = k /\ (\A d \in Clouds : db'.cloud[d].of = db.cloud[d].of)
        /\ \A d \in Clouds : d # c => db'.cloud[d].cred = db.cloud[d].cred
    BY <1>6, <1>7, <1>8 DEF Base, DbOK, DbFields, Matched, ShapeOK, NoCloud
  <1>11. /\ k \in Creds /\ db.cred[k] # None /\ \A d \in Clouds : db.cloud[d].cred # k
    BY <1>7 DEF Loose
  <1>12. Holds(job[w], k) /\ (\A l : Holds(job[w], l) => l = k) /\ \A d : Mends(job[w], d) => d = c
    BY <1>4, <1>5 DEF Holds, Mends
  <1>13. \A l : ~Holds(job'[w], l)
    BY <1>5 DEF Holds
  <1>14. World({w})
    <2>1. CloudsLast({w}) /\ CredsLast
      BY <1>8, <1>9, <1>12 DEF CloudsLast, CredsLast
    <2> QED BY <1>5, <1>8, <1>9, <1>13, <2>1, CloudWorld
  <1>15. Doomed(s) => Doomed(s)'
    BY <1>14, DoomStays
  <1>16. Known(s) /\ Known(s)'
    <2>1. Known(s)
      BY <1>7 DEF Matched, Lasting
    <2> QED BY <1>8, <2>1 DEF Known
  <1>17. Lasting(c)'
    <2>1. Known(db.cloud[c].of)'
      BY <1>7, <1>9, <1>16 DEF Known
    <2>2. Doomed(s)' => Doomed(db.cloud[c].of)'
      BY <1>7, <1>9 DEF Doomed, Fated, Dooms, Known, Live
    <2>3. db'.cred[k] = s \/ Doomed(s)'
      BY <1>7, <1>8, <1>15 DEF InPlace
    <2> QED BY <1>7, <1>9, <1>11, <2>1, <2>2, <2>3 DEF Lasting
  <1>18. ASSUME NEW d \in Clouds, d # c PROVE CloudStays(d, {w})
    BY <1>8, <1>9, <1>12, <1>18 DEF CloudStays
  <1>19. ASSUME NEW d \in Clouds PROVE OwnCred(d)'
    <2>1. CASE d = c
      BY <1>8, <1>9, <1>11, <2>1 DEF OwnCred
    <2>2. CASE d # c
      <3>1. OwnCred(d)
        BY DEF Matched
      <3> QED BY <1>8, <1>9, <1>11, <2>2, <3>1 DEF OwnCred
    <2> QED BY <2>1, <2>2
  <1>20. ASSUME NEW l \in Creds PROVE Useful(l)' \/ CredStays(l, {w})
    <2>1. CASE l = k
      <3>1. db'.cred[l] \in Spaces => db'.cred[l] = s
        BY <1>7, <1>8, <2>1, NothingIsNone DEF InPlace
      <3>2. db'.cred[l] = s => Known(db.cred[l])'
        BY <1>16 DEF Known
      <3> QED BY <1>7, <1>9, <2>1, <3>1, <3>2 DEF Useful
    <2>2. CASE l # k
      <3>1. ~(db.cloud[c].cred = l /\ db.cloud[c].of = db.cred[l])
        BY <1>7, NothingIsNone DEF Spent
      <3> QED BY <1>8, <1>9, <1>12, <2>2, <3>1 DEF CredStays
    <2> QED BY <2>1, <2>2
  <1>21. \A v \in {w} : Carries(job[v], v)'
    <2>1. Afar(job[w])'
      BY <1>5, WorkOfNone DEF Afar
    <2> QED BY <2>1 DEF Carries
  <1> QED BY <1>14, <1>17, <1>18, <1>19, <1>20, <1>21, MatchedStays

(* One item of a deletion.                                                 *)
LEMMA LinksKept ==
  ASSUME DbOK, ShapeOK, NEW x \in Cascade \cup Ends \cup {"seats"}, NEW t, db' = Without(Item(x, t))
  PROVE  \A c \in Clouds : db'.cloud[c].cred = db.cloud[c].cred
  <1>0. Item(x, t).what = x /\ Item(x, t).of = t
    BY ItemIs
  <1>1. CASE x = "clouds"
    <2>1. db' = [db EXCEPT !.cloud = [c \in Clouds |-> IF @[c].of = t THEN Buried(@[c]) ELSE @[c]]]
      BY <1>0, <1>1 DEF Without
    <2>2. db'.cloud = [c \in Clouds |-> IF db.cloud[c].of = t THEN Buried(db.cloud[c]) ELSE db.cloud[c]]
      BY <2>1 DEF DbOK, DbFields
    <2> QED BY <2>2 DEF ShapeOK, Buried, NoCloud
  <1>2. CASE x = "creds"
    <2>1. db' = [db EXCEPT !.cred = [k \in Creds |-> IF @[k] = t THEN Gone ELSE @[k]]]
      BY <1>0, <1>2 DEF Without
    <2>2. db'.cloud = db.cloud
      BY <2>1 DEF DbOK, DbFields
    <2> QED BY <2>2
  <1>3. CASE x = "keys"
    <2>1. db' = [db EXCEPT !.keys = {k \in db.keys : k.of # t}]
      BY <1>0, <1>3 DEF Without
    <2>2. db'.cloud = db.cloud
      BY <2>1 DEF DbOK, DbFields
    <2> QED BY <2>2
  <1>4. CASE x = "members" \/ x = "seats"
    <2>1. db' = [db EXCEPT !.member = {m \in db.member : IF x = "members" THEN m.of # t ELSE m.user # t}]
      BY <1>0, <1>4 DEF Without
    <2>2. db'.cloud = db.cloud
      BY <2>1 DEF DbOK, DbFields
    <2> QED BY <2>2
  <1>5. CASE x = "invites"
    <2>1. db' = [db EXCEPT !.invite = [i \in Invites |-> IF @[i].of = t THEN Buried(@[i]) ELSE @[i]]]
      BY <1>0, <1>5 DEF Without
    <2>2. db'.cloud = db.cloud
      BY <2>1 DEF DbOK, DbFields
    <2> QED BY <2>2
  <1>6. CASE x = "actives"
    <2>1. db' = [db EXCEPT !.active = [u \in Users |-> IF @[u] = t THEN None ELSE @[u]]]
      BY <1>0, <1>6 DEF Without
    <2>2. db'.cloud = db.cloud
      BY <2>1 DEF DbOK, DbFields
    <2> QED BY <2>2
  <1>7. CASE x = "profile"
    <2>1. db' = [db EXCEPT !.active[t] = None]
      BY <1>0, <1>7 DEF Without
    <2>2. db'.cloud = db.cloud
      BY <2>1 DEF DbOK, DbFields
    <2> QED BY <2>2
  <1>8. CASE x = "space"
    <2>1. db' = [db EXCEPT !.space[t].type = "gone"]
      BY <1>0, <1>8 DEF Without
    <2>2. db'.cloud = db.cloud
      BY <2>1 DEF DbOK, DbFields
    <2> QED BY <2>2
  <1>9. CASE x = "accounts"
    <2>1. db' = [db EXCEPT !.space = [s \in Spaces |-> IF s \in Owned(t) THEN [@[s] EXCEPT !.type = "gone"] ELSE @[s]]]
      BY <1>0, <1>9 DEF Without
    <2>2. db'.cloud = db.cloud
      BY <2>1 DEF DbOK, DbFields
    <2> QED BY <2>2
  <1> QED BY <1>1, <1>2, <1>3, <1>4, <1>5, <1>6, <1>7, <1>8, <1>9 DEF Cascade, Ends

LEMMA RemovalLasts ==
  ASSUME NEW x, NEW t, Removed(x, t)
  PROVE  SpacesLast
  BY DEF Removed, SpacesLast, Known, Live, Kinds

(* What was fated to go by a list of items is gone, or fated by the rest.  *)
LEMMA FateMoves ==
  ASSUME NEW x, NEW t, Removed(x, t), NEW I, NEW J, \A i \in I : i \in J \/ i = Item(x, t), NEW s, Fated(I, s)
  PROVE  Fated(J, s)'
  <1>1. SpacesLast
    BY RemovalLasts
  <1>2. CASE ~Live(s)
    BY <1>1, <1>2 DEF SpacesLast, Fated, Known
  <1>3. CASE Live(s)
    <2>1. PICK i \in I : (i.what = "space" /\ i.of = s) \/ (i.what = "accounts" /\ s \in Owned(i.of))
      BY <1>3 DEF Fated, Dooms
    <2>2. CASE i \in J
      <3>1. Fated(J, s)
        BY <2>1, <2>2 DEF Fated, Dooms
      <3> QED BY <1>1, <3>1, FateStays
    <2>3. CASE i = Item(x, t)
      <3>1. Losing(x, t, s)
        BY <2>1, <2>3, ItemIs DEF Losing
      <3>2. db'.space[s].type = "gone"
        BY <1>3, <3>1 DEF Removed, Live
      <3>3. Known(s)'
        BY <1>1 DEF SpacesLast, Fated, Known
      <3> QED BY <3>2, <3>3 DEF Fated, Live, Kinds
    <2> QED BY <2>1, <2>2, <2>3
  <1> QED BY <1>2, <1>3

LEMMA EraseOneMatches ==
  ASSUME Base, Base', Matched, Trusty', NEW w \in Workers, EraseOne(w)
  PROVE  Matched'
  <1> DEFINE p == This(w)
  <1>1. PICK item \in p.items, ok \in (IF hist.faults > 0 THEN BOOLEAN ELSE {TRUE}) :
          LET rest  == p.items \ {item}
              broke == p.broke \/ (~ok /\ item.what \notin BestEffort)
          IN /\ db' = IF ok THEN Without(item) ELSE db
             /\ hist' = [Noting(hist, IF ok THEN {} ELSE IF item.what \in BestEffort THEN {"swallowed"} ELSE {"failed"})
                           EXCEPT !.faults = IF ok THEN @ ELSE @ - 1]
             /\ IF rest # {} THEN Proceed(w, <<[Erase(rest) EXCEPT !.broke = broke]>>)
                ELSE IF broke THEN job' = [job EXCEPT ![w] = <<>>] ELSE Proceed(w, <<>>)
    BY Zenon DEF EraseOne
  <1>2. ok = TRUE
    <2> SUFFICES ASSUME ok # TRUE PROVE FALSE
      OBVIOUS
    <2>1. ok = FALSE
      BY <1>1
    <2>2. PICK f : hist' = [Noting(hist, IF item.what \in BestEffort THEN {"swallowed"} ELSE {"failed"}) EXCEPT !.faults = f]
      BY <1>1, <2>1, Zenon
    <2> QED BY <2>2 DEF Noting, Base, HistOK, HistFields, Trusty, Barring
  <1>3. Doing(w, "erase")
    BY Zenon DEF EraseOne
  <1>4. PICK j, tl : j = job[w] /\ tl = Tail(job[w])
    OBVIOUS
  <1>5. j # <<>> /\ p.do = "erase" /\ IsSeq(j) /\ p = Head(j) /\ tl = Tail(j)
    BY <1>3, <1>4, JobsAreSeqs DEF Doing, Idle, Base, This
  <1>6. Ending(j)
    BY <1>4, <1>5, EndingOf
  <1>7. Work(j) = {p} \cup Work(tl) /\ IsSeq(tl) /\ Items(j) = Items(<<p>>) \cup Items(tl)
    <2> HIDE DEF p
    <2> QED BY <1>5, WorkTurns
  <1>8. Items(j) = p.items \cup Items(tl) /\ ~p.broke
    <2> HIDE DEF p
    <2>1. Items(<<p>>) = p.items
      BY <1>5, ItemsIs
    <2> QED BY <1>5, <1>6, <1>7, <2>1 DEF Ending
  <1>9. db' = Without(item)
    BY <1>1, <1>2, Zenon
  <1>10. PICK rest : /\ rest = p.items \ {item}
                     /\ \/ rest # {} /\ Proceed(w, <<Erase(rest)>>)
                        \/ rest = {} /\ Proceed(w, <<>>)
    <2> DEFINE left == p.items \ {item}
    <2>1. \/ left # {} /\ Proceed(w, <<[Erase(left) EXCEPT !.broke = p.broke \/ (~ok /\ item.what \notin BestEffort)]>>)
          \/ left = {} /\ (~(p.broke \/ (~ok /\ item.what \notin BestEffort)) => Proceed(w, <<>>))
      BY <1>1, Zenon
    <2>2. (p.broke \/ (~ok /\ item.what \notin BestEffort)) = FALSE
      BY <1>2, <1>8, Zenon
    <2>3. [Erase(left) EXCEPT !.broke = FALSE] = Erase(left)
      BY EraseAgain
    <2> QED BY <2>1, <2>2, <2>3, Zenon
  <1> HIDE DEF p
  <1>11. PICK more : /\ Wipes(more) /\ Proceed(w, more) /\ Items(more) = rest
    <2>1. CASE rest # {} /\ Proceed(w, <<Erase(rest)>>)
      <3> DEFINE e == Erase(rest)
      <3>1. e.do = "erase" /\ e.items = rest /\ ~e.broke
        BY EraseIs
      <3> HIDE DEF e
      <3>2. Wipes(<<e>>) /\ Items(<<e>>) = rest
        BY <3>1, ItemsIs, WipesAre
      <3> QED BY <2>1, <3>2 DEF e
    <2>2. CASE rest = {} /\ Proceed(w, <<>>)
      BY <2>2, ItemsIs, WipesAre
    <2> QED BY <1>10, <2>1, <2>2
  <1>12. PICK steps : steps = more \o tl
    OBVIOUS
  <1>13. job' = [job EXCEPT ![w] = steps]
    BY <1>4, <1>11, <1>12 DEF Proceed
  <1>14. job'[w] = steps /\ \A v \in Workers : v # w => job'[v] = job[v]
    BY <1>13 DEF Base, JobsOK
  <1>15. Wipes(steps) /\ Items(steps) = rest \cup Items(tl)
    <2>1. Wipes(tl)
      BY <1>6, <1>7 DEF Ending, Wipes
    <2> QED BY <1>11, <1>12, <2>1, WipesAre, ItemsIs DEF Wipes
  <1>16. PICK I, J : I = Items(j) /\ J = Items(steps)
    OBVIOUS
  <1>17. (\A i \in I : i \in J \/ i = item) /\ J \subseteq I /\ item \in I
    BY <1>8, <1>10, <1>15, <1>16
  <1>18. PICK x, t : x = item.what /\ t = item.of
    OBVIOUS
  <1>19. item = Item(x, t) /\ x \in Cascade \cup Ends \cup {"seats"} /\ (x \in {"clouds", "creds"} => Fated(I, t))
    BY <1>6, <1>16, <1>17, <1>18 DEF Ending
  <1>20. Removed(x, t) /\ \A c \in Clouds : db'.cloud[c].cred = db.cloud[c].cred
    BY <1>9, <1>19, WithoutRemoves, LinksKept DEF Base, Matched
  <1>21. ASSUME NEW s, Fated(I, s) PROVE Fated(J, s)' /\ Doomed(s)'
    <2>1. Fated(J, s)'
      BY <1>17, <1>19, <1>20, <1>21, FateMoves
    <2>2. J = Items(job'[w])
      BY <1>14, <1>16
    <2>3. Fated(Items(job[w]), s)'
      BY <2>1, <2>2 DEF Fated, Dooms
    <2> QED BY <2>1, <2>3 DEF Doomed
  <1>22. Ending(steps)'
    <2>1. \A i \in J : /\ i = Item(i.what, i.of) /\ i.what \in Cascade \cup Ends \cup {"seats"}
                       /\ i.what \in {"clouds", "creds"} => Fated(J, i.of)'
      BY <1>6, <1>16, <1>17, <1>21 DEF Ending
    <2>2. \A s : Fated(J, s)' => Fated(Items(steps), s)'
      BY <1>16 DEF Fated, Dooms, Items, Work
    <2>3. \A i \in Items(steps) : /\ i = Item(i.what, i.of) /\ i.what \in Cascade \cup Ends \cup {"seats"}
                                  /\ i.what \in {"clouds", "creds"} => Fated(Items(steps), i.of)'
      BY <1>16, <2>1, <2>2
    <2> QED BY <1>15, <2>3 DEF Ending, Wipes, Items, Work
  <1>23. \A v \in {w} : Carries(job[v], v)'
    <2>1. Carries(steps, w)'
      BY <1>22 DEF Carries
    <2> QED BY <1>14, <2>1
  <1>24. (\A k : ~Holds(job[w], k) /\ ~Holds(job'[w], k)) /\ \A c : ~Mends(job[w], c)
    <2>1. \A k : ~Holds(job[w], k)
      BY <1>4, <1>5, <1>6, EndingIdles
    <2>2. \A k : ~Holds(steps, k)
      <3>1. steps # <<>> => Head(steps) \in Work(steps)
        BY <1>15, WorkOfRest DEF Wipes
      <3> QED BY <1>15, <3>1 DEF Wipes, Holds
    <2> QED BY <1>4, <1>6, <1>14, <2>1, <2>2 DEF Ending, Mends
  <1>25. x \in {"clouds", "creds"} => Doomed(t)'
    BY <1>19, <1>21
  <1>26. /\ \A c \in Clouds : db'.cloud[c].of = IF x = "clouds" /\ db.cloud[c].of = t THEN Gone ELSE db.cloud[c].of
         /\ \A k \in Creds : db'.cred[k] = IF x = "creds" /\ db.cred[k] = t THEN Gone ELSE db.cred[k]
         /\ ShapeOK' /\ SpacesLast
    BY <1>20, RemovalLasts DEF Removed
  <1>27. World({w})
    <2>1. CloudsLast({w})
      BY <1>20, <1>26 DEF CloudsLast
    <2>2. CredsLast
      BY <1>25, <1>26 DEF CredsLast
    <2>3. OthersWait({w})
      BY <1>14 DEF OthersWait
    <2>4. \A s : Fated(Items(job[w]), s) => Doomed(s)'
      BY <1>4, <1>16, <1>21
    <2> QED BY <1>24, <1>26, <2>1, <2>2, <2>3, <2>4 DEF World
  <1>28. ASSUME NEW c \in Clouds PROVE Lasting(c)'
    <2> SUFFICES ASSUME IsCloud(c)' PROVE Lasting(c)'
      BY DEF Lasting
    <2>1. PICK s, k : s = db.cloud[c].of /\ k = db.cloud[c].cred
      OBVIOUS
    <2>2. db'.cloud[c].of = s /\ db'.cloud[c].cred = k /\ IsCloud(c)
      BY <1>20, <1>26, <2>1, NothingIsNone DEF IsCloud
    <2>3. Known(s) /\ k \in Creds /\ (db.cred[k] = s \/ Doomed(s) \/ \E v \in Workers : Mends(job[v], c))
      BY <2>1, <2>2 DEF Matched, Lasting
    <2>4. Known(s)'
      BY <1>26, <2>3 DEF SpacesLast, Known
    <2>5. Doomed(s) => Doomed(s)'
      BY <1>27, DoomStays
    <2>6. db.cred[k] = s => db'.cred[k] = s \/ Doomed(s)'
      BY <1>25, <1>26, <2>3
    <2>7. \A v \in Workers : Mends(job[v], c) => Mends(job'[v], c)
      BY <1>14, <1>24
    <2>8. (\E v \in Workers : Mends(job'[v], c)) => (\E v \in Workers : Mends(job[v], c))'
      BY DEF Mends, Work
    <2>9. Known(db.cloud[c].of)' /\ (Doomed(s)' => Doomed(db.cloud[c].of)')
      BY <2>2, <2>4 DEF Doomed, Fated, Dooms, Known, Live
    <2> QED BY <2>2, <2>3, <2>5, <2>6, <2>7, <2>8, <2>9 DEF Lasting
  <1>29. ASSUME NEW k \in Creds PROVE Useful(k)' \/ CredStays(k, {w})
    <2>1. CASE x = "creds" /\ db.cred[k] = t
      BY <1>26, <2>1, NothingIsNone DEF Useful
    <2>2. CASE ~(x = "creds" /\ db.cred[k] = t)
      <3>1. db'.cred[k] = db.cred[k]
        BY <1>26, <2>2
      <3>2. ASSUME NEW c \in Clouds, db.cloud[c].cred = k, db.cloud[c].of = db.cred[k]
            PROVE  \/ db'.cloud[c].cred = k /\ db'.cloud[c].of = db.cred[k]
                   \/ \E s : s = db.cred[k] /\ Doomed(s)'
        BY <1>20, <1>25, <1>26, <3>2
      <3> QED BY <1>24, <3>1, <3>2 DEF CredStays
    <2> QED BY <2>1, <2>2
  <1> QED BY <1>20, <1>23, <1>27, <1>28, <1>29, MatchedStays

(************************** every step, and the first **********************)
LEMMA CloudAccountsMatch ==
  ASSUME Base, Base', Matched, Trusty', CloudAccountsNext
  PROVE  Matched'
  <1>1. ASSUME Errand PROVE Matched'
    <2>1. "failed" \notin hist'.lapses
      BY DEF Trusty, Barring
    <2> QED BY <1>1, <2>1, ErrandMatches DEF Errand, Matched
  <1>2. ASSUME NEW w \in Workers, NEW u \in Users, Connect(w, u) PROVE Matched'
    BY <1>2, ConnectMatches
  <1>3. ASSUME NEW w \in Workers, NEW u \in Users, DeleteOrg(w, u) PROVE Matched'
    BY <1>3, DeleteOrgMatches
  <1>4. ASSUME NEW w \in Workers, NEW u \in Users, NEW c \in Clouds, Disconnect(w, u, c) PROVE Matched'
    BY <1>4, DisconnectMatches
  <1>5. ASSUME NEW w \in Workers, NEW u \in Users, NEW c \in Clouds, Rotate(w, u, c) PROVE Matched'
    BY <1>5, RotateMatches
  <1>6. ASSUME NEW w \in Workers, NEW u, NEW c, NEW on, NEW k,
               \/ CreateKey(u) \/ RevokeKey(u, k) \/ RollKey(w, u, k) \/ RevokeRolled(w) \/ SetProfile(w)
               \/ SetStatus(u, c, on) \/ Provision(w, u) \/ CreateAccount(w, u) \/ InsertPersonal(w)
        PROVE  Matched'
    BY <1>1, <1>6, CloudAccountsErrands
  <1>7. ASSUME NEW w \in Workers, NEW u \in Users, DeleteMe(w, u) PROVE Matched'
    BY <1>7, DeleteMeMatches
  <1>8. ASSUME NEW w \in Workers, StoreCredential(w) PROVE Matched'
    BY <1>8, StoreMatches
  <1>9. ASSUME NEW w \in Workers, CreateCloud(w) PROVE Matched'
    BY <1>9, CreateCloudMatches
  <1>10. ASSUME NEW w \in Workers, DropCredential(w) PROVE Matched'
    BY <1>10, DropCredentialMatches
  <1>11. ASSUME NEW w \in Workers, DropCloud(w) PROVE Matched'
    BY <1>11, DropCloudMatches
  <1>12. ASSUME NEW w \in Workers, Rewire(w) PROVE Matched'
    BY <1>12, RewireMatches
  <1>13. ASSUME NEW w \in Workers, EraseOne(w) PROVE Matched'
    BY <1>13, EraseOneMatches
  <1>14. ASSUME NEW w \in Workers, CancelAll(w) PROVE Matched'
    BY <1>14, CancelAllMatches
  <1> HIDE DEF Matched
  <1> QED BY <1>2, <1>3, <1>4, <1>5, <1>6, <1>7, <1>8, <1>9, <1>10, <1>11, <1>12, <1>13, <1>14,
             Zenon DEF CloudAccountsNext

LEMMA CredsStay ==
  ASSUME Inv, CredInv, [Next]_vars
  PROVE  CredInv'
  <1> SUFFICES ASSUME Trusty' PROVE Matched'
    BY DEF CredInv
  <1>0. Base /\ Base'
    <2>1. Inv'
      BY InvStays
    <2> QED BY <2>1 DEF Inv
  <1>1. CASE UNCHANGED vars
    <2>1. UNCHANGED <<db, job, hist>>
      BY <1>1 DEF vars
    <2>2. Matched
      BY <2>1 DEF CredInv, Trusty, Barring
    <2>3. SameCreds /\ OthersWait({})
      BY <2>1, <2>2, SameDb DEF Matched, OthersWait
    <2> QED BY <1>0, <2>2, <2>3, StillMatched
  <1>2. CASE \E w \in Workers : Fails(w)
    <2>1. PICK f : hist' = [Noting(hist, {"failed"}) EXCEPT !.faults = f]
      BY <1>2, Zenon DEF Fails
    <2>2. "failed" \in hist'.lapses
      BY <1>0, <2>1 DEF Noting, Base, HistOK, HistFields
    <2> QED BY <2>2 DEF Trusty, Barring
  <1>3. CASE BillingNext \/ CloudAccountsNext \/ TeamNext \/ BudgetsNext \/ ConsoleNext
    <2>1. Grows
      <3>1. ConsoleNext => Grows
        BY <1>0, ConsoleIsPlain, MildIsSoft DEF MildStep, Soft
      <3> HIDE DEF Grows
      <3> QED BY <1>0, <1>3, <3>1, BillingIsDiscreet, CloudAccountsIsDiscreet, TeamIsDiscreet, BudgetsIsDiscreet,
                 DiscreetGrows
    <2>2. Matched
      BY <2>1 DEF Grows, CredInv, Trusty, Barring
    <2>3. CASE CloudAccountsNext
      BY <1>0, <2>2, <2>3, CloudAccountsMatch
    <2>4. CASE BillingNext \/ TeamNext \/ BudgetsNext \/ ConsoleNext
      <3>1. Errand
        <4>1. CASE BillingNext
          BY <1>0, <4>1, BillingErrands
        <4>2. CASE TeamNext \/ BudgetsNext \/ ConsoleNext
          <5>1. Bystander
            BY <1>0, <4>2, TeamStandsBy, BudgetsStandBy, ConsoleStandsBy
          <5> QED BY <5>1, SideIsErrand
        <4> QED BY <2>4, <4>1, <4>2
      <3>2. "failed" \notin hist'.lapses
        BY DEF Trusty, Barring
      <3> QED BY <1>0, <2>2, <3>1, <3>2, ErrandMatches DEF Errand, Matched
    <2> QED BY <1>3, <2>3, <2>4
  <1> QED BY <1>1, <1>2, <1>3, Zenon DEF Next

LEMMA CredsAtFirst ==
  ASSUME Init
  PROVE  CredInv
  <1> SUFFICES Matched
    BY DEF CredInv
  <1>1. PICK c \in Casts : db = c.db /\ job = [w \in Workers |-> <<>>]
    BY Zenon DEF Init, DocumentsInit
  <1>2. ShapeOK
    BY <1>1, CastsOK, Zenon DEF ShapeOK
  <1>3. \A w \in Workers : Carries(job[w], w)
    BY <1>1, IdleIsAfar DEF Carries
  <1>4. /\ \A x \in Clouds : LET s == db.cloud[x].of
                                 k == db.cloud[x].cred IN
              /\ s \in Spaces => k \in Creds /\ db.cred[k] = s
              /\ k \in Creds => db.cred[k] # None /\ \A y \in Clouds : db.cloud[y].cred = k => y = x
        /\ \A k \in Creds : LET s == db.cred[k] IN s \in Spaces =>
              /\ db.space[s].type # "unborn"
              /\ \E x \in Clouds : db.cloud[x].cred = k /\ db.cloud[x].of = s
    BY <1>1, CredsOK
  <1>5. \A x \in Clouds : db.cloud[x].of \in Spaces => db.space[db.cloud[x].of].type # "unborn"
    BY <1>1, PlansOK
  <1>6. ASSUME NEW x \in Clouds PROVE Lasting(x) /\ OwnCred(x)
    BY <1>4, <1>5 DEF Lasting, OwnCred, IsCloud, Known
  <1>7. ASSUME NEW k \in Creds PROVE Useful(k)
    BY <1>4 DEF Useful, Known
  <1> QED BY <1>2, <1>3, <1>6, <1>7 DEF Matched

LEMMA CredsHold == Spec => []CredInv
  BY CredsAtFirst, CredsStay, InvHolds, PTL DEF Spec

(* Between requests every cloud account of a workspace has a credential of *)
(* that workspace, and every credential a cloud account that uses it, for  *)
(* any workspaces, cloud accounts, credentials and requests in any order,  *)
(* unless a step failed, its error was let go, or it acted on what another *)
(* handler had changed (routes/cloud-accounts, DELETE /orgs/:orgId and     *)
(* DELETE /accounts/me).                                                   *)
THEOREM CredentialsAgree == Spec => []CredentialsMatch
  <1>1. CredInv => CredentialsMatch
    <2> SUFFICES ASSUME CredInv, AllIdle, Barring({"failed", "stale", "swallowed"})
                 PROVE  /\ \A c \in Clouds : Live(db.cloud[c].of) => db.cred[db.cloud[c].cred] = db.cloud[c].of
                        /\ \A k \in Creds : Live(db.cred[k]) =>
                              \E c \in Clouds : db.cloud[c].cred = k /\ db.cloud[c].of = db.cred[k]
      BY Zenon DEF CredentialsMatch
    <2>1. Matched
      BY DEF CredInv, Trusty
    <2>2. \A w \in Workers : job[w] = <<>>
      BY DEF AllIdle, Idle
    <2>3. \A w \in Workers : (\A k : ~Holds(job[w], k)) /\ \A c : ~Mends(job[w], c)
      BY <2>2, WorkOfNone DEF Holds, Mends
    <2>4. \A s : Live(s) => ~Doomed(s)
      BY <2>2, ItemsIs DEF Doomed, Fated, Dooms
    <2>5. ASSUME NEW c \in Clouds, Live(db.cloud[c].of) PROVE db.cred[db.cloud[c].cred] = db.cloud[c].of
      <3>1. IsCloud(c)
        BY <2>5 DEF Live, IsCloud
      <3> QED BY <2>1, <2>3, <2>4, <2>5, <3>1 DEF Matched, Lasting
    <2>6. ASSUME NEW k \in Creds, Live(db.cred[k])
          PROVE  \E c \in Clouds : db.cloud[c].cred = k /\ db.cloud[c].of = db.cred[k]
      <3>1. db.cred[k] \in Spaces
        BY <2>6 DEF Live
      <3> QED BY <2>1, <2>3, <2>4, <2>6, <3>1 DEF Matched, Useful
    <2> QED BY <2>5, <2>6
  <1> QED BY <1>1, CredsHold, PTL
===============================================================================
