----------------------------- MODULE WorkspaceProofs -----------------------------
(***************************************************************************)
(* What the workspace promises for any users, workspaces, cloud accounts,  *)
(* invitations, thresholds and number of workers serving requests.  The    *)
(* first part says which steps neither check a budget nor seat anybody     *)
(* (PlainStep) and shows it of each handler; on that rest the budget's     *)
(* alerts and the seats.  The second part is about the console's tab.  The *)
(* third is about deletions: while nothing goes wrong (Calm) one handler   *)
(* runs at a time, and what is left of it deletes all that still belongs   *)
(* to what it is about to remove (Serial).                                 *)
(***************************************************************************)
EXTENDS Workspace, SequenceTheorems, FiniteSetTheorems, WellFoundedInduction, TLAPS

(****************************** sequences **********************************)
(* What a handler still has to do, as a set.                               *)
Work(s)  == {s[i] : i \in 1 .. Len(s)}
IsSeq(s) == s \in Seq(Work(s))

(******************************* the jobs **********************************)
BudgetWork == {"period", "spend", "alert", "told"}
SeatWork   == {"seat", "settle"}
Plain(s)   == IsSeq(s) /\ \A x \in Work(s) : x.do \notin BudgetWork \cup SeatWork
BudgetJob(s) == IsSeq(s) /\ Len(s) = 1 /\ s[1].do \in BudgetWork
Settlement(i, status) == [do |-> "settle", invite |-> i, status |-> status, was |-> "pending"]
Seats(s, i) ==
    /\ IsSeq(s) /\ Len(s) = 2 /\ s[1].do = "seat" /\ s[1].from = i /\ s[1].inv.status = "pending"
    /\ s[2] = Settlement(i, "accepted")
Settles(s, i) == \E status \in {"accepted", "expired"} : s = <<Settlement(i, status)>>
SeatJob(s) == \E i \in Invites : Seats(s, i) \/ Settles(s, i)
JobsOK ==
    /\ DOMAIN job = Workers /\ job = [w \in Workers |-> job[w]]
    /\ \A w \in Workers : Plain(job[w]) \/ SeatJob(job[w]) \/ BudgetJob(job[w])

DbFields   == {"space", "cloud", "cred", "member", "invite", "active", "rules", "keys", "keyed",
               "budget", "spent", "before", "period"}
HistFields == {"left", "faults", "lapses", "touched", "outgrown", "sent"}
MailFields == {"sub", "open", "mail", "done", "sent"}
DbOK ==
    /\ DOMAIN db = DbFields
    /\ DOMAIN db.invite = Invites /\ \A i \in Invites : DOMAIN db.invite[i] = DOMAIN NoInvite
    /\ \A m \in db.member : DOMAIN m = {"user", "of", "role", "email", "from"}
HistOK   == DOMAIN hist = HistFields /\ hist.sent \in [Thresholds -> Nat]
StripeOK == DOMAIN stripe = MailFields /\ \A e \in stripe.mail : e.kind \in {"completed", "updated", "deleted"}
Base == JobsOK /\ DbOK /\ HistOK /\ StripeOK

(****************************** deletions **********************************)
(* The steps of a deletion, and the one that takes a lost seat's owner     *)
(* away from the workspace.                                                *)
OddWork == {"erase", "cancel", "clear"}
Tame(s) == \A x \in Work(s) : x.do \notin OddWork

Standing(x) == x \in Spaces => db.space[x].type # "gone"
ShapeOK ==
    /\ DOMAIN db.space = Spaces /\ \A s \in Spaces : DOMAIN db.space[s] = DOMAIN NoSpace
    /\ DOMAIN db.cloud = Clouds /\ \A c \in Clouds : DOMAIN db.cloud[c] = DOMAIN NoCloud
    /\ DOMAIN db.cred = Creds /\ DOMAIN db.active = Users
(* What belongs to a workspace belongs to one that has not been deleted.   *)
RefsStand ==
    /\ \A c \in Clouds : Standing(db.cloud[c].of)
    /\ \A k \in Creds : Standing(db.cred[k])
    /\ \A m \in db.member : Standing(m.of)
    /\ \A i \in Invites : Standing(db.invite[i].of)
    /\ \A k \in db.keys : Standing(k.of)
Enters(u, s) == Live(s) /\ (db.space[s].owner = u \/ \E m \in db.member : m.of = s /\ m.user = u)
Calm == Barring({"failed", "stale", "swallowed", "overlap"})

LEMMA WorkOfNone == IsSeq(<<>>) /\ Work(<<>>) = {} /\ Plain(<<>>)
  <1>1. Work(<<>>) = {}
    BY DEF Work
  <1> QED BY <1>1 DEF IsSeq, Plain

LEMMA WorkOfOne ==
  ASSUME NEW a
  PROVE  /\ IsSeq(<<a>>) /\ Work(<<a>>) = {a} /\ <<a>> # <<>>
         /\ Len(<<a>>) = 1 /\ <<a>>[1] = a /\ Head(<<a>>) = a /\ Tail(<<a>>) = <<>>
  <1>1. <<a>> \in Seq({a}) /\ Len(<<a>>) = 1 /\ <<a>>[1] = a
    OBVIOUS
  <1>2. Tail(<<a>>) \in Seq({a}) /\ Len(Tail(<<a>>)) = 0
    BY <1>1
  <1>3. Work(<<a>>) = {a}
    BY <1>1 DEF Work
  <1>4. Tail(<<a>>) = <<>>
    BY <1>2, EmptySeq
  <1>5. <<a>> # <<>> /\ Head(<<a>>) = a
    BY <1>1
  <1> QED BY <1>1, <1>3, <1>4, <1>5 DEF IsSeq

LEMMA WorkOfTwo ==
  ASSUME NEW a, NEW b
  PROVE  /\ IsSeq(<<a, b>>) /\ Work(<<a, b>>) = {a, b} /\ <<a, b>> # <<>>
         /\ Len(<<a, b>>) = 2 /\ <<a, b>>[1] = a /\ <<a, b>>[2] = b
  <1>1. <<a, b>> \in Seq({a, b})
    OBVIOUS
  <1>2. Work(<<a, b>>) = {a, b}
    BY DEF Work
  <1> QED BY <1>1, <1>2 DEF IsSeq

LEMMA WorkJoined ==
  ASSUME NEW s, NEW t, IsSeq(s), IsSeq(t)
  PROVE  /\ IsSeq(s \o t) /\ Work(s \o t) = Work(s) \cup Work(t)
         /\ s = <<>> => s \o t = t
  <1>3. s \in Seq(Work(s) \cup Work(t)) /\ t \in Seq(Work(s) \cup Work(t))
    BY DEF IsSeq
  <1>4. s \o t \in Seq(Work(s) \cup Work(t))
    BY <1>3
  <1>5. Len(s \o t) = Len(s) + Len(t) /\ Len(s) \in Nat /\ Len(t) \in Nat
    BY <1>3
  <1>6. \A i \in 1 .. Len(s) + Len(t) : (s \o t)[i] = IF i <= Len(s) THEN s[i] ELSE t[i - Len(s)]
    BY <1>3
  <1>7. Work(s \o t) \subseteq Work(s) \cup Work(t)
    BY <1>5, <1>6 DEF Work
  <1>8. Work(s) \subseteq Work(s \o t)
    BY <1>5, <1>6 DEF Work
  <1>9. Work(t) \subseteq Work(s \o t)
    <2> SUFFICES ASSUME NEW i \in 1 .. Len(t) PROVE t[i] \in Work(s \o t)
      BY DEF Work
    <2>1. i + Len(s) \in 1 .. Len(s \o t) /\ (s \o t)[i + Len(s)] = t[i]
      BY <1>5, <1>6
    <2> QED BY <2>1 DEF Work
  <1>10. s = <<>> => s \o t = t
    BY <1>3, ConcatEmptySeq
  <1>11. Work(s \o t) = Work(s) \cup Work(t)
    BY <1>7, <1>8, <1>9
  <1> QED BY <1>4, <1>10, <1>11 DEF IsSeq

LEMMA WorkOfRest ==
  ASSUME NEW s, IsSeq(s), s # <<>>
  PROVE  /\ IsSeq(Tail(s)) /\ Work(Tail(s)) \subseteq Work(s)
         /\ Head(s) \in Work(s) /\ Head(s) = s[1] /\ Len(s) \in Nat /\ Len(s) > 0
         /\ Len(Tail(s)) = Len(s) - 1 /\ (Len(s) = 1 => Tail(s) = <<>>)
         /\ Len(s) = 2 => Tail(s) = <<s[2]>>
  <1>1. s \in Seq(Work(s))
    BY DEF IsSeq
  <1>2. Tail(s) \in Seq(Work(s)) /\ Len(Tail(s)) = Len(s) - 1 /\ Len(s) \in Nat /\ Len(s) > 0
    BY <1>1
  <1>3. \A i \in 1 .. Len(s) - 1 : Tail(s)[i] = s[i + 1]
    BY <1>1
  <1>4. Head(s) = s[1] /\ Head(s) \in Work(s)
    BY <1>1, <1>2
  <1>5. Work(Tail(s)) \subseteq Work(s)
    BY <1>2, <1>3 DEF Work
  <1>6. IsSeq(Tail(s))
    <2>1. \A i \in 1 .. Len(Tail(s)) : Tail(s)[i] \in Work(Tail(s))
      BY DEF Work
    <2> DEFINE t == Tail(s)
               n == Len(t)
    <2>2. t \in [1 .. n -> Work(s)] /\ n \in Nat
      BY <1>2, LenProperties
    <2> HIDE DEF t, n
    <2>3. t \in [1 .. n -> Work(t)]
      BY <2>1, <2>2 DEF t, n
    <2>4. t \in Seq(Work(t))
      BY <2>2, <2>3, SeqDef
    <2> QED BY <2>4 DEF IsSeq, t
  <1>7. Len(s) = 1 => Tail(s) = <<>>
    <2>1. Len(s) = 1 => Len(Tail(s)) = 0
      BY <1>2
    <2> QED BY <1>2, <2>1, EmptySeq
  <1>8. Len(s) = 2 => Tail(s) = <<s[2]>>
    <2> SUFFICES ASSUME Len(s) = 2 PROVE Tail(s) = <<s[2]>>
      OBVIOUS
    <2>1. Len(Tail(s)) = 1 /\ Tail(s)[1] = s[2] /\ s[2] \in Work(s)
      BY <1>2, <1>3 DEF Work
    <2>2. <<s[2]>> \in Seq(Work(s)) /\ Len(<<s[2]>>) = 1 /\ <<s[2]>>[1] = s[2] /\ 1 .. 1 = {1}
      BY <2>1
    <2> QED BY <1>2, <2>1, <2>2, SeqEqual
  <1> QED BY <1>2, <1>4, <1>5, <1>6, <1>7, <1>8

LEMMA LeastIsIn ==
  ASSUME NEW S \in SUBSET Nat, S # {}
  PROVE  Least(S) \in S /\ \A m \in S : Least(S) <= m
  <1>1. PICK n \in S : \A m \in S : <<m, n>> \notin OpToRel(<, Nat)
    BY WFMin, NatLessThanWellFounded, Zenon
  <1>2. \A m \in S : n <= m
    <2> SUFFICES ASSUME NEW m \in S, m < n PROVE FALSE
      OBVIOUS
    <2>1. m \in Nat /\ n \in Nat
      OBVIOUS
    <2>2. <<m, n>> \in OpToRel(<, Nat)
      BY <2>1, Zenon DEF OpToRel
    <2> QED BY <2>2, <1>1, Zenon
  <1> QED BY <1>2 DEF Least

(****************************** plain steps ********************************)
(* What neither checks a budget nor seats anybody leaves both alone.       *)
JobsMove ==
    /\ DOMAIN job' = Workers /\ job' = [w \in Workers |-> job'[w]]
    /\ \A v \in Workers : job'[v] = job[v] \/ (Plain(job[v]) /\ Plain(job'[v]))
    /\ \A v \in Workers : job'[v] # <<>> => job[v] # <<>> \/ Crowded \subseteq hist'.lapses
    /\ \A v, w \in Workers : v # w => job'[v] = job[v] \/ job'[w] = job[w]
Notes == HistOK' /\ hist.lapses \subseteq hist'.lapses /\ hist'.sent = hist.sent
Keeps ==
    /\ DbOK' /\ db'.budget = db.budget /\ db'.period = db.period
    /\ \A i \in Invites : db'.invite[i].status = db.invite[i].status
    /\ db'.member \subseteq db.member
PlainStep == JobsMove /\ Notes /\ Keeps /\ StripeOK'

LEMMA NotingMore ==
  ASSUME HistOK, NEW lapses, \/ hist' = Noting(hist, lapses) \/ hist' = Noting(Spend, lapses)
  PROVE  Notes /\ hist'.lapses = hist.lapses \cup lapses
  BY DEF HistOK, HistFields, Noting, Spend, Notes

LEMMA NotingNothing ==
  ASSUME HistOK, \/ hist' = Spend \/ UNCHANGED hist
  PROVE  Notes /\ hist'.lapses = hist.lapses
  BY DEF HistOK, HistFields, Noting, Spend, Notes

(* Comparing plans is remembered, and disturbs nothing else.               *)
Compared == UNCHANGED hist \/ \E orgs : hist' = [hist EXCEPT !.outgrown = orgs]

LEMMA OutgrownOnly ==
  ASSUME NEW h, NEW s, NEW tier
  PROVE  Outgrown(h, s, tier) = h \/ \E orgs : Outgrown(h, s, tier) = [h EXCEPT !.outgrown = orgs]
  BY Zenon DEF Outgrown

LEMMA ComparedNothing ==
  ASSUME HistOK, Compared
  PROVE  Notes /\ hist'.lapses = hist.lapses /\ hist'.touched = hist.touched
  <1>1. CASE UNCHANGED hist
    BY <1>1 DEF HistOK, HistFields, Notes
  <1>2. CASE \E orgs : hist' = [hist EXCEPT !.outgrown = orgs]
    BY <1>2 DEF HistOK, HistFields, Notes
  <1> QED BY <1>1, <1>2 DEF Compared

LEMMA ComparedMore ==
  ASSUME HistOK, NEW lapses, NEW s, NEW tier, hist' = Outgrown(Noting(hist, lapses), s, tier)
  PROVE  Notes /\ hist'.lapses = hist.lapses \cup lapses /\ hist'.touched = hist.touched
  <1>1. CASE hist' = Noting(hist, lapses)
    BY <1>1 DEF HistOK, HistFields, Noting, Notes
  <1>2. CASE \E orgs : hist' = [Noting(hist, lapses) EXCEPT !.outgrown = orgs]
    BY <1>2 DEF HistOK, HistFields, Noting, Notes
  <1> QED BY <1>1, <1>2, OutgrownOnly

LEMMA KeepingAll ==
  ASSUME DbOK, UNCHANGED db
  PROVE  Keeps
  BY DEF DbOK, Keeps

LEMMA StripeSame ==
  ASSUME StripeOK, UNCHANGED stripe
  PROVE  StripeOK'
  BY DEF StripeOK

LEMMA JobsSame ==
  ASSUME JobsOK, UNCHANGED job
  PROVE  JobsMove
  BY DEF JobsOK, JobsMove

(* A worker takes a plain request, goes on with a plain one.               *)
LEMMA Starting ==
  ASSUME Base, NEW w \in Workers, NEW steps, Plain(steps), Begin(w, steps)
  PROVE  JobsMove /\ Notes
  <1>1. Notes /\ hist'.lapses = hist.lapses \cup Crowded
    BY NotingMore DEF Base, Begin
  <1>2. job' = [job EXCEPT ![w] = steps] /\ job[w] = <<>>
    BY DEF Begin, Idle
  <1>3. JobsMove
    BY <1>1, <1>2, WorkOfNone DEF JobsMove, Base, JobsOK
  <1> QED BY <1>1, <1>3

LEMMA DoingPlain ==
  ASSUME JobsOK, NEW w \in Workers, NEW d, d \notin BudgetWork \cup SeatWork, Doing(w, d)
  PROVE  Plain(job[w]) /\ job[w] # <<>> /\ This(w).do = d /\ This(w) \in Work(job[w])
  <1>1. job[w] # <<>> /\ Head(job[w]).do = d
    BY DEF Doing, Idle
  <1>2. ~BudgetJob(job[w])
    BY <1>1, WorkOfRest DEF BudgetJob
  <1>3. ~SeatJob(job[w])
    <2> SUFFICES ASSUME NEW i \in Invites, Seats(job[w], i) \/ Settles(job[w], i) PROVE FALSE
      BY DEF SeatJob
    <2>1. CASE Seats(job[w], i)
      BY <1>1, <2>1, WorkOfRest DEF Seats, SeatWork
    <2>2. CASE Settles(job[w], i)
      <3>1. PICK status : job[w] = <<Settlement(i, status)>>
        BY <2>2 DEF Settles
      <3>2. Head(job[w]) = Settlement(i, status)
        BY <3>1, WorkOfOne
      <3> QED BY <1>1, <3>2 DEF Settlement, SeatWork
    <2> QED BY <2>1, <2>2
  <1>4. Plain(job[w])
    BY <1>2, <1>3 DEF JobsOK
  <1> QED BY <1>1, <1>4, WorkOfRest DEF Plain, This

LEMMA Going ==
  ASSUME JobsOK, NEW w \in Workers, NEW d, d \notin BudgetWork \cup SeatWork, Doing(w, d),
         NEW more, Plain(more), Proceed(w, more)
  PROVE  JobsMove
  <1>1. Plain(job[w]) /\ job[w] # <<>>
    BY DoingPlain
  <1>2. Plain(more \o Tail(job[w]))
    <2>1. IsSeq(Tail(job[w])) /\ Work(Tail(job[w])) \subseteq Work(job[w])
      BY <1>1, WorkOfRest DEF Plain
    <2>2. IsSeq(more \o Tail(job[w])) /\ Work(more \o Tail(job[w])) = Work(more) \cup Work(Tail(job[w]))
      BY <2>1, WorkJoined DEF Plain
    <2> QED BY <1>1, <2>1, <2>2 DEF Plain
  <1>3. job' = [job EXCEPT ![w] = more \o Tail(job[w])]
    BY DEF Proceed
  <1> QED BY <1>1, <1>2, <1>3 DEF JobsMove, JobsOK

LEMMA GivingUp ==
  ASSUME JobsOK, NEW w \in Workers, NEW d, d \notin BudgetWork \cup SeatWork, Doing(w, d),
         job' = [job EXCEPT ![w] = <<>>]
  PROVE  JobsMove
  <1>1. Plain(job[w]) /\ job[w] # <<>>
    BY DoingPlain
  <1> QED BY <1>1, WorkOfNone DEF JobsMove, JobsOK

LEMMA PlainOne ==
  ASSUME NEW a, a.do \notin BudgetWork \cup SeatWork
  PROVE  Plain(<<a>>)
  BY WorkOfOne DEF Plain

LEMMA PlainTwo ==
  ASSUME NEW a, a.do \notin BudgetWork \cup SeatWork, NEW b, b.do \notin BudgetWork \cup SeatWork
  PROVE  Plain(<<a, b>>)
  BY WorkOfTwo DEF Plain

LEMMA PlainJoined ==
  ASSUME NEW s, NEW t, Plain(s), Plain(t)
  PROVE  Plain(s \o t)
  BY WorkJoined DEF Plain

(* A request that takes a worker, and one that is served at once, with the *)
(* handlers that only read or only write: neither a budget check nor a     *)
(* seat is started or disturbed by them.                                   *)
LEMMA StartingOnly ==
  ASSUME Base, NEW w \in Workers, NEW steps, Plain(steps), Begin(w, steps), UNCHANGED <<db, stripe>>
  PROVE  PlainStep
  BY Starting, KeepingAll, StripeSame DEF Base, PlainStep

LEMMA GoingOnly ==
  ASSUME Base, NEW w \in Workers, NEW d, d \notin BudgetWork \cup SeatWork, Doing(w, d),
         NEW more, Plain(more), Proceed(w, more), Clean, UNCHANGED <<db, stripe>>
  PROVE  PlainStep
  BY Going, NotingNothing, KeepingAll, StripeSame DEF Base, PlainStep, Clean

LEMMA Throwing ==
  ASSUME Base, NEW w \in Workers, NEW d, d \notin BudgetWork \cup SeatWork, Doing(w, d), Throws(w)
  PROVE  PlainStep
  BY GivingUp, NotingMore, KeepingAll, StripeSame DEF Base, PlainStep, Throws, With

LEMMA AtOnceOnly ==
  ASSUME Base, AtOnce
  PROVE  JobsMove /\ Notes
  BY JobsSame, NotingMore DEF Base, AtOnce

LEMMA Elsewhere ==
  ASSUME DbOK, NEW f \in DbFields \ {"member", "invite", "budget", "period"}, NEW v,
         db' = [db EXCEPT ![f] = v]
  PROVE  Keeps
  BY DEF DbOK, DbFields, Keeps

LEMMA KeptElsewhere ==
  ASSUME DbOK, NEW f \in DbFields \ {"member", "invite", "budget", "period"},
         DOMAIN db' = DOMAIN db, \A g \in DbFields \ {f} : db'[g] = db[g]
  PROVE  Keeps
  BY DEF DbOK, DbFields, Keeps

(****************************** mild steps *********************************)
(* What no deletion is under way for: such a step deletes no workspace and *)
(* keeps what belongs to each where it is.                                 *)
Mild(s)  == Plain(s) /\ Tame(s)
Ready(v) == job[v] = <<>> \/ Head(job[v]).do \notin OddWork
MildJobs == \A v \in Workers : job'[v] = job[v] \/ (Ready(v) /\ (Tame(job[v]) => Tame(job'[v])))
JobsGo   == JobsMove /\ MildJobs
Unmoved == ShapeOK =>
    /\ ShapeOK'
    /\ \A s \in Spaces : db'.space[s].type = db.space[s].type /\ db'.space[s].owner = db.space[s].owner
    /\ \A c \in Clouds : db'.cloud[c].of = db.cloud[c].of
    /\ \A i \in Invites : db'.invite[i].of = db.invite[i].of
    /\ db'.cred = db.cred /\ db'.member = db.member /\ db'.keys = db.keys /\ db'.active = db.active
Steady ==
    /\ ShapeOK' /\ RefsStand'
    /\ \A s \in Spaces : db'.space[s].type = "gone" <=> db.space[s].type = "gone"
    /\ \A u, s : Enters(u, s) => Enters(u, s)'
    /\ \A u \in Users : db'.active[u] \in {db.active[u], None} \/ Enters(u, db.active[u])'
Steadies == Calm' /\ ShapeOK /\ RefsStand => Steady
Keeping  == Keeps /\ Steadies
Heeded   == Unmoved \/ Crowded \subseteq hist'.lapses \/ \E v \in Workers : job[v] # <<>> /\ Ready(v)
Gentle   == MildJobs /\ Heeded /\ Steadies
MildStep == PlainStep /\ Gentle

LEMMA TameIs ==
  /\ Tame(<<>>) /\ Mild(<<>>)
  /\ \A a : a.do \notin OddWork => Tame(<<a>>)
  /\ \A a, b : a.do \notin OddWork /\ b.do \notin OddWork => Tame(<<a, b>>)
  BY WorkOfNone, WorkOfOne, WorkOfTwo DEF Tame, Mild

LEMMA MildOne ==
  ASSUME NEW a, a.do \notin BudgetWork \cup SeatWork \cup OddWork
  PROVE  Mild(<<a>>)
  BY PlainOne, TameIs DEF Mild

LEMMA MildTwo ==
  ASSUME NEW a, a.do \notin BudgetWork \cup SeatWork \cup OddWork,
         NEW b, b.do \notin BudgetWork \cup SeatWork \cup OddWork
  PROVE  Mild(<<a, b>>)
  BY PlainTwo, TameIs DEF Mild

LEMMA MildJoined ==
  ASSUME NEW s, NEW t, Mild(s), Mild(t)
  PROVE  Mild(s \o t)
  <1>1. IsSeq(s) /\ IsSeq(t)
    BY DEF Mild, Plain
  <1>2. Work(s \o t) = Work(s) \cup Work(t)
    BY <1>1, WorkJoined
  <1> QED BY <1>2, PlainJoined DEF Mild, Tame

LEMMA UnmovedEnters ==
  ASSUME Unmoved, ShapeOK
  PROVE  \A u, s : Enters(u, s)' <=> Enters(u, s)
  BY DEF Unmoved, Enters, Live

LEMMA UnmovedIsSteady ==
  ASSUME Unmoved
  PROVE  Steadies
  BY UnmovedEnters, Zenon DEF Unmoved, Steadies, Steady, RefsStand, Standing

LEMMA StayingPut ==
  ASSUME UNCHANGED db
  PROVE  Unmoved /\ Steadies
  <1>1. Unmoved
    BY DEF Unmoved, ShapeOK
  <1> QED BY <1>1, UnmovedIsSteady

LEMMA KeepingStill ==
  ASSUME DbOK, UNCHANGED db
  PROVE  Keeping /\ Unmoved
  BY KeepingAll, StayingPut DEF Keeping

(* The fields of a workspace that say neither what it is nor whose.        *)
LEMMA Retouching ==
  ASSUME DbOK, DOMAIN db' = DOMAIN db, \A f \in DbFields \ {"space"} : db'[f] = db[f],
         ShapeOK => \A s \in Spaces : db'.space[s].type = db.space[s].type /\ db'.space[s].owner = db.space[s].owner,
         ShapeOK => DOMAIN db'.space = Spaces /\ \A s \in Spaces : DOMAIN db'.space[s] = DOMAIN NoSpace
  PROVE  Keeping /\ Unmoved
  <1>1. Keeps
    BY KeptElsewhere DEF DbFields
  <1>2. Unmoved
    BY DEF Unmoved, ShapeOK, DbFields
  <1> QED BY <1>1, <1>2, UnmovedIsSteady DEF Keeping

(* The fields of a cloud account that do not say whose it is.              *)
LEMMA Reworking ==
  ASSUME DbOK, DOMAIN db' = DOMAIN db, \A f \in DbFields \ {"cloud"} : db'[f] = db[f],
         ShapeOK => \A c \in Clouds : db'.cloud[c].of = db.cloud[c].of,
         ShapeOK => DOMAIN db'.cloud = Clouds /\ \A c \in Clouds : DOMAIN db'.cloud[c] = DOMAIN NoCloud
  PROVE  Keeping /\ Unmoved
  <1>1. Keeps
    BY KeptElsewhere DEF DbFields
  <1>2. Unmoved
    BY DEF Unmoved, ShapeOK, DbFields
  <1> QED BY <1>1, <1>2, UnmovedIsSteady DEF Keeping

LEMMA Aloof ==
  ASSUME DbOK, NEW f \in {"rules", "keyed", "spent", "before"}, NEW v, db' = [db EXCEPT ![f] = v]
  PROVE  Keeping /\ Unmoved
  <1>1. Keeps
    BY Elsewhere DEF DbFields
  <1>2. DOMAIN db' = DOMAIN db /\ \A g \in DbFields \ {f} : db'[g] = db[g]
    BY DEF DbOK
  <1>3. Unmoved
    BY <1>2 DEF Unmoved, ShapeOK, DbFields
  <1> QED BY <1>1, <1>3, UnmovedIsSteady DEF Keeping

LEMMA JobsStay ==
  ASSUME JobsOK, UNCHANGED job
  PROVE  JobsGo
  BY JobsSame DEF JobsGo, MildJobs

LEMMA StartingMildly ==
  ASSUME Base, NEW w \in Workers, NEW steps, Mild(steps), Begin(w, steps)
  PROVE  JobsGo /\ Notes /\ Heeded
  <1>1. JobsMove /\ Notes
    BY Starting DEF Mild
  <1>2. hist'.lapses = hist.lapses \cup Crowded
    BY NotingMore DEF Base, Begin
  <1>3. job' = [job EXCEPT ![w] = steps] /\ job[w] = <<>>
    BY DEF Begin, Idle
  <1>4. MildJobs
    BY <1>3 DEF MildJobs, Ready, Mild, Base, JobsOK
  <1> QED BY <1>1, <1>2, <1>4 DEF JobsGo, Heeded

LEMMA GoingMildly ==
  ASSUME JobsOK, NEW w \in Workers, NEW d, d \notin BudgetWork \cup SeatWork \cup OddWork, Doing(w, d),
         NEW more, Mild(more), Proceed(w, more)
  PROVE  JobsGo /\ Heeded
  <1>1. Plain(job[w]) /\ job[w] # <<>> /\ Head(job[w]).do = d
    BY DoingPlain DEF This
  <1>2. JobsMove
    BY Going DEF Mild
  <1>3. IsSeq(Tail(job[w])) /\ Work(Tail(job[w])) \subseteq Work(job[w])
    BY <1>1, WorkOfRest DEF Plain
  <1>4. Work(more \o Tail(job[w])) = Work(more) \cup Work(Tail(job[w]))
    BY <1>3, WorkJoined DEF Mild, Plain
  <1>5. Tame(job[w]) => Tame(more \o Tail(job[w]))
    BY <1>3, <1>4 DEF Mild, Tame
  <1>6. job' = [job EXCEPT ![w] = more \o Tail(job[w])]
    BY DEF Proceed
  <1>7. Ready(w)
    BY <1>1 DEF Ready
  <1>8. MildJobs
    BY <1>5, <1>6, <1>7 DEF MildJobs, JobsOK
  <1> QED BY <1>1, <1>2, <1>7, <1>8 DEF JobsGo, Heeded

LEMMA GivingUpMildly ==
  ASSUME JobsOK, NEW w \in Workers, NEW d, d \notin BudgetWork \cup SeatWork \cup OddWork, Doing(w, d),
         job' = [job EXCEPT ![w] = <<>>]
  PROVE  JobsGo /\ Heeded
  <1>1. job[w] # <<>> /\ Head(job[w]).do = d
    BY DoingPlain DEF This
  <1>2. JobsMove
    BY GivingUp
  <1>3. Ready(w)
    BY <1>1 DEF Ready
  <1>4. MildJobs
    BY <1>3, TameIs DEF MildJobs, JobsOK
  <1> QED BY <1>1, <1>2, <1>3, <1>4 DEF JobsGo, Heeded

LEMMA StartingOnlyMildly ==
  ASSUME Base, NEW w \in Workers, NEW steps, Mild(steps), Begin(w, steps), UNCHANGED <<db, stripe>>
  PROVE  MildStep
  BY StartingMildly, KeepingStill, StripeSame DEF Base, PlainStep, MildStep, Gentle, JobsGo, Keeping

LEMMA OrderedMildly ==
  ASSUME Base, NEW w \in Workers, NEW d, d \notin BudgetWork \cup SeatWork \cup OddWork, Doing(w, d),
         NEW more, Mild(more), Proceed(w, more), Notes, Keeping, UNCHANGED stripe
  PROVE  MildStep
  BY GoingMildly, StripeSame DEF Base, PlainStep, MildStep, Gentle, JobsGo, Keeping

LEMMA UnorderedMildly ==
  ASSUME Base, NEW w \in Workers, NEW d, d \notin BudgetWork \cup SeatWork \cup OddWork, Doing(w, d),
         Proceed(w, <<>>), Notes, Keeping, UNCHANGED stripe
  PROVE  MildStep
  BY OrderedMildly, TameIs

LEMMA GoingOnlyMildly ==
  ASSUME Base, NEW w \in Workers, NEW d, d \notin BudgetWork \cup SeatWork \cup OddWork, Doing(w, d),
         NEW more, Mild(more), Proceed(w, more), Clean, UNCHANGED <<db, stripe>>
  PROVE  MildStep
  BY OrderedMildly, NotingNothing, KeepingStill DEF Base, Clean

LEMMA ThrowingMildly ==
  ASSUME Base, NEW w \in Workers, NEW d, d \notin BudgetWork \cup SeatWork \cup OddWork, Doing(w, d), Throws(w)
  PROVE  MildStep
  <1>1. JobsGo /\ Heeded
    BY GivingUpMildly DEF Throws, Base
  <1> QED BY <1>1, NotingMore, KeepingStill, StripeSame
          DEF Base, PlainStep, Throws, With, MildStep, Gentle, JobsGo, Keeping

LEMMA AtOnceMildly ==
  ASSUME Base, AtOnce
  PROVE  JobsGo /\ Notes /\ Heeded
  <1>1. JobsMove /\ Notes /\ hist'.lapses = hist.lapses \cup Crowded
    BY AtOnceOnly, NotingMore DEF Base, AtOnce
  <1> QED BY <1>1, JobsStay DEF Base, AtOnce, Heeded

LEMMA StartingOneMildly ==
  ASSUME Base, NEW w \in Workers, NEW a, a.do \notin BudgetWork \cup SeatWork \cup OddWork, Begin(w, <<a>>),
         UNCHANGED <<db, stripe>>
  PROVE  MildStep
  BY MildOne, StartingOnlyMildly

LEMMA StartingTwoMildly ==
  ASSUME Base, NEW w \in Workers, NEW a, a.do \notin BudgetWork \cup SeatWork \cup OddWork,
         NEW b, b.do \notin BudgetWork \cup SeatWork \cup OddWork, Begin(w, <<a, b>>), UNCHANGED <<db, stripe>>
  PROVE  MildStep
  BY MildTwo, StartingOnlyMildly

LEMMA EntersIs ==
  ASSUME NEW u, NEW s, RoleIn(u, s) # {}
  PROVE  Enters(u, s)
  <1>1. Live(s)
    BY DEF RoleIn
  <1>2. CASE db.space[s].owner = u
    BY <1>1, <1>2 DEF Enters
  <1>3. CASE db.space[s].owner # u
    <2>1. {m.role : m \in {x \in SeatsOf(s) : x.user = u}} # {}
      BY <1>1, <1>3 DEF RoleIn
    <2>2. PICK m \in SeatsOf(s) : m.user = u
      BY <2>1
    <2> QED BY <1>1, <2>2 DEF Enters, SeatsOf
  <1> QED BY <1>2, <1>3

(* Wherever a request resolves to has not been deleted.                    *)
LEMMA ReachStands ==
  ASSUME RefsStand, NEW u, NEW permission, NEW s \in Reach(u, permission)
  PROVE  Standing(s)
  <1>1. PICK header : s \in Allowed(u, header, permission)
    BY DEF Reach
  <1>2. PICK r \in ResolveOrg(u, header) : r.of = s
    BY <1>1 DEF Allowed
  <1>3. ASSUME NEW x, r \in In(x, RoleIn(u, x)) PROVE Standing(s)
    <2>1. r.of = x /\ RoleIn(u, x) # {}
      BY <1>3 DEF In
    <2>2. Live(x)
      BY <2>1 DEF RoleIn
    <2> QED BY <1>2, <2>1, <2>2 DEF Standing, Live, Kinds
  <1>4. ASSUME NEW x \in Personal(u), r = [of |-> x, role |-> "owner"] PROVE Standing(s)
    BY <1>2, <1>4 DEF Personal, Owned, Standing, Live, Kinds
  <1>5. ASSUME NEW m \in db.member, r = [of |-> m.of, role |-> m.role] PROVE Standing(s)
    BY <1>2, <1>5 DEF RefsStand
  <1>6. \/ r \in In(header, RoleIn(u, header))
        \/ r \in In(db.active[u], RoleIn(u, db.active[u]))
        \/ r \in {[of |-> x, role |-> "owner"] : x \in Personal(u)}
        \/ r \in {[of |-> m.of, role |-> m.role] : m \in {m \in db.member : m.user = u}}
    BY <1>2, Zenon DEF ResolveOrg
  <1> QED BY <1>3, <1>4, <1>5, <1>6

LEMMA NobodyStands == Standing(None) /\ Standing(Gone)
  BY DocumentsOK DEF Standing, None, Gone

(* The writes that are not aloof: what each does to who enters where and   *)
(* to what belongs to a workspace.                                         *)
LEMMA Converting ==
  ASSUME DbOK, NEW s, Live(s), db' = [db EXCEPT !.space[s].type = "organization"]
  PROVE  Steadies
  <1> SUFFICES ASSUME ShapeOK, RefsStand PROVE Steady
    BY DEF Steadies
  <1>1. DOMAIN db' = DbFields /\ \A f \in DbFields \ {"space"} : db'[f] = db[f]
    BY DEF DbOK
  <1>2. db'.space = [db.space EXCEPT ![s].type = "organization"]
    BY DEF DbOK, DbFields
  <1>3. /\ db'.cloud = db.cloud /\ db'.cred = db.cred /\ db'.member = db.member /\ db'.invite = db.invite
        /\ db'.keys = db.keys /\ db'.active = db.active
    BY <1>1 DEF DbFields
  <1>4. ShapeOK'
    BY <1>2, <1>3 DEF ShapeOK
  <1>5. \A x \in Spaces : /\ db'.space[x].type = IF x = s THEN "organization" ELSE db.space[x].type
                          /\ db'.space[x].owner = db.space[x].owner
    BY <1>2 DEF ShapeOK, NoSpace
  <1>6. \A x : Live(x) => Live(x)'
    BY <1>5 DEF Live, Kinds
  <1>7. \A u, x : Enters(u, x) => Enters(u, x)'
    BY <1>3, <1>5, <1>6 DEF Enters, Live
  <1>8. \A x \in Spaces : db'.space[x].type = "gone" <=> db.space[x].type = "gone"
    BY <1>5 DEF Live, Kinds
  <1>9. RefsStand'
    BY <1>3, <1>8 DEF RefsStand, Standing
  <1> QED BY <1>3, <1>4, <1>7, <1>8, <1>9 DEF Steady

LEMMA Founding ==
  ASSUME DbOK, NEW s, s \in Unborn, NEW doc, doc.type \in Kinds, DOMAIN doc = DOMAIN NoSpace,
         db' = [db EXCEPT !.space[s] = doc]
  PROVE  Steadies
  <1> SUFFICES ASSUME ShapeOK, RefsStand PROVE Steady
    BY DEF Steadies
  <1>1. DOMAIN db' = DbFields /\ \A f \in DbFields \ {"space"} : db'[f] = db[f]
    BY DEF DbOK
  <1>2. db'.space = [db.space EXCEPT ![s] = doc]
    BY DEF DbOK, DbFields
  <1>3. /\ db'.cloud = db.cloud /\ db'.cred = db.cred /\ db'.member = db.member /\ db'.invite = db.invite
        /\ db'.keys = db.keys /\ db'.active = db.active
    BY <1>1 DEF DbFields
  <1>4. ShapeOK'
    BY <1>2, <1>3 DEF ShapeOK
  <1>5. \A x \in Spaces : x # s => db'.space[x] = db.space[x]
    BY <1>2 DEF ShapeOK
  <1>6. s \in Spaces /\ db.space[s].type = "unborn" /\ db'.space[s] = doc
    BY <1>2 DEF Unborn, ShapeOK
  <1>7. \A u, x : Enters(u, x) => Enters(u, x)'
    BY <1>3, <1>5, <1>6 DEF Enters, Live, Kinds
  <1>8. \A x \in Spaces : db'.space[x].type = "gone" <=> db.space[x].type = "gone"
    BY <1>5, <1>6 DEF Kinds
  <1>9. RefsStand'
    BY <1>3, <1>8 DEF RefsStand, Standing
  <1> QED BY <1>3, <1>4, <1>7, <1>8, <1>9 DEF Steady

(* A change that leaves workspaces, seats and users where they are.        *)
LEMMA Furnishing ==
  ASSUME db'.space = db.space, db'.member = db.member, db'.active = db.active, ShapeOK',
         RefsStand => RefsStand'
  PROVE  Steadies
  <1>1. \A u, x : Enters(u, x) => Enters(u, x)'
    BY DEF Enters, Live
  <1> QED BY <1>1 DEF Steadies, Steady

LEMMA Storing ==
  ASSUME DbOK, NEW k, NEW x, Calm' => Standing(x), db' = [db EXCEPT !.cred[k] = x]
  PROVE  Steadies
  <1> SUFFICES ASSUME Calm', ShapeOK, RefsStand PROVE Steadies
    BY DEF Steadies
  <1>1. DOMAIN db' = DbFields /\ \A f \in DbFields \ {"cred"} : db'[f] = db[f]
    BY DEF DbOK
  <1>2. db'.cred = [db.cred EXCEPT ![k] = x]
    BY DEF DbOK, DbFields
  <1>3. /\ db'.cloud = db.cloud /\ db'.space = db.space /\ db'.member = db.member /\ db'.invite = db.invite
        /\ db'.keys = db.keys /\ db'.active = db.active
    BY <1>1 DEF DbFields
  <1>4. ShapeOK'
    BY <1>2, <1>3 DEF ShapeOK
  <1>5. RefsStand'
    BY <1>2, <1>3 DEF RefsStand, Standing, ShapeOK
  <1> QED BY <1>3, <1>4, <1>5, Furnishing

LEMMA Linking ==
  ASSUME DbOK, NEW c, NEW doc, ShapeOK /\ c \in Clouds => DOMAIN doc = DOMAIN NoCloud,
         Calm' => Standing(doc.of), db' = [db EXCEPT !.cloud[c] = doc]
  PROVE  Steadies
  <1> SUFFICES ASSUME Calm', ShapeOK, RefsStand PROVE Steadies
    BY DEF Steadies
  <1>1. DOMAIN db' = DbFields /\ \A f \in DbFields \ {"cloud"} : db'[f] = db[f]
    BY DEF DbOK
  <1>2. db'.cloud = [db.cloud EXCEPT ![c] = doc]
    BY DEF DbOK, DbFields
  <1>3. /\ db'.cred = db.cred /\ db'.space = db.space /\ db'.member = db.member /\ db'.invite = db.invite
        /\ db'.keys = db.keys /\ db'.active = db.active
    BY <1>1 DEF DbFields
  <1>4. ShapeOK'
    BY <1>2, <1>3 DEF ShapeOK
  <1>5. RefsStand'
    BY <1>2, <1>3 DEF RefsStand, Standing, ShapeOK
  <1> QED BY <1>3, <1>4, <1>5, Furnishing

LEMMA Keying ==
  ASSUME DbOK, DOMAIN db' = DbFields, \A f \in DbFields \ {"keys", "keyed"} : db'[f] = db[f],
         \A k \in db'.keys : k \in db.keys \/ (RefsStand => Standing(k.of))
  PROVE  Steadies
  <1> SUFFICES ASSUME Calm', ShapeOK, RefsStand PROVE Steadies
    BY DEF Steadies
  <1>1. /\ db'.cloud = db.cloud /\ db'.cred = db.cred /\ db'.space = db.space /\ db'.member = db.member
        /\ db'.invite = db.invite /\ db'.active = db.active
    BY DEF DbFields
  <1>2. ShapeOK'
    BY <1>1 DEF ShapeOK
  <1>3. RefsStand'
    BY <1>1 DEF RefsStand, Standing
  <1> QED BY <1>1, <1>2, <1>3, Furnishing

LEMMA Placing ==
  ASSUME DbOK, NEW u, NEW s, Calm' => RoleIn(u, s) # {}, db' = [db EXCEPT !.active[u] = s]
  PROVE  Steadies
  <1> SUFFICES ASSUME Calm', ShapeOK, RefsStand PROVE Steady
    BY DEF Steadies
  <1>1. DOMAIN db' = DbFields /\ \A f \in DbFields \ {"active"} : db'[f] = db[f]
    BY DEF DbOK
  <1>2. db'.active = [db.active EXCEPT ![u] = s]
    BY DEF DbOK, DbFields
  <1>3. /\ db'.cred = db.cred /\ db'.space = db.space /\ db'.member = db.member /\ db'.invite = db.invite
        /\ db'.keys = db.keys /\ db'.cloud = db.cloud
    BY <1>1 DEF DbFields
  <1>4. ShapeOK'
    BY <1>2, <1>3 DEF ShapeOK
  <1>5. RefsStand'
    BY <1>3 DEF RefsStand, Standing
  <1>6. Enters(u, s)
    BY EntersIs
  <1>7. \A v, x : Enters(v, x) => Enters(v, x)'
    BY <1>3 DEF Enters, Live
  <1>8. \A v \in Users : db'.active[v] = db.active[v] \/ Enters(v, db.active[v])'
    <2> SUFFICES ASSUME NEW v \in Users, v = u PROVE Enters(v, db.active[v])'
      BY <1>2 DEF ShapeOK
    <2>1. db'.active[v] = s
      BY <1>2 DEF ShapeOK
    <2> QED BY <1>3, <1>6, <2>1 DEF Enters, Live
  <1> QED BY <1>3, <1>4, <1>5, <1>7, <1>8 DEF Steady

LEMMA CheckoutIsPlain ==
  ASSUME Base, NEW u \in Users, NEW plan, Checkout(u, plan)
  PROVE  MildStep
  <1>1. PICK s : /\ AtOnce /\ db' = [db EXCEPT !.space[s].cust = TRUE]
                 /\ stripe' = [stripe EXCEPT !.open = @ \cup {[of |-> s, plan |-> plan]}]
    BY DEF Checkout
  <1>2. JobsGo /\ Notes /\ Heeded
    BY <1>1, AtOnceMildly
  <1>3. Keeping
    BY <1>1, Retouching DEF Base, DbOK, DbFields, ShapeOK
  <1>4. StripeOK'
    BY <1>1 DEF Base, StripeOK, MailFields
  <1> QED BY <1>2, <1>3, <1>4 DEF MildStep, PlainStep, Gentle, JobsGo, Keeping

LEMMA Tidings ==
  ASSUME StripeOK, NEW kind \in {"completed", "updated", "deleted"}, NEW k, NEW sub, NEW open,
         Tells(kind, k, sub, open)
  PROVE  StripeOK'
  <1>1. Event(kind, k, sub.of, sub).kind = kind
    BY DEF Event
  <1> HIDE DEF Event
  <1>2. DOMAIN stripe' = MailFields
    BY DEF Tells, StripeOK
  <1>3. stripe'.mail = stripe.mail \cup {Event(kind, k, sub.of, sub)}
    BY DEF Tells, StripeOK, MailFields
  <1> QED BY <1>1, <1>2, <1>3 DEF StripeOK

LEMMA PortalIsPlain ==
  ASSUME Base, NEW u \in Users, NEW k, NEW change, Portal(u, k, change)
  PROVE  MildStep
  <1>1. /\ AtOnce /\ UNCHANGED db
        /\ \E kind \in {"updated", "deleted"} : \E sub, open : Tells(kind, k, sub, open)
    BY DEF Portal
  <1>2. JobsGo /\ Notes /\ Heeded /\ Keeping
    BY <1>1, AtOnceMildly, KeepingStill DEF Base
  <1>3. StripeOK'
    BY <1>1, Tidings DEF Base
  <1> QED BY <1>2, <1>3 DEF MildStep, PlainStep, Gentle, JobsGo, Keeping

LEMMA PayIsPlain ==
  ASSUME Base, NEW c, Pay(c)
  PROVE  MildStep
  <1>1. StripeOK'
    BY Tidings DEF Pay, Base
  <1> QED BY <1>1, JobsStay, NotingNothing, KeepingStill DEF Pay, Base, MildStep, PlainStep, Gentle, JobsGo, Keeping, Heeded

LEMMA DunningIsPlain ==
  ASSUME Base, NEW k, Dunning(k)
  PROVE  MildStep
  <1>1. StripeOK'
    BY Tidings DEF Dunning, Base
  <1> QED BY <1>1, JobsStay, NotingNothing, KeepingStill DEF Dunning, Base, MildStep, PlainStep, Gentle, JobsGo, Keeping, Heeded

LEMMA DeliverIsPlain ==
  ASSUME Base, NEW w \in Workers, NEW e, Deliver(w, e)
  PROVE  MildStep
  <1>1. Idle(w) /\ e \in stripe.mail /\ UNCHANGED db
    BY DEF Deliver
  <1>2. CASE e.id \in stripe.done
    <2>1. stripe' = [stripe EXCEPT !.mail = @ \ {e}] /\ UNCHANGED <<job, hist>>
      BY <1>2 DEF Deliver
    <2>2. StripeOK'
      BY <2>1 DEF Base, StripeOK, MailFields
    <2> QED BY <1>1, <2>1, <2>2, JobsStay, NotingNothing, KeepingStill DEF Base, MildStep, PlainStep, Gentle, JobsGo, Keeping, Heeded
  <1>3. CASE e.id \notin stripe.done
    <2>1. /\ job' = [job EXCEPT ![w] = Handling(e)] /\ UNCHANGED stripe
          /\ With(Crowded \cup (IF InHand(e) THEN {"twice"} ELSE {})
                          \cup (IF Early(e) THEN {"disorder"} ELSE {}))
      BY <1>3, Zenon DEF Deliver
    <2>2. PICK more : With(Crowded \cup more)
      BY <2>1, Zenon
    <2>3. Notes /\ Crowded \subseteq hist'.lapses
      BY <2>2, NotingMore DEF With, Base
    <2>4. Mild(Handling(e))
      <3>1. e.kind \in {"completed", "updated", "deleted"}
        BY <1>1 DEF Base, StripeOK
      <3> QED BY <3>1, MildTwo DEF Handling, BudgetWork, SeatWork, OddWork
    <2>5. JobsGo
      BY <1>1, <2>1, <2>3, <2>4, TameIs, WorkOfNone DEF Idle, JobsGo, JobsMove, MildJobs, Ready, Mild, JobsOK, Base
    <2> QED BY <1>1, <2>1, <2>3, <2>5, KeepingStill, StripeSame DEF Base, MildStep, PlainStep, Gentle, JobsGo, Keeping, Heeded
  <1> QED BY <1>2, <1>3

(***************************** billing is plain ****************************)
(* Every webhook, checkout and reconciliation step keeps the frame.        *)
LEMMA Ordered ==
  ASSUME Base, NEW w \in Workers, NEW d, d \notin BudgetWork \cup SeatWork, Doing(w, d),
         NEW more, Plain(more), Proceed(w, more), Notes, Keeps, UNCHANGED stripe
  PROVE  PlainStep
  BY Going, StripeSame DEF Base, PlainStep

LEMMA Unordered ==
  ASSUME Base, NEW w \in Workers, NEW d, d \notin BudgetWork \cup SeatWork, Doing(w, d),
         Proceed(w, <<>>), Notes, Keeps, UNCHANGED stripe
  PROVE  PlainStep
  BY Ordered, WorkOfNone

LEMMA CompletedIsPlain ==
  ASSUME Base, NEW w \in Workers, Completed(w)
  PROVE  MildStep
  <1>1. PICK tier : Proceed(w, <<[do |-> "upgrade", ev |-> This(w).ev, tier |-> tier]>>)
    BY DEF Completed
  <1>2. Mild(<<[do |-> "upgrade", ev |-> This(w).ev, tier |-> tier]>>)
    BY MildOne DEF BudgetWork, SeatWork, OddWork
  <1> QED BY <1>1, <1>2, GoingOnlyMildly DEF Completed, BudgetWork, SeatWork, OddWork

LEMMA UpgradeIsPlain ==
  ASSUME Base, NEW w \in Workers, Upgrade(w)
  PROVE  MildStep
  <1>1. Keeping
    <2>1. CASE UNCHANGED db
      BY <2>1, KeepingStill DEF Base
    <2>2. CASE db' # db
      <3> DEFINE e == This(w).ev
      <3>1. db' = [db EXCEPT !.space[e.of].tier = This(w).tier, !.space[e.of].sub = e.sub,
                             !.space[e.of].cust = TRUE]
        BY <2>2, Zenon DEF Upgrade
      <3> HIDE DEF e
      <3>2. DOMAIN db' = DOMAIN db /\ \A f \in DbFields \ {"space"} : db'[f] = db[f]
        BY <3>1 DEF Base, DbOK, DbFields
      <3>3. ShapeOK => \A s \in Spaces : db'.space[s].type = db.space[s].type /\ db'.space[s].owner = db.space[s].owner
        BY <3>1 DEF Base, DbOK, DbFields, ShapeOK, NoSpace
      <3>4. ShapeOK => DOMAIN db'.space = Spaces /\ \A s \in Spaces : DOMAIN db'.space[s] = DOMAIN NoSpace
        BY <3>1 DEF Base, DbOK, DbFields, ShapeOK
      <3> QED BY <3>2, <3>3, <3>4, Retouching DEF Base
    <2> QED BY <2>1, <2>2
  <1>2. Notes
    <2>1. PICK s, tier : hist' = Outgrown(hist, s, tier)
      BY Zenon DEF Upgrade
    <2>2. Compared
      BY <2>1, OutgrownOnly DEF Compared
    <2> QED BY <2>2, ComparedNothing DEF Base
  <1> QED BY <1>1, <1>2, UnorderedMildly DEF Upgrade, BudgetWork, SeatWork, OddWork

LEMMA SavePlain ==
  ASSUME NEW s, NEW tier, NEW sub
  PROVE  Mild(<<SaveOf(s, tier, sub)>>) /\ Mild(<<Reconciling(s)>>)
  BY MildOne DEF SaveOf, Reconciling, BudgetWork, SeatWork, OddWork

LEMMA OrgsPlain ==
  ASSUME NEW u
  PROVE  Mild(<<[do |-> "orgs", owner |-> u]>>)
  BY MildOne DEF BudgetWork, SeatWork, OddWork

LEMMA UpdatedIsPlain ==
  ASSUME Base, NEW w \in Workers, Updated(w)
  PROVE  MildStep
  <1> DEFINE e      == This(w).ev
             action == ClassifySubscriptionStatus[e.state]
             Tier(s) == CASE action = "apply" -> e.plan [] action = "downgrade" -> "free"
                          [] OTHER -> db.space[s].tier
             Steps(s) == <<SaveOf(s, Tier(s), e.sub)>>
                         \o (IF Tier(s) = "free" THEN <<Reconciling(s)>> ELSE <<>>)
                         \o (IF action = "downgrade" THEN <<[do |-> "orgs", owner |-> db.space[s].owner]>> ELSE <<>>)
             more == IF Subscriber(e.sub) = {} THEN <<>> ELSE Steps(Least(Subscriber(e.sub)))
  <1>1. /\ Doing(w, "updated") /\ Proceed(w, more) /\ Clean /\ UNCHANGED <<db, stripe, tab, cast>>
    BY Zenon DEF Updated
  <1>2. ASSUME NEW s PROVE Mild(Steps(s))
    <2> HIDE DEF Tier, action
    <2>1. Mild(IF Tier(s) = "free" THEN <<Reconciling(s)>> ELSE <<>>)
      BY SavePlain, TameIs
    <2>2. Mild(IF action = "downgrade" THEN <<[do |-> "orgs", owner |-> db.space[s].owner]>> ELSE <<>>)
      BY OrgsPlain, TameIs
    <2>3. Mild(<<SaveOf(s, Tier(s), e.sub)>>)
      BY SavePlain
    <2> QED BY <2>1, <2>2, <2>3, MildJoined
  <1>3. Mild(more)
    <2> HIDE DEF Steps
    <2> QED BY <1>2, TameIs
  <1> HIDE DEF more
  <1> QED BY <1>1, <1>3, GoingOnlyMildly DEF BudgetWork, SeatWork, OddWork

LEMMA MildThree ==
  ASSUME NEW a, a.do \notin BudgetWork \cup SeatWork \cup OddWork,
         NEW b, b.do \notin BudgetWork \cup SeatWork \cup OddWork,
         NEW c, c.do \notin BudgetWork \cup SeatWork \cup OddWork
  PROVE  Mild(<<a, b, c>>)
  <1>1. <<a, b, c>> \in Seq({a, b, c})
    OBVIOUS
  <1>2. Work(<<a, b, c>>) = {a, b, c}
    BY DEF Work
  <1> QED BY <1>1, <1>2 DEF Mild, Tame, Plain, IsSeq

LEMMA DeletedIsPlain ==
  ASSUME Base, NEW w \in Workers, Deleted(w)
  PROVE  MildStep
  <1> DEFINE e == This(w).ev
             Steps(s) == <<SaveOf(s, "free", None), Reconciling(s),
                           [do |-> "orgs", owner |-> db.space[s].owner]>>
             more == IF Subscriber(e.sub) = {} THEN <<>> ELSE Steps(Least(Subscriber(e.sub)))
  <1>1. /\ Doing(w, "deleted") /\ Proceed(w, more) /\ Clean /\ UNCHANGED <<db, stripe, tab, cast>>
    BY Zenon DEF Deleted
  <1>2. ASSUME NEW s PROVE Mild(Steps(s))
    BY MildThree DEF SaveOf, Reconciling, BudgetWork, SeatWork, OddWork
  <1>3. Mild(more)
    <2> HIDE DEF Steps
    <2> QED BY <1>2, TameIs
  <1> HIDE DEF more
  <1> QED BY <1>1, <1>3, GoingOnlyMildly DEF BudgetWork, SeatWork, OddWork

LEMMA SaveIsPlain ==
  ASSUME Base, NEW w \in Workers, Save(w)
  PROVE  MildStep
  <1>0. Doing(w, "save")
    BY DEF Save
  <1>1. CASE ~Live(This(w).of)
    BY <1>0, <1>1, ThrowingMildly DEF Save, BudgetWork, SeatWork, OddWork
  <1>2. CASE Live(This(w).of)
    <2>1. PICK more, who, tier : hist' = Outgrown(Noting(hist, more), who, tier)
      <3> DEFINE p == This(w)
      <3>1. hist' = Outgrown(Noting(hist, Stale(p.was # db.space[p.of])), p.of, p.tier)
        BY <1>2, Zenon DEF Save
      <3> QED BY <3>1, Zenon
    <2>2. Notes
      BY <2>1, ComparedMore DEF Base
    <2>3. Keeping
      <3> DEFINE p == This(w)
      <3>1. db' = [db EXCEPT !.space[p.of].tier = IF p.tier = p.was.tier THEN @ ELSE p.tier,
                             !.space[p.of].sub  = IF p.sub = p.was.sub THEN @ ELSE p.sub]
        BY <1>2, Zenon DEF Save
      <3> HIDE DEF p
      <3>2. DOMAIN db' = DOMAIN db /\ \A f \in DbFields \ {"space"} : db'[f] = db[f]
        BY <3>1 DEF Base, DbOK, DbFields
      <3>3. ShapeOK => \A s \in Spaces : db'.space[s].type = db.space[s].type /\ db'.space[s].owner = db.space[s].owner
        BY <3>1 DEF Base, DbOK, DbFields, ShapeOK, NoSpace
      <3>4. ShapeOK => DOMAIN db'.space = Spaces /\ \A s \in Spaces : DOMAIN db'.space[s] = DOMAIN NoSpace
        BY <3>1 DEF Base, DbOK, DbFields, ShapeOK
      <3> QED BY <3>2, <3>3, <3>4, Retouching DEF Base
    <2> QED BY <1>0, <1>2, <2>2, <2>3, UnorderedMildly DEF Save, BudgetWork, SeatWork, OddWork
  <1> QED BY <1>1, <1>2

LEMMA ReconcileIsPlain ==
  ASSUME Base, NEW w \in Workers, ReconcileTierDowngrade(w)
  PROVE  MildStep
  <1>1. PICK excess :
          /\ Doing(w, "reconcile")
          /\ Proceed(w, IF excess = {} THEN <<>> ELSE <<[do |-> "pause", clouds |-> excess]>>)
          /\ Clean /\ UNCHANGED <<db, stripe, tab, cast>>
    BY Zenon DEF ReconcileTierDowngrade
  <1>2. Mild(IF excess = {} THEN <<>> ELSE <<[do |-> "pause", clouds |-> excess]>>)
    BY MildOne, TameIs DEF BudgetWork, SeatWork, OddWork
  <1> QED BY <1>1, <1>2, GoingOnlyMildly DEF BudgetWork, SeatWork, OddWork

LEMMA PauseIsPlain ==
  ASSUME Base, NEW w \in Workers, Pause(w)
  PROVE  MildStep
  <1> DEFINE c    == Least(This(w).clouds)
             rest == This(w).clouds \ {c}
             more == IF rest = {} THEN <<>> ELSE <<[do |-> "pause", clouds |-> rest]>>
  <1>0. Doing(w, "pause")
    BY DEF Pause
  <1>1. CASE ~IsCloud(c)
    BY <1>0, <1>1, ThrowingMildly DEF Pause, BudgetWork, SeatWork, OddWork
  <1>2. CASE IsCloud(c)
    <2>1. /\ db' = [db EXCEPT !.cloud[c].active = FALSE] /\ Proceed(w, more)
          /\ Clean /\ UNCHANGED <<stripe, tab, cast>>
      BY <1>2, Zenon DEF Pause
    <2>2. Mild(more)
      BY MildOne, TameIs DEF BudgetWork, SeatWork, OddWork
    <2> HIDE DEF more, c
    <2>3. Keeping
      BY <2>1, Reworking DEF Base, DbOK, DbFields, ShapeOK
    <2>4. Notes
      BY <2>1, NotingNothing DEF Clean, Base
    <2> QED BY <1>0, <2>1, <2>2, <2>3, <2>4, OrderedMildly DEF BudgetWork, SeatWork, OddWork
  <1> QED BY <1>1, <1>2

(************************* organisations are plain *************************)
LEMMA OrgsIsPlain ==
  ASSUME Base, NEW w \in Workers, DowngradeOwnedOrganizations(w)
  PROVE  MildStep
  <1> DEFINE o     == This(w).owner
             stale == {s \in Owned(o) : db.space[s].type = "organization" /\ db.space[s].tier \in SelfServe}
             Nth(k) == CHOOSE s \in stale : Cardinality({d \in stale : d <= s}) = k
             Step(k) == LET s == Nth((k + 1) \div 2)
                        IN IF k % 2 = 1 THEN SaveOf(s, "free", db.space[s].sub) ELSE Reconciling(s)
             n      == 2 * Cardinality(stale)
             steps  == [k \in 1 .. n |-> Step(k)]
  <1>1. Doing(w, "orgs") /\ Proceed(w, steps) /\ Clean /\ UNCHANGED <<db, stripe, tab, cast>>
    BY Zenon DEF DowngradeOwnedOrganizations
  <1>2. n \in Nat
    <2>1. IsFiniteSet(stale)
      BY DocumentsOK, FS_Subset DEF Owned
    <2> QED BY <2>1, FS_CardinalityType
  <1>3. \A k \in 1 .. n : Step(k).do \notin BudgetWork \cup SeatWork \cup OddWork
    <2> HIDE DEF n
    <2> SUFFICES ASSUME NEW k \in 1 .. n PROVE Step(k).do \notin BudgetWork \cup SeatWork \cup OddWork
      BY Zenon
    <2> DEFINE s == Nth((k + 1) \div 2)
    <2>1. Step(k) \in {SaveOf(s, "free", db.space[s].sub), Reconciling(s)}
      BY Zenon
    <2> HIDE DEF s, Step
    <2> QED BY <2>1 DEF SaveOf, Reconciling, BudgetWork, SeatWork, OddWork
  <1> HIDE DEF n, Step
  <1>4. Mild(steps)
    <2> DEFINE S == {Step(k) : k \in 1 .. n}
    <2>1. steps \in [1 .. n -> S]
      OBVIOUS
    <2>2. steps \in Seq(S) /\ Len(steps) = n
      BY <1>2, <2>1, SeqDef
    <2>3. Work(steps) = S
      BY <2>1, <2>2 DEF Work
    <2> QED BY <1>3, <2>2, <2>3 DEF Mild, Tame, Plain, IsSeq
  <1> HIDE DEF steps
  <1> QED BY <1>1, <1>4, GoingOnlyMildly DEF BudgetWork, SeatWork, OddWork

LEMMA MarkIsPlain ==
  ASSUME Base, NEW w \in Workers, Mark(w)
  PROVE  MildStep
  <1> DEFINE e == This(w).ev
  <1>1. PICK kept, heard :
         /\ stripe' = [stripe EXCEPT !.done = IF kept THEN @ \cup {e.id} ELSE @,
                                     !.mail = IF heard THEN @ \ {e} ELSE @]
         /\ hist' = [Noting(hist, IF kept THEN {} ELSE {"unmarked"})
                       EXCEPT !.faults = IF heard THEN @ ELSE @ - 1]
    BY Zenon DEF Mark
  <1>2. PICK more, faults : hist' = [Noting(hist, more) EXCEPT !.faults = faults]
    BY <1>1, Zenon
  <1> HIDE DEF e
  <1>3. Notes
    BY <1>2 DEF Base, HistOK, HistFields, Noting, Notes
  <1>4. DOMAIN stripe' = DOMAIN stripe /\ stripe'.mail \subseteq stripe.mail
    BY <1>1 DEF Base, StripeOK, MailFields
  <1>5. StripeOK'
    BY <1>4 DEF Base, StripeOK
  <1>6. JobsGo /\ Heeded
    BY GoingMildly, TameIs DEF Mark, Base, BudgetWork, SeatWork, OddWork
  <1>7. Keeping
    BY KeepingStill DEF Mark, Base
  <1> QED BY <1>3, <1>5, <1>6, <1>7 DEF MildStep, PlainStep, Gentle, JobsGo, Keeping

LEMMA StatusAskedIsPlain ==
  ASSUME Base, NEW w \in Workers, NEW u, StatusAsked(w, u)
  PROVE  MildStep
  <1>1. PICK s : Begin(w, <<[do |-> "look", of |-> s, was |-> db.space[s]]>>) /\ UNCHANGED <<db, stripe>>
    BY DEF StatusAsked
  <1>2. Mild(<<[do |-> "look", of |-> s, was |-> db.space[s]]>>)
    BY MildOne DEF BudgetWork, SeatWork, OddWork
  <1> QED BY <1>1, <1>2, StartingOnlyMildly

LEMMA LookIsPlain ==
  ASSUME Base, NEW w \in Workers, Look(w)
  PROVE  MildStep
  <1>1. PICK more : /\ Doing(w, "look") /\ Proceed(w, more) /\ Compared /\ UNCHANGED <<db, stripe, tab, cast>>
                    /\ \/ more = <<>>
                       \/ \E s, doc, sub : more = <<[do |-> "save", of |-> s, was |-> doc, tier |-> "free",
                                                     sub |-> sub], Reconciling(s)>>
    <2>1. PICK reach \in [own : BOOLEAN, owner : BOOLEAN] :
            LET s == This(w).of
                doc == This(w).was
                got == doc.sub # None /\ reach.own IN
            /\ Proceed(w, IF doc.tier \notin SelfServe \/ TierIsBacked(doc, reach) THEN <<>>
                          ELSE <<[do |-> "save", of |-> s, was |-> doc, tier |-> "free",
                                  sub |-> IF got THEN doc.sub ELSE None], Reconciling(s)>>)
            /\ Compared
      BY Zenon DEF Look, Compared
    <2>2. Doing(w, "look") /\ UNCHANGED <<db, stripe, tab, cast>>
      BY Zenon DEF Look
    <2>3. CASE This(w).was.tier \notin SelfServe \/ TierIsBacked(This(w).was, reach)
      BY <2>1, <2>2, <2>3, Zenon
    <2>4. CASE ~(This(w).was.tier \notin SelfServe \/ TierIsBacked(This(w).was, reach))
      BY <2>1, <2>2, <2>4, Zenon
    <2> QED BY <2>3, <2>4
  <1>2. Mild(more)
    <2>1. CASE more = <<>>
      BY <2>1, TameIs
    <2>2. CASE more # <<>>
      <3>1. PICK s, doc, sub : more = <<[do |-> "save", of |-> s, was |-> doc, tier |-> "free", sub |-> sub],
                                        Reconciling(s)>>
        BY <1>1, <2>2
      <3> QED BY <3>1, MildTwo DEF Reconciling, BudgetWork, SeatWork, OddWork
    <2> QED BY <2>1, <2>2
  <1>3. Notes /\ Keeping
    BY <1>1, ComparedNothing, KeepingStill DEF Base
  <1> QED BY <1>1, <1>2, <1>3, OrderedMildly DEF BudgetWork, SeatWork, OddWork

LEMMA CreateOrgIsPlain ==
  ASSUME Base, NEW w \in Workers, NEW u, CreateOrg(w, u)
  PROVE  MildStep
  <1>1. PICK s : /\ Begin(w, <<[do |-> "insert", owner |-> u, from |-> s, tier |-> db.space[s].tier]>>)
                 /\ UNCHANGED <<db, stripe>>
    BY Zenon DEF CreateOrg
  <1>2. Mild(<<[do |-> "insert", owner |-> u, from |-> s, tier |-> db.space[s].tier]>>)
    BY MildOne DEF BudgetWork, SeatWork, OddWork
  <1> QED BY <1>1, <1>2, StartingOnlyMildly

LEMMA FreshSpace ==
  ASSUME Unborn # {}
  PROVE  Least(Unborn) \in Unborn
  <1>1. Unborn \in SUBSET Nat
    BY DocumentsOK DEF Unborn
  <1> QED BY <1>1, LeastIsIn

LEMMA InsertOrgIsPlain ==
  ASSUME Base, NEW w \in Workers, InsertOrg(w)
  PROVE  MildStep
  <1> DEFINE p == This(w)
             doc == [NoSpace EXCEPT !.type = "organization", !.owner = p.owner, !.tier = p.tier]
  <1>1. db' = [db EXCEPT !.space[Least(Unborn)] = doc] /\ Unborn # {}
    BY Zenon DEF InsertOrg
  <1>2. PICK more : With(more)
    BY Zenon DEF InsertOrg
  <1>5. doc.type \in Kinds /\ DOMAIN doc = DOMAIN NoSpace
    BY DEF NoSpace, Kinds
  <1> HIDE DEF doc
  <1>3. Keeping
    BY <1>1, <1>5, FreshSpace, Founding, Elsewhere DEF Base, DbFields, Keeping
  <1>4. Notes
    BY <1>2, NotingMore DEF With, Base
  <1> QED BY <1>3, <1>4, UnorderedMildly DEF InsertOrg, BudgetWork, SeatWork, OddWork

LEMMA ConvertPersonalIsPlain ==
  ASSUME Base, NEW u, ConvertPersonal(u)
  PROVE  MildStep
  <1>1. PICK s : Live(s) /\ AtOnce /\ db' = [db EXCEPT !.space[s].type = "organization"] /\ UNCHANGED stripe
    BY DEF ConvertPersonal, Personal, Owned
  <1>2. Keeping
    <2>1. Keeps
      BY <1>1, Elsewhere DEF Base, DbFields
    <2>2. Steadies
      BY <1>1, Converting DEF Base
    <2> QED BY <2>1, <2>2 DEF Keeping
  <1> QED BY <1>1, <1>2, AtOnceMildly, StripeSame DEF Base, MildStep, PlainStep, Gentle, JobsGo, Keeping

LEMMA BillingIsPlain ==
  ASSUME Base, BillingNext
  PROVE  MildStep
  BY CheckoutIsPlain, PortalIsPlain, StatusAskedIsPlain, PayIsPlain, DunningIsPlain, ConvertPersonalIsPlain,
     DeliverIsPlain, CompletedIsPlain, UpgradeIsPlain, UpdatedIsPlain, DeletedIsPlain, SaveIsPlain,
     MarkIsPlain, ReconcileIsPlain, PauseIsPlain, OrgsIsPlain, LookIsPlain, InsertOrgIsPlain,
     CreateOrgIsPlain
     DEF BillingNext

(************************* cloud accounts are plain ************************)
(* Connecting, disconnecting, rotating and the two deletions of a          *)
(* workspace's contents, each a loop of deletions in the code.             *)
(* A worker takes one plain step to make, or two. *)
LEMMA StartingOne ==
  ASSUME Base, NEW w \in Workers, NEW a, a.do \notin BudgetWork \cup SeatWork, Begin(w, <<a>>),
         UNCHANGED <<db, stripe>>
  PROVE  PlainStep
  BY PlainOne, StartingOnly

LEMMA StartingTwo ==
  ASSUME Base, NEW w \in Workers, NEW a, a.do \notin BudgetWork \cup SeatWork,
         NEW b, b.do \notin BudgetWork \cup SeatWork, Begin(w, <<a, b>>), UNCHANGED <<db, stripe>>
  PROVE  PlainStep
  BY PlainTwo, StartingOnly

LEMMA ConnectIsPlain ==
  ASSUME Base, NEW w \in Workers, NEW u, Connect(w, u)
  PROVE  MildStep
  <1>1. PICK s : /\ Begin(w, <<[do |-> "store", of |-> s, cloud |-> None, was |-> None]>>)
                 /\ UNCHANGED <<db, stripe>>
    BY Zenon DEF Connect
  <1> QED BY <1>1, StartingOneMildly DEF BudgetWork, SeatWork, OddWork

LEMMA StoreCredentialIsPlain ==
  ASSUME Base, NEW w \in Workers, StoreCredential(w)
  PROVE  MildStep
  <1> DEFINE p == This(w)
             free == Unused(db.cred, None)
             more == IF p.cloud = None
                     THEN [do |-> "create", of |-> p.of, cred |-> Least(free)]
                     ELSE [do |-> "rewire", cloud |-> p.cloud, cred |-> Least(free), was |-> p.was]
  <1>1. /\ Doing(w, "store") /\ db' = [db EXCEPT !.cred[Least(free)] = p.of]
        /\ Proceed(w, <<more>>) /\ With(Stale(~Live(p.of))) /\ UNCHANGED stripe
        /\ free # {}
    BY Zenon DEF StoreCredential
  <1>2. more.do \in {"create", "rewire"}
    BY DEF Unused
  <1> HIDE DEF more, free, p
  <1>3. Mild(<<more>>)
    BY <1>2, MildOne DEF BudgetWork, SeatWork, OddWork
  <1>5. Notes /\ (Live(p.of) \/ "stale" \in hist'.lapses)
    BY <1>1, NotingMore DEF Base, With, Stale
  <1>4. Keeping
    <2>1. Keeps
      BY <1>1, Elsewhere DEF Base, DbFields
    <2>2. Steadies
      BY <1>1, <1>5, Storing DEF Base, Calm, Barring, Standing, Live, Kinds
    <2> QED BY <2>1, <2>2 DEF Keeping
  <1> QED BY <1>1, <1>3, <1>4, <1>5, OrderedMildly DEF BudgetWork, SeatWork, OddWork

LEMMA CreateCloudIsPlain ==
  ASSUME Base, NEW w \in Workers, CreateCloud(w)
  PROVE  MildStep
  <1> DEFINE p == This(w)
             doc == [of |-> p.of, active |-> TRUE, cred |-> p.cred]
  <1>1. PICK c : db' = [db EXCEPT !.cloud[c] = doc]
    BY Zenon DEF CreateCloud
  <1>2. PICK touched : hist' = [Noting(hist, Stale(~Live(p.of))) EXCEPT !.touched = touched]
    BY DEF CreateCloud
  <1>3. DOMAIN doc = DOMAIN NoCloud /\ doc.of = p.of
    BY DEF NoCloud
  <1> HIDE DEF doc, p
  <1>4. Notes /\ (Calm' => Standing(p.of))
    <2>1. Notes /\ hist'.lapses = hist.lapses \cup Stale(~Live(p.of))
      BY <1>2 DEF Base, HistOK, HistFields, Noting, Notes
    <2> QED BY <2>1 DEF Calm, Barring, Stale, Standing, Live, Kinds
  <1>5. Keeping
    BY <1>1, <1>3, <1>4, Linking, Elsewhere DEF Base, DbFields, Keeping
  <1> QED BY <1>4, <1>5, UnorderedMildly DEF CreateCloud, BudgetWork, SeatWork, OddWork

LEMMA SetStatusIsPlain ==
  ASSUME Base, NEW u, NEW c, NEW active, SetStatus(u, c, active)
  PROVE  MildStep
  <1>1. PICK s : /\ db' = [db EXCEPT !.cloud[c].active = active]
                 /\ hist' = [Noting(Spend, Crowded) EXCEPT !.touched = @ \cup {s}]
                 /\ UNCHANGED <<job, stripe>>
    BY Zenon DEF SetStatus
  <1>2. Keeping /\ Heeded
    BY <1>1, Reworking DEF Base, DbOK, DbFields, ShapeOK, Heeded
  <1>3. Notes
    BY <1>1 DEF Base, HistOK, HistFields, Noting, Spend, Notes
  <1> QED BY <1>1, <1>2, <1>3, JobsStay, StripeSame DEF Base, MildStep, PlainStep, Gentle, JobsGo, Keeping

LEMMA DropCredentialIsPlain ==
  ASSUME Base, NEW w \in Workers, DropCredential(w)
  PROVE  MildStep
  <1>1. Doing(w, "drop_cred") /\ Proceed(w, <<>>) /\ Clean /\ UNCHANGED stripe
    BY Zenon DEF DropCredential
  <1>2. PICK k, x : (x = None \/ x = Gone) /\ db' = [db EXCEPT !.cred[k] = x]
    BY Zenon DEF DropCredential
  <1>3. Keeping
    BY <1>2, NobodyStands, Storing, Elsewhere DEF Base, DbFields, Keeping
  <1>4. Notes
    BY <1>1, NotingNothing, Zenon DEF Base, Clean
  <1> QED BY <1>1, <1>3, <1>4, UnorderedMildly, Zenon DEF BudgetWork, SeatWork, OddWork

LEMMA DisconnectIsPlain ==
  ASSUME Base, NEW w \in Workers, NEW u, NEW c, Disconnect(w, u, c)
  PROVE  MildStep
  <1> DEFINE b == [do |-> "drop_cloud", cloud |-> c, was |-> db.cloud[c].cred]
  <1>1. Begin(w, <<Dropping(c), b>>) /\ UNCHANGED <<db, stripe>>
    BY Zenon DEF Disconnect
  <1>2. Dropping(c).do = "drop_cred" /\ b.do = "drop_cloud"
    BY DEF Dropping
  <1> HIDE DEF b
  <1> QED BY <1>1, <1>2, StartingTwoMildly, Zenon DEF BudgetWork, SeatWork, OddWork

LEMMA RotateIsPlain ==
  ASSUME Base, NEW w \in Workers, NEW u, NEW c, Rotate(w, u, c)
  PROVE  MildStep
  <1> DEFINE b(s) == [do |-> "store", of |-> s, cloud |-> c, was |-> db.cloud[c].cred]
  <1>1. PICK s : Begin(w, <<Dropping(c), b(s)>>) /\ UNCHANGED <<db, stripe>>
    BY Zenon DEF Rotate
  <1>2. Dropping(c).do = "drop_cred" /\ b(s).do = "store"
    BY DEF Dropping
  <1> HIDE DEF b
  <1> QED BY <1>1, <1>2, StartingTwoMildly, Zenon DEF BudgetWork, SeatWork, OddWork

LEMMA DropCloudIsPlain ==
  ASSUME Base, NEW w \in Workers, DropCloud(w)
  PROVE  MildStep
  <1> DEFINE p == This(w)
  <1>1. Doing(w, "drop_cloud") /\ Proceed(w, <<>>) /\ UNCHANGED stripe
    BY Zenon DEF DropCloud
  <1>2. CASE IsCloud(p.cloud)
    <2>1. db' = [db EXCEPT !.cloud[p.cloud] = Buried(db.cloud[p.cloud])]
      BY <1>2, Zenon DEF DropCloud
    <2>2. PICK more, touched : hist' = [Noting(hist, more) EXCEPT !.touched = touched]
      BY <1>2, Zenon DEF DropCloud
    <2>3. Keeping
      <3> DEFINE old == db.cloud[p.cloud]
                 doc == Buried(old)
      <3> HIDE DEF p
      <3>1. ShapeOK /\ p.cloud \in Clouds => DOMAIN doc = DOMAIN NoCloud
        BY DEF ShapeOK, Buried, NoCloud
      <3>2. Standing(doc.of)
        BY DocumentsOK DEF Buried, Gone, Standing
      <3> HIDE DEF doc
      <3>3. Keeps /\ Steadies
        BY <2>1, <3>1, <3>2, Linking, Elsewhere DEF Base, DbFields, doc
      <3> QED BY <3>3 DEF Keeping
    <2>4. Notes
      BY <2>2 DEF Base, HistOK, HistFields, Noting, Notes
    <2> QED BY <1>1, <2>3, <2>4, UnorderedMildly, Zenon DEF BudgetWork, SeatWork, OddWork
  <1>3. CASE ~IsCloud(p.cloud)
    <2>1. UNCHANGED db /\ With({"stale"})
      BY <1>3, Zenon DEF DropCloud
    <2>2. Keeping /\ Notes
      BY <2>1, KeepingStill, NotingMore DEF With, Base
    <2> QED BY <1>1, <2>2, UnorderedMildly, Zenon DEF BudgetWork, SeatWork, OddWork
  <1> QED BY <1>2, <1>3

LEMMA RewireIsPlain ==
  ASSUME Base, NEW w \in Workers, Rewire(w)
  PROVE  MildStep
  <1>1. PICK more, touched : hist' = [Noting(hist, more) EXCEPT !.touched = touched]
    BY DEF Rewire
  <1>2. Notes
    BY <1>1 DEF Base, HistOK, HistFields, Noting, Notes
  <1>3. Keeping
    <2>1. CASE UNCHANGED db
      BY <2>1, KeepingStill DEF Base
    <2>2. CASE db' # db
      <3> DEFINE p == This(w)
      <3>1. db' = [db EXCEPT !.cloud[p.cloud].cred = p.cred, !.cloud[p.cloud].active = TRUE]
        BY <2>2 DEF Rewire
      <3> HIDE DEF p
      <3>2. DOMAIN db' = DOMAIN db /\ \A f \in DbFields \ {"cloud"} : db'[f] = db[f]
        BY <3>1 DEF Base, DbOK, DbFields
      <3>3. ShapeOK => \A c \in Clouds : db'.cloud[c].of = db.cloud[c].of
        BY <3>1 DEF Base, DbOK, DbFields, ShapeOK, NoCloud
      <3>4. ShapeOK => DOMAIN db'.cloud = Clouds /\ \A c \in Clouds : DOMAIN db'.cloud[c] = DOMAIN NoCloud
        BY <3>1 DEF Base, DbOK, DbFields, ShapeOK
      <3> QED BY <3>2, <3>3, <3>4, Reworking DEF Base
    <2> QED BY <2>1, <2>2
  <1> QED BY <1>2, <1>3, UnorderedMildly DEF Rewire, BudgetWork, SeatWork, OddWork

LEMMA KeyedLess ==
  ASSUME DbOK, NEW k, db' = [db EXCEPT !.keys = @ \ {k}]
  PROVE  Keeping
  <1>1. db'.keys \subseteq db.keys /\ DOMAIN db' = DbFields /\ \A f \in DbFields \ {"keys", "keyed"} : db'[f] = db[f]
    BY DEF DbOK, DbFields
  <1>2. Keeps
    BY <1>1 DEF DbOK, DbFields, Keeps
  <1> QED BY <1>1, <1>2, Keying DEF Keeping

LEMMA KeyedMore ==
  ASSUME DbOK, NEW n, NEW s, RefsStand => Standing(s),
         db' = [db EXCEPT !.keys = @ \cup {Key(n, s)}, !.keyed = @ + 1]
  PROVE  Keeping
  <1>1. /\ db'.keys = db.keys \cup {Key(n, s)} /\ DOMAIN db' = DbFields
        /\ \A f \in DbFields \ {"keys", "keyed"} : db'[f] = db[f]
    BY DEF DbOK, DbFields
  <1>2. Key(n, s).of = s
    BY DEF Key
  <1>3. Keeps
    BY <1>1 DEF DbOK, DbFields, Keeps
  <1>4. \A k \in db'.keys : k \in db.keys \/ k.of = s
    BY <1>1, <1>2
  <1> QED BY <1>1, <1>3, <1>4, Keying DEF Keeping

LEMMA KeysArePlain ==
  ASSUME Base, NEW u, NEW k, NEW w \in Workers,
         CreateKey(u) \/ RevokeKey(u, k) \/ RollKey(w, u, k) \/ RevokeRolled(w)
  PROVE  MildStep
  <1>1. CASE CreateKey(u)
    <2>1. PICK s \in Reach(u, "api_keys_manage") :
            /\ AtOnce /\ UNCHANGED stripe
            /\ db' = [db EXCEPT !.keys = @ \cup {Key(db.keyed + 1, s)}, !.keyed = @ + 1]
      BY <1>1, Zenon DEF CreateKey
    <2>2. Keeping
      <3>1. RefsStand => Standing(s)
        BY <2>1, ReachStands
      <3>2. DbOK
        BY DEF Base
      <3> QED BY <2>1, <3>1, <3>2, KeyedMore, Zenon
    <2> QED BY <2>1, <2>2, AtOnceMildly, StripeSame DEF Base, MildStep, PlainStep, Gentle, JobsGo, Keeping
  <1>2. CASE RevokeKey(u, k)
    <2>1. Keeping
      BY <1>2, KeyedLess DEF RevokeKey, Base
    <2> QED BY <1>2, <2>1, AtOnceMildly, StripeSame
            DEF RevokeKey, Base, MildStep, PlainStep, Gentle, JobsGo, Keeping
  <1>3. CASE RollKey(w, u, k)
    <2>1. /\ db' = [db EXCEPT !.keys = @ \cup {Key(db.keyed + 1, k.of)}, !.keyed = @ + 1]
          /\ k.of \in Reach(u, "api_keys_manage")
          /\ Begin(w, <<[do |-> "revoke", key |-> k]>>) /\ UNCHANGED stripe
      BY <1>3, Zenon DEF RollKey
    <2>2. Keeping
      <3>1. RefsStand => Standing(k.of)
        BY <2>1, ReachStands
      <3>2. DbOK
        BY DEF Base
      <3> QED BY <2>1, <3>1, <3>2, KeyedMore, Zenon
    <2>3. Mild(<<[do |-> "revoke", key |-> k]>>)
      BY MildOne DEF BudgetWork, SeatWork, OddWork
    <2> QED BY <2>1, <2>2, <2>3, StartingMildly, StripeSame
            DEF Base, MildStep, PlainStep, Gentle, JobsGo, Keeping
  <1>4. CASE RevokeRolled(w)
    <2>1. PICK more : With(more)
      BY <1>4, Zenon DEF RevokeRolled
    <2>2. Keeping
      BY <1>4, KeyedLess DEF RevokeRolled, Base
    <2>3. Notes
      BY <2>1, NotingMore DEF With, Base
    <2> QED BY <1>4, <2>2, <2>3, UnorderedMildly DEF RevokeRolled, BudgetWork, SeatWork, OddWork
  <1> QED BY <1>1, <1>2, <1>3, <1>4

LEMMA ErasingKeeps ==
  ASSUME DbOK, NEW item, db' = Without(item)
  PROVE  Keeps
  <1> DEFINE s == item.of
  <1>1. CASE item.what = "clouds"
    <2>1. PICK v : db' = [db EXCEPT !.cloud = v]
      BY <1>1, Zenon DEF Without
    <2> QED BY <2>1, Elsewhere DEF DbFields
  <1>2. CASE item.what = "creds"
    <2>1. PICK v : db' = [db EXCEPT !.cred = v]
      BY <1>2, Zenon DEF Without
    <2> QED BY <2>1, Elsewhere DEF DbFields
  <1>3. CASE item.what = "keys"
    <2>1. PICK v : db' = [db EXCEPT !.keys = v]
      BY <1>3, Zenon DEF Without
    <2> QED BY <2>1, Elsewhere DEF DbFields
  <1>4. CASE item.what = "members"
    <2>1. db' = [db EXCEPT !.member = {m \in db.member : m.of # s}]
      BY <1>4 DEF Without
    <2> HIDE DEF s
    <2> QED BY <2>1 DEF Keeps, DbOK, DbFields
  <1>5. CASE item.what = "invites"
    <2>1. db' = [db EXCEPT !.invite = [i \in Invites |-> IF db.invite[i].of = s THEN Buried(db.invite[i])
                                                        ELSE db.invite[i]]]
      BY <1>5 DEF Without
    <2> HIDE DEF s
    <2>2. DOMAIN db' = DbFields /\ \A f \in DbFields \ {"invite"} : db'[f] = db[f]
      BY <2>1 DEF DbOK
    <2>3. db'.invite = [i \in Invites |-> IF db.invite[i].of = s THEN Buried(db.invite[i]) ELSE db.invite[i]]
      BY <2>1 DEF DbOK, DbFields
    <2>4. \A i \in Invites : DOMAIN db'.invite[i] = DOMAIN NoInvite /\ db'.invite[i].status = db.invite[i].status
      BY <2>3 DEF DbOK, Buried, NoInvite
    <2>5. DOMAIN db'.invite = Invites
      BY <2>3
    <2>6. db'.member = db.member /\ db'.budget = db.budget /\ db'.period = db.period
      BY <2>2 DEF DbFields
    <2> QED BY <2>2, <2>4, <2>5, <2>6 DEF Keeps, DbOK
  <1>6. CASE item.what = "actives"
    <2>1. PICK v : db' = [db EXCEPT !.active = v]
      BY <1>6, Zenon DEF Without
    <2> QED BY <2>1, Elsewhere DEF DbFields
  <1>7. CASE item.what = "space"
    <2>1. db' = [db EXCEPT !.space[s].type = "gone"]
      BY <1>7 DEF Without
    <2> HIDE DEF s
    <2> QED BY <2>1, Elsewhere DEF DbFields
  <1>8. CASE item.what = "seats"
    <2>1. db' = [db EXCEPT !.member = {m \in db.member : m.user # s}]
      BY <1>8 DEF Without
    <2> HIDE DEF s
    <2> QED BY <2>1 DEF Keeps, DbOK, DbFields
  <1>9. CASE item.what = "profile"
    <2>1. db' = [db EXCEPT !.active[s] = None]
      BY <1>9 DEF Without
    <2> HIDE DEF s
    <2> QED BY <2>1, Elsewhere DEF DbFields
  <1>10. CASE item.what \notin {"clouds", "creds", "keys", "members", "invites", "actives", "space",
                                 "seats", "profile"}
    <2>1. PICK v : db' = [db EXCEPT !.space = v]
      <3>1. db' = [db EXCEPT !.space = [x \in Spaces |-> IF x \in Owned(s) THEN [@[x] EXCEPT !.type = "gone"] ELSE @[x]]]
        BY <1>10 DEF Without
      <3> QED BY <3>1, Zenon
    <2> QED BY <2>1, Elsewhere DEF DbFields
  <1> QED BY <1>1, <1>2, <1>3, <1>4, <1>5, <1>6, <1>7, <1>8, <1>9, <1>10

LEMMA EraseOneIsPlain ==
  ASSUME Base, NEW w \in Workers, EraseOne(w)
  PROVE  PlainStep
  <1> DEFINE p == This(w)
  <1>0. PICK item \in p.items, ok \in (IF hist.faults > 0 THEN BOOLEAN ELSE {TRUE}) :
          LET rest  == p.items \ {item}
              broke == p.broke \/ (~ok /\ item.what \notin BestEffort)
          IN /\ db' = IF ok THEN Without(item) ELSE db
             /\ hist' = [Noting(hist, IF ok THEN {} ELSE IF item.what \in BestEffort THEN {"swallowed"} ELSE {"failed"})
                           EXCEPT !.faults = IF ok THEN @ ELSE @ - 1]
             /\ IF rest # {} THEN Proceed(w, <<[Erase(rest) EXCEPT !.broke = broke]>>)
                ELSE IF broke THEN job' = [job EXCEPT ![w] = <<>>] ELSE Proceed(w, <<>>)
    BY Zenon DEF EraseOne
  <1>1. PICK rest, broke :
          /\ db' = IF ok THEN Without(item) ELSE db
          /\ hist' = [Noting(hist, IF ok THEN {} ELSE IF item.what \in BestEffort THEN {"swallowed"} ELSE {"failed"})
                        EXCEPT !.faults = IF ok THEN @ ELSE @ - 1]
          /\ IF rest # {} THEN Proceed(w, <<[Erase(rest) EXCEPT !.broke = broke]>>)
             ELSE IF broke THEN job' = [job EXCEPT ![w] = <<>>] ELSE Proceed(w, <<>>)
    BY <1>0, Zenon
  <1>2. Doing(w, "erase") /\ UNCHANGED stripe
    BY Zenon DEF EraseOne
  <1>3. Keeps
    <2>1. CASE db' = Without(item)
      BY <2>1, ErasingKeeps DEF Base
    <2>2. CASE UNCHANGED db
      BY <2>2, KeepingAll DEF Base
    <2> QED BY <1>1, <2>1, <2>2, Zenon
  <1>4. Notes
    <2>1. PICK more, faults : hist' = [Noting(hist, more) EXCEPT !.faults = faults]
      BY <1>1, Zenon
    <2> QED BY <2>1 DEF Base, HistOK, HistFields, Noting, Notes
  <1>5. JobsMove
    <2>1. CASE Proceed(w, <<[Erase(rest) EXCEPT !.broke = broke]>>)
      <3>1. [Erase(rest) EXCEPT !.broke = broke].do = "erase"
        <4>1. Erase(rest).do = "erase" /\ "do" \in DOMAIN Erase(rest)
          BY DEF Erase
        <4> QED BY <4>1, Zenon
      <3>2. Plain(<<[Erase(rest) EXCEPT !.broke = broke]>>)
        BY <3>1, PlainOne, Zenon DEF BudgetWork, SeatWork
      <3> QED BY <1>2, <2>1, <3>2, Going, Zenon DEF Base, BudgetWork, SeatWork
    <2>2. CASE Proceed(w, <<>>)
      BY <1>2, <2>2, WorkOfNone, Going, Zenon DEF Base, BudgetWork, SeatWork
    <2>3. CASE job' = [job EXCEPT ![w] = <<>>]
      BY <1>2, <2>3, GivingUp, Zenon DEF Base, BudgetWork, SeatWork
    <2> QED BY <1>1, <2>1, <2>2, <2>3, Zenon
  <1> QED BY <1>2, <1>3, <1>4, <1>5, StripeSame, Zenon DEF Base, PlainStep

LEMMA DeleteOrgIsPlain ==
  ASSUME Base, NEW w \in Workers, NEW u, DeleteOrg(w, u)
  PROVE  PlainStep
  <1>1. PICK a, b : Begin(w, <<Erase(a), Erase(b)>>) /\ UNCHANGED <<db, stripe>>
    BY Zenon DEF DeleteOrg
  <1> QED BY <1>1, StartingTwo DEF Erase, BudgetWork, SeatWork

LEMMA DeleteMeIsPlain ==
  ASSUME Base, NEW w \in Workers, NEW u, DeleteMe(w, u)
  PROVE  PlainStep
  <1> DEFINE mine == Owned(u)
             paid == {db.space[s].sub : s \in mine} \ {None}
             All(items) == UNION {Of(items, s) : s \in mine}
             first  == IF paid = {} THEN <<>> ELSE <<[do |-> "cancel", subs |-> paid]>>
             second == IF mine = {} THEN <<>> ELSE <<Erase(All(OwnedCascade)), Erase(All({"invites"}))>>
             third  == <<Erase({[what |-> "seats", of |-> u]}),
                         Erase({[what |-> "profile", of |-> u], [what |-> "accounts", of |-> u]})>>
  <1>1. /\ Idle(w) /\ hist' = Noting(Spend, Crowded \cup {"owner left"}) /\ UNCHANGED <<db, stripe>>
        /\ job' = [job EXCEPT ![w] = first \o second \o third]
    BY Zenon DEF DeleteMe
  <1>2. \A items : Erase(items).do = "erase"
    BY DEF Erase
  <1>3. Plain(first)
    BY PlainOne, WorkOfNone DEF BudgetWork, SeatWork
  <1>4. Plain(second) /\ Plain(third)
    BY <1>2, PlainTwo, WorkOfNone, Zenon DEF BudgetWork, SeatWork
  <1> HIDE DEF first, second, third
  <1>5. Plain(first \o second \o third)
    BY <1>3, <1>4, PlainJoined
  <1>6. Notes /\ Crowded \subseteq hist'.lapses
    <2>1. Notes /\ hist'.lapses = hist.lapses \cup (Crowded \cup {"owner left"})
      BY <1>1, NotingMore, Zenon DEF Base
    <2> QED BY <2>1, Zenon
  <1>7. JobsMove
    <2>1. PICK steps : Plain(steps) /\ job' = [job EXCEPT ![w] = steps]
      BY <1>1, <1>5, Zenon
    <2>2. job[w] = <<>>
      BY <1>1, Zenon DEF Idle
    <2> QED BY <1>6, <2>1, <2>2, WorkOfNone DEF JobsMove, JobsOK, Base
  <1> QED BY <1>1, <1>6, <1>7, KeepingAll, StripeSame, Zenon DEF Base, PlainStep

LEMMA CancelAllIsPlain ==
  ASSUME Base, NEW w \in Workers, CancelAll(w)
  PROVE  PlainStep
  <1>1. Doing(w, "cancel") /\ Proceed(w, <<>>) /\ UNCHANGED db
    BY Zenon DEF CancelAll
  <1>2. PICK went \in SUBSET This(w).subs :
         LET dead == {k \in went : stripe.sub[k].state # "dead"} IN
         /\ stripe' = [stripe EXCEPT
              !.sub  = [k \in Subs |-> IF k \in dead THEN [@[k] EXCEPT !.state = "dead"] ELSE @[k]],
              !.sent = @ + Cardinality(dead),
              !.mail = @ \cup {[id |-> stripe.sent + Cardinality({j \in dead : j <= k}), kind |-> "deleted",
                                sub |-> k, plan |-> stripe.sub[k].plan, state |-> "dead",
                                of |-> stripe.sub[k].of] : k \in dead}]
         /\ hist' = [Noting(hist, IF went = This(w).subs THEN {} ELSE {"swallowed"})
                       EXCEPT !.faults = @ - Cardinality(This(w).subs \ went)]
    BY Zenon DEF CancelAll
  <1>3. Notes
    <2>1. PICK more, faults : hist' = [Noting(hist, more) EXCEPT !.faults = faults]
      BY <1>2, Zenon
    <2> QED BY <2>1 DEF Base, HistOK, HistFields, Noting, Notes
  <1>4. StripeOK'
    <2> DEFINE dead == {k \in went : stripe.sub[k].state # "dead"}
               Tale(k) == [id |-> stripe.sent + Cardinality({j \in dead : j <= k}), kind |-> "deleted",
                           sub |-> k, plan |-> stripe.sub[k].plan, state |-> "dead",
                           of |-> stripe.sub[k].of]
    <2>1. PICK sub, sent : stripe' = [stripe EXCEPT !.sub = sub, !.sent = sent,
                                      !.mail = @ \cup {Tale(k) : k \in dead}]
      BY <1>2, Zenon
    <2>2. \A k : Tale(k).kind = "deleted"
      OBVIOUS
    <2> HIDE DEF Tale, dead
    <2>3. DOMAIN stripe' = MailFields /\ stripe'.mail = stripe.mail \cup {Tale(k) : k \in dead}
      BY <2>1 DEF Base, StripeOK, MailFields
    <2> QED BY <2>2, <2>3 DEF Base, StripeOK
  <1>5. JobsMove
    BY <1>1, WorkOfNone, Going DEF Base, BudgetWork, SeatWork
  <1> QED BY <1>1, <1>3, <1>4, <1>5, KeepingAll DEF Base, PlainStep

LEMMA PersonalIs ==
  ASSUME NEW u
  PROVE  NewPersonal(u).type \in Kinds /\ DOMAIN NewPersonal(u) = DOMAIN NoSpace
  BY DEF NewPersonal, NoSpace, Kinds

LEMMA ProvisionIsPlain ==
  ASSUME Base, NEW w \in Workers, NEW u, Provision(w, u)
  PROVE  MildStep
  <1> DEFINE s == Least(Unborn)
  <1>1. /\ Begin(w, <<[do |-> "profile", user |-> u, of |-> s]>>) /\ UNCHANGED stripe
        /\ db' = [db EXCEPT !.space[s] = NewPersonal(u)] /\ Unborn # {}
    BY Zenon DEF Provision
  <1>2. Mild(<<[do |-> "profile", user |-> u, of |-> s]>>)
    BY MildOne DEF BudgetWork, SeatWork, OddWork
  <1>3. Keeping
    BY <1>1, PersonalIs, FreshSpace, Founding, Elsewhere DEF Base, DbFields, Keeping
  <1> QED BY <1>1, <1>2, <1>3, StartingMildly, StripeSame DEF Base, MildStep, PlainStep, Gentle, JobsGo, Keeping

LEMMA SetProfileIsPlain ==
  ASSUME Base, NEW w \in Workers, SetProfile(w)
  PROVE  MildStep
  <1>1. Doing(w, "profile") /\ Proceed(w, <<>>) /\ UNCHANGED stripe
    BY Zenon DEF SetProfile
  <1>2. PICK u, s : With(Stale(RoleIn(u, s) = {})) /\ db' = [db EXCEPT !.active[u] = s]
    BY Zenon DEF SetProfile
  <1>3. Notes /\ (Calm' => RoleIn(u, s) # {})
    <2>1. Notes /\ hist'.lapses = hist.lapses \cup Stale(RoleIn(u, s) = {})
      BY <1>2, NotingMore DEF With, Base
    <2> QED BY <2>1 DEF Calm, Barring, Stale
  <1>4. Keeping
    BY <1>2, <1>3, Placing, Elsewhere DEF Base, DbFields, Keeping
  <1> QED BY <1>1, <1>3, <1>4, UnorderedMildly DEF BudgetWork, SeatWork, OddWork

LEMMA CreateAccountIsPlain ==
  ASSUME Base, NEW w \in Workers, NEW u, CreateAccount(w, u)
  PROVE  MildStep
  <1>1. Begin(w, <<[do |-> "personal", user |-> u]>>) /\ UNCHANGED <<db, stripe>>
    BY Zenon DEF CreateAccount
  <1> QED BY <1>1, StartingOneMildly DEF BudgetWork, SeatWork, OddWork

LEMMA InsertPersonalIsPlain ==
  ASSUME Base, NEW w \in Workers, InsertPersonal(w)
  PROVE  MildStep
  <1>1. Doing(w, "personal") /\ Proceed(w, <<>>) /\ UNCHANGED stripe /\ Unborn # {}
    BY Zenon DEF InsertPersonal
  <1>2. PICK more, u : With(more) /\ db' = [db EXCEPT !.space[Least(Unborn)] = NewPersonal(u)]
    BY Zenon DEF InsertPersonal
  <1>3. Keeping /\ Notes
    BY <1>1, <1>2, PersonalIs, FreshSpace, Founding, Elsewhere, NotingMore DEF With, Base, DbFields, Keeping
  <1> QED BY <1>1, <1>3, UnorderedMildly DEF BudgetWork, SeatWork, OddWork

Deletes(w) == EraseOne(w) \/ CancelAll(w) \/ \E u \in Users : DeleteOrg(w, u) \/ DeleteMe(w, u)
LEMMA CloudAccountsArePlain ==
  ASSUME Base, CloudAccountsNext
  PROVE  PlainStep /\ (Gentle \/ \E w \in Workers : Deletes(w))
  <1> USE DEF MildStep
  <1>1. PICK w \in Workers :
           \/ \E u \in Users :
                \/ Connect(w, u) \/ DeleteOrg(w, u)
                \/ \E c \in Clouds : \/ Disconnect(w, u, c) \/ Rotate(w, u, c)
                                     \/ \E on \in BOOLEAN : SetStatus(u, c, on)
                \/ CreateKey(u)
                \/ \E k \in db.keys : RevokeKey(u, k) \/ RollKey(w, u, k)
                \/ DeleteMe(w, u) \/ Provision(w, u) \/ CreateAccount(w, u)
           \/ StoreCredential(w) \/ CreateCloud(w) \/ DropCredential(w) \/ DropCloud(w) \/ Rewire(w)
           \/ RevokeRolled(w) \/ EraseOne(w) \/ CancelAll(w) \/ SetProfile(w) \/ InsertPersonal(w)
    BY Zenon DEF CloudAccountsNext
  <1>2. ASSUME NEW u \in Users, Connect(w, u) \/ Provision(w, u) \/ CreateAccount(w, u)
        PROVE  PlainStep /\ Gentle
    BY <1>2, ConnectIsPlain, ProvisionIsPlain, CreateAccountIsPlain
  <1>3. ASSUME NEW u \in Users, NEW c \in Clouds, NEW on \in BOOLEAN,
               Disconnect(w, u, c) \/ Rotate(w, u, c) \/ SetStatus(u, c, on)
        PROVE  PlainStep /\ Gentle
    BY <1>3, DisconnectIsPlain, RotateIsPlain, SetStatusIsPlain
  <1>4. ASSUME NEW u, NEW k, CreateKey(u) \/ RevokeKey(u, k) \/ RollKey(w, u, k) \/ RevokeRolled(w)
        PROVE  PlainStep /\ Gentle
    BY <1>4, KeysArePlain
  <1>5. ASSUME StoreCredential(w) \/ CreateCloud(w) \/ DropCredential(w) \/ DropCloud(w) \/ Rewire(w)
               \/ SetProfile(w) \/ InsertPersonal(w)
        PROVE  PlainStep /\ Gentle
    BY <1>5, StoreCredentialIsPlain, CreateCloudIsPlain, DropCredentialIsPlain, DropCloudIsPlain, RewireIsPlain,
       SetProfileIsPlain, InsertPersonalIsPlain
  <1>6. ASSUME Deletes(w) PROVE PlainStep
    BY <1>6, DeleteOrgIsPlain, DeleteMeIsPlain, EraseOneIsPlain, CancelAllIsPlain DEF Deletes
  <1>7. Deletes(w) <=> EraseOne(w) \/ CancelAll(w) \/ \E u \in Users : DeleteOrg(w, u) \/ DeleteMe(w, u)
    BY DEF Deletes
  <1> QED BY <1>1, <1>2, <1>3, <1>4, <1>5, <1>6, <1>7, Zenon

(************** the team, the switch and the console are plain *************)
(* What the team's other handlers and the console's calls leave alone.     *)
LEMMA NotingFault ==
  ASSUME HistOK, NEW more, NEW faults, hist' = [Noting(hist, more) EXCEPT !.faults = faults]
  PROVE  Notes
  BY DEF HistOK, HistFields, Noting, Notes

LEMMA InviteIsPlain ==
  ASSUME Base, NEW w \in Workers, NEW u, NEW email, NEW role, Invite(w, u, email, role)
  PROVE  MildStep
  <1>1. PICK s : Begin(w, <<[do |-> "invite", of |-> s, email |-> email, role |-> role]>>) /\ UNCHANGED <<db, stripe>>
    BY Zenon DEF Invite
  <1> QED BY <1>1, StartingOneMildly DEF BudgetWork, SeatWork, OddWork

LEMMA ExpiresIsPlain ==
  ASSUME Base, NEW i \in Invites, Expires(i)
  PROVE  MildStep
  <1>1. hist' = Spend /\ db' = [db EXCEPT !.invite[i].late = TRUE] /\ UNCHANGED <<job, stripe>>
    BY Zenon DEF Expires
  <1>2. Keeps
    BY <1>1 DEF Base, DbOK, DbFields, Keeps, NoInvite
  <1>3. Unmoved
    BY <1>1 DEF Base, DbOK, DbFields, Unmoved, ShapeOK
  <1> QED BY <1>1, <1>2, <1>3, UnmovedIsSteady, NotingNothing, JobsStay, StripeSame
          DEF Base, MildStep, PlainStep, Gentle, JobsGo, Heeded

LEMMA RemoveMemberIsPlain ==
  ASSUME Base, NEW w \in Workers, NEW u, NEW m, RemoveMember(w, u, m)
  PROVE  PlainStep
  <1>1. /\ Begin(w, <<[do |-> "clear", user |-> m.user, of |-> m.of]>>) /\ UNCHANGED stripe
        /\ db' = [db EXCEPT !.member = @ \ {m}]
    BY Zenon DEF RemoveMember
  <1>2. Keeps
    BY <1>1 DEF Base, DbOK, DbFields, Keeps
  <1>3. Plain(<<[do |-> "clear", user |-> m.user, of |-> m.of]>>)
    BY PlainOne DEF BudgetWork, SeatWork
  <1> QED BY <1>1, <1>2, <1>3, Starting, StripeSame DEF Base, PlainStep

LEMMA ClearProfileIsPlain ==
  ASSUME Base, NEW w \in Workers, ClearProfile(w)
  PROVE  PlainStep
  <1>1. Doing(w, "clear") /\ Proceed(w, <<>>) /\ UNCHANGED stripe
    BY Zenon DEF ClearProfile
  <1>2. \/ Clean /\ \E u, s : db' = [db EXCEPT !.active[u] = s]
        \/ UNCHANGED db /\ \E more, faults : hist' = [Noting(hist, more) EXCEPT !.faults = faults]
    BY Zenon DEF ClearProfile
  <1>3. Keeps
    BY <1>2, Elsewhere, KeepingAll DEF Base, DbFields
  <1>4. Notes
    BY <1>2, NotingNothing, NotingFault DEF Base, Clean
  <1> QED BY <1>1, <1>3, <1>4, Unordered DEF BudgetWork, SeatWork

LEMMA SwitchIsPlain ==
  ASSUME Base, NEW w \in Workers, NEW u, NEW s, Switch(w, u, s)
  PROVE  MildStep
  <1>1. Begin(w, <<[do |-> "profile", user |-> u, of |-> s]>>) /\ UNCHANGED <<db, stripe>>
    BY Zenon DEF Switch
  <1> QED BY <1>1, StartingOneMildly DEF BudgetWork, SeatWork, OddWork

LEMMA SpendMoreIsPlain ==
  ASSUME Base, SpendMore
  PROVE  MildStep
  <1>1. hist' = Spend /\ db' = [db EXCEPT !.spent = @ + 1] /\ UNCHANGED <<job, stripe>>
    BY Zenon DEF SpendMore
  <1>2. Keeping /\ Heeded
    <2>1. PICK v : db' = [db EXCEPT !.spent = v]
      BY <1>1, Zenon
    <2> QED BY <2>1, Aloof DEF Base, Heeded
  <1> QED BY <1>1, <1>2, NotingNothing, JobsStay, StripeSame DEF Base, MildStep, PlainStep, Gentle, JobsGo, Keeping

(* The console moves no worker and has no worker's step made. *)
LEMMA AtTheConsole ==
  ASSUME Base, UNCHANGED <<job, stripe>>, Keeping, Heeded, Notes
  PROVE  MildStep
  BY JobsStay, StripeSame DEF Base, MildStep, PlainStep, Gentle, JobsGo, Keeping

LEMMA ServingKeeps ==
  ASSUME Base,
         \/ UNCHANGED db
         \/ \E s, v : db' = [db EXCEPT !.space[s].channels = v]
         \/ \E s, v : db' = [db EXCEPT !.rules[s] = v]
  PROVE  Keeping /\ Heeded
  <1>1. CASE UNCHANGED db
    BY <1>1, KeepingStill DEF Base, Heeded
  <1>2. ASSUME NEW s, NEW v, db' = [db EXCEPT !.space[s].channels = v] PROVE Keeping /\ Heeded
    BY <1>2, Retouching DEF Base, DbOK, DbFields, ShapeOK, Heeded
  <1>3. ASSUME NEW s, NEW v, db' = [db EXCEPT !.rules[s] = v] PROVE Keeping /\ Heeded
    <2>1. PICK x : db' = [db EXCEPT !.rules = x]
      BY <1>3
    <2> QED BY <2>1, Aloof DEF Base, Heeded
  <1> QED BY <1>1, <1>2, <1>3

LEMMA Noticing ==
  ASSUME Base, \/ UNCHANGED hist \/ hist' = Spend
               \/ \E more : hist' = Noting(hist, more) \/ hist' = Noting(Spend, more)
               \/ \E more, faults : hist' = [Noting(hist, more) EXCEPT !.faults = faults]
  PROVE  Notes
  BY NotingFault, NotingNothing, NotingMore DEF Base

LEMMA ClicksArePlain ==
  ASSUME Base, NEW t, Clicks(t)
  PROVE  MildStep
  BY KeepingStill, Noticing, AtTheConsole DEF Clicks, Base, Heeded

LEMMA ReadsArePlain ==
  ASSUME Base, NEW n, NEW permission, NEW data, Reads(n, permission, data)
  PROVE  MildStep
  <1>1. UNCHANGED <<db, stripe, job>>
    BY Zenon DEF Reads
  <1>2. \/ UNCHANGED hist
        \/ \E more : hist' = Noting(hist, more)
        \/ \E more, faults : hist' = [Noting(hist, more) EXCEPT !.faults = faults]
    BY Zenon DEF Reads, With
  <1> QED BY <1>1, <1>2, KeepingStill, Noticing, AtTheConsole DEF Base, Heeded

LEMMA ShownIsPlain ==
  ASSUME Base, NEW n, NEW t, Shown(n, t)
  PROVE  MildStep
  <1>1. UNCHANGED <<db, stripe, job>> /\ \E more : hist' = Noting(hist, more)
    BY Zenon DEF Shown, With
  <1> QED BY <1>1, KeepingStill, Noticing, AtTheConsole DEF Base, Heeded

LEMMA StillIsPlain ==
  ASSUME Base, UNCHANGED <<db, stripe, job, hist>>
  PROVE  MildStep
  BY KeepingStill, Noticing, AtTheConsole DEF Base, Heeded

LEMMA ServePutIsPlain ==
  ASSUME Base, NEW n, ServePut(n)
  PROVE  MildStep
  <1>1. /\ UNCHANGED <<job, stripe>>
        /\ \/ UNCHANGED <<db, hist>>
           \/ \E s, all, more : hist' = Noting(hist, more) /\ db' = [db EXCEPT !.space[s].channels = all]
    BY Zenon DEF ServePut, Changes, Refuse, Crosses, With
  <1> QED BY <1>1, ServingKeeps, Noticing, AtTheConsole

LEMMA ServeRuleIsPlain ==
  ASSUME Base, NEW n, ServeRule(n)
  PROVE  MildStep
  <1>1. /\ UNCHANGED <<job, stripe>>
        /\ \/ UNCHANGED <<db, hist>>
           \/ \E s, all, more : hist' = Noting(hist, more) /\ db' = [db EXCEPT !.rules[s] = all]
    BY Zenon DEF ServeRule, Changes, Refuse, Crosses, With
  <1> QED BY <1>1, ServingKeeps, Noticing, AtTheConsole

LEMMA ServeSwitchIsPlain ==
  ASSUME Base, NEW n, ServeSwitch(n)
  PROVE  MildStep
  <1>1. /\ UNCHANGED <<job, stripe>> /\ hist' = Noting(hist, Crowded)
        /\ UNCHANGED db \/ \E u, s : RoleIn(u, s) # {} /\ db' = [db EXCEPT !.active[u] = s]
    BY Zenon DEF ServeSwitch, With
  <1>2. Notes /\ Crowded \subseteq hist'.lapses
    BY <1>1, NotingMore DEF Base
  <1>3. Keeping
    <2>1. CASE UNCHANGED db
      BY <2>1, KeepingStill DEF Base
    <2>2. ASSUME NEW u, NEW s, RoleIn(u, s) # {}, db' = [db EXCEPT !.active[u] = s] PROVE Keeping
      BY <2>2, Placing, Elsewhere DEF Base, DbFields, Keeping
    <2> QED BY <1>1, <2>1, <2>2
  <1> QED BY <1>1, <1>2, <1>3, AtTheConsole DEF Heeded

LEMMA ConsoleIsPlain ==
  ASSUME Base, ConsoleNext
  PROVE  MildStep
  <1>1. ASSUME NEW page, Visit(page) PROVE MildStep
    BY <1>1, KeepingStill, Noticing, AtTheConsole DEF Visit, Base, Heeded
  <1>2. ASSUME NEW s, ClickSwitch(s) PROVE MildStep
    BY <1>2, ClicksArePlain, Zenon DEF ClickSwitch
  <1>3. ASSUME NEW s, Fired(s) PROVE MildStep
    <2>1. UNCHANGED <<job, stripe>> /\ hist' = Spend /\ \E v : db' = [db EXCEPT !.rules[s] = v]
      BY <1>3, Zenon DEF Fired
    <2> QED BY <2>1, ServingKeeps, Noticing, AtTheConsole
  <1>4. ASSUME ClickRefresh PROVE MildStep
    BY <1>4, ClicksArePlain, Zenon DEF ClickRefresh
  <1>5. ASSUME ClickChannels PROVE MildStep
    BY <1>5, ClicksArePlain, Zenon DEF ClickChannels
  <1>6. ASSUME ClickRules PROVE MildStep
    BY <1>6, ClicksArePlain, Zenon DEF ClickRules
  <1>7. ASSUME NEW n, Sends(n) PROVE MildStep
    BY <1>7, StillIsPlain, Zenon DEF Sends
  <1>8. ASSUME NEW n, ServeSwitch(n) PROVE MildStep
    BY <1>8, ServeSwitchIsPlain
  <1>9. ASSUME NEW n, ServeMe(n) PROVE MildStep
    BY <1>9, StillIsPlain, Zenon DEF ServeMe
  <1>10. ASSUME NEW n, ServeChannels(n) PROVE MildStep
    BY <1>10, ReadsArePlain, Zenon DEF ServeChannels
  <1>11. ASSUME NEW n, ServeRules(n) PROVE MildStep
    BY <1>11, ReadsArePlain, Zenon DEF ServeRules
  <1>12. ASSUME NEW n, Switched(n) PROVE MildStep
    BY <1>12, StillIsPlain, Zenon DEF Switched
  <1>13. ASSUME NEW n, Refreshed(n) PROVE MildStep
    BY <1>13, StillIsPlain, Zenon DEF Refreshed
  <1>14. ASSUME NEW n, ReceiveChannels(n) PROVE MildStep
    BY <1>14, ShownIsPlain, Zenon DEF ReceiveChannels
  <1>15. ASSUME NEW n, ReceivePut(n) PROVE MildStep
    BY <1>15, StillIsPlain, Zenon DEF ReceivePut, Receives
  <1>16. ASSUME NEW n, ReceiveRules(n) PROVE MildStep
    BY <1>16, ShownIsPlain, Zenon DEF ReceiveRules
  <1>17. ASSUME NEW n, ReceiveRule(n) PROVE MildStep
    BY <1>17, StillIsPlain, Zenon DEF ReceiveRule, Receives
  <1> QED BY <1>1, <1>2, <1>3, <1>4, <1>5, <1>6, <1>7, <1>8, <1>9, <1>10, <1>11, <1>12, <1>13, <1>14,
             <1>15, <1>16, <1>17, ServePutIsPlain, ServeRuleIsPlain DEF ConsoleNext

(************************* what a plain step keeps *************************)
(* What a job's first step says of the rest.                               *)
LEMMA JobKinds ==
  ASSUME NEW s, Plain(s) \/ SeatJob(s) \/ BudgetJob(s)
  PROVE  /\ s = <<>> => Plain(s)
         /\ Plain(s) => ~BudgetJob(s) /\ ~SeatJob(s)
         /\ BudgetJob(s) => ~SeatJob(s) /\ s # <<>> /\ Head(s).do \in BudgetWork /\ Head(s) = s[1] /\ Tail(s) = <<>>
         /\ SeatJob(s) => s # <<>> /\ Head(s).do \in SeatWork
         /\ s # <<>> /\ Head(s).do \in BudgetWork => BudgetJob(s)
         /\ s # <<>> /\ Head(s).do \in SeatWork => SeatJob(s)
  <1>1. BudgetJob(s) => s # <<>> /\ Head(s).do \in BudgetWork /\ Head(s) = s[1] /\ Tail(s) = <<>>
    <2> SUFFICES ASSUME BudgetJob(s) PROVE s # <<>> /\ Head(s).do \in BudgetWork /\ Head(s) = s[1] /\ Tail(s) = <<>>
      OBVIOUS
    <2>1. s # <<>>
      BY DEF BudgetJob
    <2> QED BY <2>1, WorkOfRest DEF BudgetJob
  <1>2. SeatJob(s) => s # <<>> /\ Head(s).do \in SeatWork
    <2> SUFFICES ASSUME NEW i \in Invites, Seats(s, i) \/ Settles(s, i) PROVE s # <<>> /\ Head(s).do \in SeatWork
      BY DEF SeatJob
    <2>1. CASE Seats(s, i)
      <3>0. Len(s) = 2
        BY <2>1 DEF Seats
      <3>1. s # <<>>
        BY <3>0
      <3> QED BY <2>1, <3>1, WorkOfRest DEF Seats, SeatWork
    <2>2. CASE Settles(s, i)
      <3>1. PICK status : s = <<Settlement(i, status)>>
        BY <2>2 DEF Settles
      <3>2. s # <<>> /\ Head(s) = Settlement(i, status)
        BY <3>1, WorkOfOne
      <3> QED BY <3>2 DEF Settlement, SeatWork
    <2> QED BY <2>1, <2>2
  <1>3. Plain(s) => s = <<>> \/ Head(s).do \notin BudgetWork \cup SeatWork
    BY WorkOfRest DEF Plain
  <1>4. BudgetWork \cap SeatWork = {}
    BY DEF BudgetWork, SeatWork
  <1> QED BY <1>1, <1>2, <1>3, <1>4, WorkOfNone

LEMMA PlainKeepsBase ==
  ASSUME Base, PlainStep
  PROVE  Base'
  <1>1. JobsOK'
    BY DEF PlainStep, JobsMove, Base, JobsOK
  <1> QED BY <1>1 DEF PlainStep, Keeps, Notes, Base

(****************************** budgets ************************************)
Budget == [of : Spaces \cup {None}, on : BOOLEAN, at : SUBSET Thresholds, told : SUBSET Thresholds,
           started : Nat]
Busy(w) == job[w] # <<>>
OneAtATime == \A v, w \in Workers : Busy(v) /\ Busy(w) => v = w
Telling(t) == \E w \in Workers : Doing(w, "told") /\ This(w).at = t
Checks(w) ==        \* the budget a worker checks is the one that is kept
    /\ This(w).budget = db.budget /\ db.budget.of # None
    /\ This(w).do \in {"alert", "told"} => This(w).at \in db.budget.at \ db.budget.told
ToldOnce(t) ==
    /\ hist.sent[t] \in {0, 1}
    /\ hist.sent[t] = 1 /\ db.budget.of # None =>
         db.budget.started = db.period /\ (t \in db.budget.told \/ Telling(t))
BudgetInv == Barring({"failed", "overlap"}) =>
    /\ OneAtATime
    /\ db.budget \in Budget /\ db.period \in Nat
    /\ \A w \in Workers : BudgetJob(job[w]) => Checks(w)
    /\ \A t \in Thresholds : ToldOnce(t)
    /\ \A w \in Workers : Doing(w, "alert") /\ db.budget.started = db.period => hist.sent[This(w).at] = 0

BudgetAside ==
    /\ db'.budget = db.budget /\ db'.period = db.period /\ hist'.sent = hist.sent
    /\ hist.lapses \subseteq hist'.lapses
    /\ \A v \in Workers : job'[v] = job[v] \/ (~BudgetJob(job[v]) /\ ~BudgetJob(job'[v]))
    /\ \A v \in Workers : job'[v] # <<>> => job[v] # <<>> \/ Crowded \subseteq hist'.lapses
    /\ \A v, w \in Workers : v # w => job'[v] = job[v] \/ job'[w] = job[w]

LEMMA BudgetsUndisturbed ==
  ASSUME Base, Base', BudgetInv, BudgetAside
  PROVE  BudgetInv'
  <1> SUFFICES ASSUME Barring({"failed", "overlap"})' PROVE BudgetInv'
    BY DEF BudgetInv
  <1>1. /\ "overlap" \notin hist'.lapses
        /\ Barring({"failed", "overlap"})
    BY DEF Barring, BudgetAside
  <1>2. /\ OneAtATime /\ db.budget \in Budget /\ db.period \in Nat
        /\ \A w \in Workers : BudgetJob(job[w]) => Checks(w)
        /\ \A t \in Thresholds : ToldOnce(t)
        /\ \A w \in Workers : Doing(w, "alert") /\ db.budget.started = db.period => hist.sent[This(w).at] = 0
    BY <1>1 DEF BudgetInv
  <1>3. Crowded \subseteq hist'.lapses => \A v \in Workers : job[v] = <<>>
    BY <1>1 DEF Crowded, AllIdle, Idle
  <1> USE DEF BudgetAside
  <1>4. OneAtATime'
    <2> SUFFICES ASSUME NEW v \in Workers, NEW w \in Workers, job'[v] # <<>>, job'[w] # <<>>, v # w
                 PROVE FALSE
      BY DEF OneAtATime, Busy
    <2>1. job[v] = <<>> \/ job[w] = <<>>
      BY <1>2 DEF OneAtATime, Busy
    <2> QED BY <1>3, <2>1
  <1>5. \A w \in Workers : BudgetJob(job'[w]) => job'[w] = job[w] /\ BudgetJob(job[w])
    OBVIOUS
  <1>6. ASSUME NEW w \in Workers, NEW d \in BudgetWork, Doing(w, d)' PROVE job'[w] = job[w]
    BY <1>5, <1>6, JobKinds DEF Base, JobsOK, Doing, Idle
  <1>7. db'.budget \in Budget /\ db'.period \in Nat
    BY <1>2
  <1>8. ASSUME NEW w \in Workers, BudgetJob(job'[w]) PROVE Checks(w)'
    <2>1. job'[w] = job[w] /\ Checks(w)
      BY <1>2, <1>5, <1>8
    <2> QED BY <2>1 DEF Checks, This
  <1>9. ASSUME NEW t \in Thresholds PROVE ToldOnce(t)'
    <2>1. ToldOnce(t)
      BY <1>2
    <2>2. Telling(t) => Telling(t)'
      <3> SUFFICES ASSUME NEW w \in Workers, Doing(w, "told"), This(w).at = t PROVE Telling(t)'
        BY DEF Telling
      <3>1. BudgetJob(job[w])
        BY JobKinds DEF Base, JobsOK, Doing, Idle, BudgetWork
      <3>2. job'[w] = job[w]
        BY <3>1
      <3> QED BY <3>2 DEF Telling, Doing, Idle, This
    <2> QED BY <2>1, <2>2 DEF ToldOnce
  <1>10. ASSUME NEW w \in Workers, Doing(w, "alert")', db'.budget.started = db'.period
         PROVE  hist'.sent[This(w)'.at] = 0
    <2>1. job'[w] = job[w]
      BY <1>6, <1>10 DEF BudgetWork
    <2>2. Doing(w, "alert") /\ This(w)' = This(w)
      BY <1>10, <2>1 DEF Doing, Idle, This
    <2> QED BY <1>2, <1>10, <2>2
  <1> QED BY <1>4, <1>7, <1>8, <1>9, <1>10 DEF BudgetInv

LEMMA PlainIsAside ==
  ASSUME Base, PlainStep
  PROVE  BudgetAside
  BY JobKinds DEF PlainStep, JobsMove, Notes, Keeps, BudgetAside, Base, JobsOK

(******************************** seats ************************************)
Accepts(w, i) == job[w] = <<Settlement(i, "accepted")>>
SeatInv ==
    /\ \A w \in Workers, i \in Invites : Seats(job[w], i) \/ Settles(job[w], i) => db.invite[i].status # "unsent"
    /\ \A m \in db.member : m.from # None => m.from \in Invites
    /\ Barring({"failed", "stale"}) =>
         \A m \in db.member : m.from # None =>
           /\ db.invite[m.from].status = "accepted" \/ \E w \in Workers : Accepts(w, m.from)
           /\ \A x \in db.member : x.from = m.from => 
                \/ x = m
                \/ \E v, w \in Workers : v # w /\ Accepts(v, m.from) /\ Accepts(w, m.from)
                \/ db.invite[m.from].status # "pending" /\ \E w \in Workers : Accepts(w, m.from)

(************************** a check of the budget **************************)
Check(x) == x.do \in BudgetWork

LEMMA CheckJob ==
  ASSUME NEW x, Check(x)
  PROVE  BudgetJob(<<x>>) /\ Head(<<x>>) = x /\ <<x>> # <<>>
  BY WorkOfOne DEF BudgetJob, Check

(* A worker that checks the budget goes on to one step more, or to none.   *)
LEMMA Checking ==
  ASSUME Base, NEW w \in Workers, NEW d \in BudgetWork, Doing(w, d), NEW more, Proceed(w, more),
         more = <<>> \/ \E x : Check(x) /\ more = <<x>>
  PROVE  /\ BudgetJob(job[w]) /\ This(w).do = d /\ job[w] # <<>> /\ job' = [job EXCEPT ![w] = more]
         /\ JobsOK'
  <1>1. job[w] # <<>> /\ This(w).do = d
    BY DEF Doing, Idle, This
  <1>2. BudgetJob(job[w])
    BY <1>1, JobKinds DEF Base, JobsOK, This
  <1>3. Tail(job[w]) = <<>>
    BY <1>2, JobKinds DEF Base, JobsOK
  <1>4. more \o Tail(job[w]) = more
    <2>1. CASE more = <<>>
      BY <1>3, <2>1, WorkJoined, WorkOfNone
    <2>2. CASE more # <<>>
      <3>1. PICK x : Check(x) /\ more = <<x>>
        BY <2>2
      <3>2. <<x>> \in Seq({x})
        OBVIOUS
      <3> QED BY <1>3, <3>1, <3>2, ConcatEmptySeq
    <2> QED BY <2>1, <2>2
  <1>5. job' = [job EXCEPT ![w] = more]
    BY <1>4 DEF Proceed
  <1>6. Plain(more) \/ BudgetJob(more)
    BY CheckJob, WorkOfNone
  <1>7. JobsOK'
    BY <1>5, <1>6 DEF Base, JobsOK
  <1> QED BY <1>1, <1>2, <1>5, <1>7

(* While one worker checks the budget no other does anything.              *)
LEMMA OnlyOne ==
  ASSUME Base, BudgetInv, Barring({"failed", "overlap"})', hist.lapses \subseteq hist'.lapses,
         NEW w \in Workers, job[w] # <<>>, NEW more, job' = [job EXCEPT ![w] = more]
  PROVE  /\ \A v \in Workers \ {w} : job[v] = <<>> /\ job'[v] = <<>>
         /\ OneAtATime' /\ db.budget \in Budget /\ db.period \in Nat
         /\ BudgetJob(job[w]) => Checks(w)
         /\ \A t \in Thresholds : ToldOnce(t)
         /\ Doing(w, "alert") /\ db.budget.started = db.period => hist.sent[This(w).at] = 0
         /\ \A t : Telling(t) <=> Doing(w, "told") /\ This(w).at = t
         /\ job'[w] = more
  <1>1. Barring({"failed", "overlap"})
    BY DEF Barring
  <1>2. /\ OneAtATime /\ db.budget \in Budget /\ db.period \in Nat
        /\ \A v \in Workers : BudgetJob(job[v]) => Checks(v)
        /\ \A t \in Thresholds : ToldOnce(t)
        /\ \A v \in Workers : Doing(v, "alert") /\ db.budget.started = db.period => hist.sent[This(v).at] = 0
    BY <1>1 DEF BudgetInv
  <1>3. \A v \in Workers \ {w} : job[v] = <<>> /\ job'[v] = <<>>
    BY <1>2 DEF OneAtATime, Busy, Base, JobsOK
  <1>4. OneAtATime'
    BY <1>3 DEF OneAtATime, Busy
  <1>5. \A t : Telling(t) <=> Doing(w, "told") /\ This(w).at = t
    BY <1>3 DEF Telling, Doing, Idle
  <1>6. job'[w] = more
    BY DEF Base, JobsOK
  <1> QED BY <1>2, <1>3, <1>4, <1>5, <1>6

LEMMA AlertingIs ==
  ASSUME NEW b \in Budget, NEW spent
  PROVE  \/ Alerting(b, spent) = <<>>
         \/ \E t \in b.at \ b.told :
              Alerting(b, spent) = <<[do |-> "alert", budget |-> b, at |-> t, spent |-> spent]>>
  <1>1. Due(b, spent) \subseteq b.at \ b.told /\ b.at \subseteq Nat
    BY DocumentsOK DEF Due, Budget
  <1>2. CASE Due(b, spent) = {}
    BY <1>2 DEF Alerting
  <1>3. CASE Due(b, spent) # {}
    <2>1. Least(Due(b, spent)) \in b.at \ b.told
      BY <1>1, <1>3, LeastIsIn
    <2> QED BY <1>3, <2>1, Zenon DEF Alerting
  <1> QED BY <1>2, <1>3

(* The budget's invariant after a step of the worker that checks it.       *)
LEMMA Concluding ==
  ASSUME NEW w \in Workers, \A v \in Workers \ {w} : job'[v] = <<>>, OneAtATime',
         db'.budget \in Budget, db'.period \in Nat, 
         job'[w] # <<>> => Checks(w)',
         \A t \in Thresholds : ToldOnce(t)',
         Doing(w, "alert")' /\ db'.budget.started = db'.period => hist'.sent[This(w)'.at] = 0
  PROVE  BudgetInv'
  <1>1. ASSUME NEW v \in Workers, BudgetJob(job'[v]) PROVE Checks(v)'
    BY <1>1, JobKinds
  <1>2. \A v \in Workers : Doing(v, "alert")' => v = w
    BY DEF Doing, Idle
  <1> QED BY <1>1, <1>2 DEF BudgetInv

LEMMA SentKept ==
  ASSUME HistOK, Clean
  PROVE  HistOK' /\ hist'.sent = hist.sent /\ hist'.lapses = hist.lapses
  BY DEF HistOK, Clean

LEMMA BudgetKeeps ==
  ASSUME DbOK, NEW b, db' = [db EXCEPT !.budget = b]
  PROVE  /\ DbOK' /\ db'.budget = b /\ db'.period = db.period
         /\ db'.invite = db.invite /\ db'.member = db.member
  BY DEF DbOK, DbFields

(* A check is made by the one worker that is busy, and of the kept budget. *)
SeatsAside ==
    /\ hist.lapses \subseteq hist'.lapses /\ db'.member \subseteq db.member
    /\ \A i \in Invites : db'.invite[i].status = db.invite[i].status
    /\ \A v \in Workers : job'[v] = job[v] \/ (~SeatJob(job[v]) /\ ~SeatJob(job'[v]))
Checked == Base' /\ BudgetInv' /\ SeatsAside

LEMMA CheckIsAside ==
  ASSUME Base, NEW w \in Workers, NEW more, BudgetJob(job[w]) \/ job[w] = <<>>, 
         job' = [job EXCEPT ![w] = more], more = <<>> \/ \E x : Check(x) /\ more = <<x>>,
         hist.lapses \subseteq hist'.lapses, db'.member = db.member, db'.invite = db.invite
  PROVE  SeatsAside
  <1>1. ~SeatJob(job[w]) /\ ~SeatJob(more)
    <2>1. ~SeatJob(job[w])
      BY JobKinds DEF Base, JobsOK
    <2>2. ~SeatJob(more)
      BY JobKinds, CheckJob, WorkOfNone
    <2> QED BY <2>1, <2>2
  <1> QED BY <1>1 DEF SeatsAside, Base, JobsOK

LEMMA StartsChecking ==
  ASSUME Base, BudgetInv, NEW w \in Workers, NEW u, CheckBudgets(w, u)
  PROVE  Checked
  <1> DEFINE x == [do |-> "period", budget |-> db.budget]
  <1>1. PICK s \in Spaces : db.budget.of = s /\ Begin(w, <<x>>) /\ UNCHANGED <<db, stripe>>
    BY Zenon DEF CheckBudgets, Live
  <1>2. Check(x) /\ x.do = "period" /\ x.budget = db.budget
    BY DEF Check, BudgetWork
  <1> HIDE DEF x
  <1>3. Notes /\ hist'.lapses = hist.lapses \cup Crowded
    BY <1>1, NotingMore DEF Base, Begin
  <1>4. job[w] = <<>> /\ job' = [job EXCEPT ![w] = <<x>>]
    BY <1>1 DEF Begin, Idle
  <1>5. JobsOK'
    BY <1>2, <1>4, CheckJob DEF Base, JobsOK
  <1>6. Base'
    BY <1>1, <1>3, <1>5, KeepingAll, StripeSame DEF Base, Notes, Keeps
  <1>7. SeatsAside
    BY <1>1, <1>2, <1>3, <1>4, CheckIsAside
  <1>8. BudgetInv'
    <2> SUFFICES ASSUME Barring({"failed", "overlap"})' PROVE BudgetInv'
      BY DEF BudgetInv
    <2>1. Barring({"failed", "overlap"}) /\ AllIdle
      BY <1>3 DEF Barring, Crowded
    <2>2. \A v \in Workers \ {w} : job'[v] = <<>>
      BY <1>4, <2>1 DEF AllIdle, Idle, Base, JobsOK
    <2>3. job'[w] = <<x>> /\ This(w)' = x
      BY <1>2, <1>4, CheckJob DEF Base, JobsOK, This
    <2>4. OneAtATime'
      BY <2>2 DEF OneAtATime, Busy
    <2>5. Checks(w)'
      BY <1>1, <1>2, <2>3, DocumentsOK DEF Checks, None
    <2>6. db'.budget \in Budget /\ db'.period \in Nat /\ \A t \in Thresholds : ToldOnce(t)
      BY <1>1, <2>1 DEF BudgetInv
    <2>7. \A t \in Thresholds : ToldOnce(t)'
      <3>1. \A t : ~Telling(t)
        BY <2>1 DEF Telling, Doing, AllIdle
      <3> QED BY <1>1, <1>3, <2>6, <3>1 DEF ToldOnce, Notes
    <2>8. ~Doing(w, "alert")'
      BY <1>2, <2>3 DEF Doing, This
    <2> QED BY <2>2, <2>4, <2>5, <2>6, <2>7, <2>8, Concluding
  <1> QED BY <1>6, <1>7, <1>8 DEF Checked

LEMMA RollsPeriod ==
  ASSUME Base, BudgetInv, NEW w \in Workers, RollPeriod(w)
  PROVE  Checked
  <1> DEFINE b    == This(w).budget
             rolls == db.period > b.started
             anew == IF rolls THEN [b EXCEPT !.told = {}, !.started = db.period] ELSE b
             x    == [do |-> "spend", budget |-> anew]
  <1>1. Doing(w, "period") /\ Clean /\ UNCHANGED stripe
    BY Zenon DEF RollPeriod
  <1>2. Proceed(w, <<x>>)
    BY Zenon DEF RollPeriod
  <1>3. rolls => db' = IF db.budget.of = None THEN db
                       ELSE [db EXCEPT !.budget.told = {}, !.budget.started = db.period]
    BY Zenon DEF RollPeriod
  <1>4. ~rolls => UNCHANGED db
    BY Zenon DEF RollPeriod
  <1>5. Check(x) /\ x.do = "spend" /\ x.budget = anew
    BY DEF Check, BudgetWork
  <1> HIDE DEF x
  <1>6. /\ BudgetJob(job[w]) /\ This(w).do = "period" /\ job[w] # <<>> /\ job' = [job EXCEPT ![w] = <<x>>]
        /\ JobsOK'
    BY <1>1, <1>2, <1>5, Checking DEF BudgetWork
  <1>7. HistOK' /\ hist'.sent = hist.sent /\ hist'.lapses = hist.lapses
    BY <1>1, SentKept DEF Base
  <1>8. /\ DbOK' /\ db'.period = db.period /\ db'.invite = db.invite /\ db'.member = db.member
        /\ \/ UNCHANGED db 
           \/ rolls /\ db.budget.of # None /\ db'.budget = [db.budget EXCEPT !.told = {}, !.started = db.period]
    <2>1. CASE rolls /\ db.budget.of # None
      <3>1. db' = [db EXCEPT !.budget = [db.budget EXCEPT !.told = {}, !.started = db.period]]
        BY <1>3, <2>1 DEF Base, DbOK, DbFields
      <3> QED BY <2>1, <3>1, BudgetKeeps DEF Base
    <2>2. CASE UNCHANGED db
      BY <2>2 DEF Base, DbOK
    <2> QED BY <1>3, <1>4, <2>1, <2>2
  <1>9. Base'
    BY <1>1, <1>6, <1>7, <1>8, StripeSame DEF Base
  <1>10. SeatsAside
    BY <1>5, <1>6, <1>7, <1>8, CheckIsAside
  <1>11. BudgetInv'
    <2> SUFFICES ASSUME Barring({"failed", "overlap"})' PROVE BudgetInv'
      BY DEF BudgetInv
    <2>1. /\ \A v \in Workers \ {w} : job[v] = <<>> /\ job'[v] = <<>>
          /\ OneAtATime' /\ db.budget \in Budget /\ db.period \in Nat
          /\ Checks(w) /\ \A t \in Thresholds : ToldOnce(t)
          /\ \A t : Telling(t) <=> Doing(w, "told") /\ This(w).at = t
          /\ job'[w] = <<x>>
      BY <1>6, <1>7, OnlyOne
    <2>2. This(w)' = x
      BY <1>5, <2>1, CheckJob DEF This
    <2>3. b = db.budget /\ db.budget.of # None /\ \A t : ~Telling(t)
      BY <1>6, <2>1 DEF Checks, Doing, This
    <2>4. anew = db'.budget /\ db'.budget \in Budget /\ db'.budget.of # None
      <3>1. CASE rolls
        <4>1. anew = [db.budget EXCEPT !.told = {}, !.started = db.period] 
          BY <2>3, <3>1
        <4>2. db' = [db EXCEPT !.budget.told = {}, !.budget.started = db.period]
          BY <1>3, <2>3, <3>1
        <4>3. db'.budget = [db.budget EXCEPT !.told = {}, !.started = db.period]
          BY <4>2 DEF Base, DbOK, DbFields
        <4> QED BY <2>1, <2>3, <4>1, <4>3 DEF Budget
      <3>2. CASE ~rolls
        BY <1>4, <2>1, <2>3, <3>2
      <3> QED BY <3>1, <3>2
    <2>5. Checks(w)'
      BY <1>5, <2>2, <2>4 DEF Checks
    <2>6. ASSUME NEW t \in Thresholds PROVE ToldOnce(t)'
      <3>1. ToldOnce(t)
        BY <2>1
      <3>2. CASE UNCHANGED db
        BY <1>7, <2>3, <3>1, <3>2 DEF ToldOnce
      <3>3. CASE rolls
        <4>1. hist.sent[t] = 0
          BY <2>1, <2>3, <3>1, <3>3 DEF ToldOnce, Budget
        <4> QED BY <1>7, <4>1 DEF ToldOnce
      <3> QED BY <1>8, <3>2, <3>3
    <2>7. ~Doing(w, "alert")'
      BY <1>5, <2>2 DEF Doing, This
    <2> QED BY <1>8, <2>1, <2>4, <2>5, <2>6, <2>7, Concluding
  <1> QED BY <1>9, <1>10, <1>11 DEF Checked

LEMMA ReadsSpend ==
  ASSUME Base, BudgetInv, NEW w \in Workers, ReadSpend(w)
  PROVE  Checked
  <1> DEFINE b == This(w).budget
  <1>1. Doing(w, "spend") /\ Clean /\ UNCHANGED <<db, stripe>>
    BY Zenon DEF ReadSpend
  <1>2. PICK spent : Proceed(w, Alerting(b, spent))
    BY Zenon DEF ReadSpend
  <1> DEFINE more == Alerting(b, spent)
  <1>3. \/ more = <<>> 
        \/ more = <<[do |-> "alert", budget |-> b, at |-> Least(Due(b, spent)), spent |-> spent]>>
    BY Zenon DEF Alerting
  <1>4. more = <<>> \/ \E x : Check(x) /\ more = <<x>>
    BY <1>3 DEF Check, BudgetWork
  <1> HIDE DEF more
  <1>6. /\ BudgetJob(job[w]) /\ This(w).do = "spend" /\ job[w] # <<>> /\ job' = [job EXCEPT ![w] = more]
        /\ JobsOK'
    BY <1>1, <1>2, <1>4, Checking DEF BudgetWork, more
  <1>7. HistOK' /\ hist'.sent = hist.sent /\ hist'.lapses = hist.lapses
    BY <1>1, SentKept DEF Base
  <1>9. Base'
    BY <1>1, <1>6, <1>7, StripeSame, KeepingAll DEF Base, Keeps
  <1>10. SeatsAside
    BY <1>1, <1>4, <1>6, <1>7, CheckIsAside
  <1>11. BudgetInv'
    <2> SUFFICES ASSUME Barring({"failed", "overlap"})' PROVE BudgetInv'
      BY DEF BudgetInv
    <2>1. /\ \A v \in Workers \ {w} : job[v] = <<>> /\ job'[v] = <<>>
          /\ OneAtATime' /\ db.budget \in Budget /\ db.period \in Nat
          /\ Checks(w) /\ \A t \in Thresholds : ToldOnce(t)
          /\ \A t : Telling(t) <=> Doing(w, "told") /\ This(w).at = t
          /\ job'[w] = more
      BY <1>6, <1>7, OnlyOne
    <2>3. b = db.budget /\ db.budget.of # None /\ \A t : ~Telling(t)
      BY <1>6, <2>1 DEF Checks, Doing, This
    <2>6. \A t \in Thresholds : ToldOnce(t)'
      BY <1>1, <1>7, <2>1, <2>3 DEF ToldOnce
    <2>7. CASE more = <<>>
      BY <1>1, <2>1, <2>6, <2>7, Concluding DEF Doing, Idle
    <2>8. CASE more # <<>>
      <3>1. PICK t \in db.budget.at \ db.budget.told :
              more = <<[do |-> "alert", budget |-> db.budget, at |-> t, spent |-> spent]>>
        BY <2>1, <2>3, <2>8, AlertingIs DEF more
      <3>2. This(w)' = [do |-> "alert", budget |-> db.budget, at |-> t, spent |-> spent]
        BY <2>1, <3>1, WorkOfOne DEF This
      <3>3. Checks(w)'
        BY <1>1, <2>3, <3>2 DEF Checks
      <3>4. t \in Thresholds /\ hist.sent[t] \in {0, 1}
        BY <2>1 DEF Budget, ToldOnce
      <3>5. db.budget.started = db.period => hist.sent[t] = 0
        BY <2>1, <2>3, <3>4 DEF ToldOnce
      <3>6. db'.budget.started = db'.period => hist'.sent[This(w)'.at] = 0
        BY <1>1, <1>7, <3>2, <3>5
      <3> QED BY <1>1, <2>1, <2>6, <3>3, <3>6, Concluding
    <2> QED BY <2>7, <2>8
  <1> QED BY <1>9, <1>10, <1>11 DEF Checked

(*************** the steps of a check, and the budget's edits **************)
LEMMA SendsAlert ==
  ASSUME Base, BudgetInv, NEW w \in Workers, SendAlert(w)
  PROVE  Checked
  <1> DEFINE p == This(w)
             x == [do |-> "told", budget |-> p.budget, at |-> p.at, spent |-> p.spent]
  <1>1. /\ Doing(w, "alert") /\ UNCHANGED <<db, stripe>> /\ Proceed(w, <<x>>)
        /\ hist' = IF p.budget.started = db.period THEN [hist EXCEPT !.sent[p.at] = @ + 1] ELSE hist
    BY Zenon DEF SendAlert
  <1>2. Check(x) /\ x.do = "told" /\ x.budget = p.budget /\ x.at = p.at
    BY DEF Check, BudgetWork
  <1> HIDE DEF x
  <1>3. /\ BudgetJob(job[w]) /\ This(w).do = "alert" /\ job[w] # <<>> /\ job' = [job EXCEPT ![w] = <<x>>]
        /\ JobsOK'
    BY <1>1, <1>2, Checking DEF BudgetWork
  <1>4. /\ HistOK' /\ hist'.lapses = hist.lapses
        /\ \A t \in Thresholds : hist'.sent[t] = IF t = p.at /\ p.budget.started = db.period
                                                 THEN hist.sent[t] + 1 ELSE hist.sent[t]
    <2>1. CASE p.budget.started = db.period
      <3>1. hist' = [hist EXCEPT !.sent[p.at] = @ + 1]
        BY <1>1, <2>1
      <3> HIDE DEF p
      <3>2. hist'.sent = [hist.sent EXCEPT ![p.at] = @ + 1] /\ hist'.lapses = hist.lapses /\ DOMAIN hist' = HistFields
        BY <3>1 DEF Base, HistOK, HistFields
      <3>3. hist.sent \in [Thresholds -> Nat]
        BY DEF Base, HistOK
      <3>4. HistOK'
        <4>1. hist'.sent = [t \in Thresholds |-> IF t = p.at THEN hist.sent[t] + 1 ELSE hist.sent[t]]
          BY <3>2, <3>3
        <4>2. hist'.sent \in [Thresholds -> Nat]
          BY <3>3, <4>1
        <4> QED BY <3>2, <4>2 DEF HistOK
      <3>5. \A t \in Thresholds : hist'.sent[t] = IF t = p.at THEN hist.sent[t] + 1 ELSE hist.sent[t]
        BY <3>2, <3>3
      <3> QED BY <2>1, <3>2, <3>4, <3>5 DEF p
    <2>2. CASE p.budget.started # db.period
      BY <1>1, <2>2 DEF Base, HistOK
    <2> QED BY <2>1, <2>2
  <1>5. Base'
    BY <1>1, <1>3, <1>4, StripeSame, KeepingAll DEF Base, Keeps
  <1>6. SeatsAside
    BY <1>1, <1>2, <1>3, <1>4, CheckIsAside
  <1>7. BudgetInv'
    <2> SUFFICES ASSUME Barring({"failed", "overlap"})' PROVE BudgetInv'
      BY DEF BudgetInv
    <2>1. /\ \A v \in Workers \ {w} : job[v] = <<>> /\ job'[v] = <<>>
          /\ OneAtATime' /\ db.budget \in Budget /\ db.period \in Nat
          /\ Checks(w) /\ \A t \in Thresholds : ToldOnce(t)
          /\ \A t : Telling(t) <=> Doing(w, "told") /\ This(w).at = t
          /\ db.budget.started = db.period => hist.sent[This(w).at] = 0
          /\ job'[w] = <<x>>
      BY <1>1, <1>3, <1>4, OnlyOne
    <2>2. p.budget = db.budget /\ db.budget.of # None /\ p.at \in db.budget.at \ db.budget.told
          /\ \A t : ~Telling(t)
      BY <1>3, <2>1 DEF Checks, Doing, This
    <2>3. This(w)' = x
      BY <1>2, <2>1, CheckJob DEF This
    <2>4. Checks(w)'
      BY <1>1, <1>2, <2>2, <2>3 DEF Checks
    <2>5. ASSUME NEW t, t = p.at PROVE Telling(t)'
      <3>1. Doing(w, "told")'
        BY <1>2, <2>1, <2>3, CheckJob DEF Doing, Idle, This
      <3> QED BY <1>2, <2>3, <2>5, <3>1 DEF Telling
    <2>6. ASSUME NEW t \in Thresholds PROVE ToldOnce(t)'
      <3>1. ToldOnce(t)
        BY <2>1
      <3>2. CASE t = p.at /\ p.budget.started = db.period
        <4>1. hist'.sent[t] = 1
          BY <1>4, <2>1, <2>2, <3>2
        <4> QED BY <1>1, <2>2, <2>5, <3>2, <4>1 DEF ToldOnce
      <3>3. CASE ~(t = p.at /\ p.budget.started = db.period)
        <4>1. hist'.sent[t] = hist.sent[t]
          BY <1>4, <3>3
        <4> QED BY <1>1, <2>2, <3>1, <4>1 DEF ToldOnce
      <3> QED BY <3>2, <3>3
    <2>7. ~Doing(w, "alert")'
      BY <1>2, <2>3 DEF Doing, This
    <2> QED BY <1>1, <2>1, <2>4, <2>6, <2>7, Concluding
  <1> QED BY <1>5, <1>6, <1>7 DEF Checked

LEMMA MarksTold ==
  ASSUME Base, BudgetInv, NEW w \in Workers, MarkTold(w)
  PROVE  Checked
  <1> DEFINE p == This(w)
             b == [p.budget EXCEPT !.told = @ \cup {p.at}]
             more == Alerting(b, p.spent)
  <1>1. /\ Doing(w, "told") /\ Clean /\ UNCHANGED stripe /\ Proceed(w, more)
    BY Zenon DEF MarkTold
  <1>2. db' = IF db.budget.of = None THEN db ELSE [db EXCEPT !.budget.told = @ \cup {p.at}]
    BY Zenon DEF MarkTold
  <1>3. \/ more = <<>> 
        \/ more = <<[do |-> "alert", budget |-> b, at |-> Least(Due(b, p.spent)), spent |-> p.spent]>>
    BY Zenon DEF Alerting
  <1> HIDE DEF b
  <1>4. more = <<>> \/ \E x : Check(x) /\ more = <<x>>
    BY <1>3 DEF Check, BudgetWork
  <1> HIDE DEF more
  <1>6. /\ BudgetJob(job[w]) /\ This(w).do = "told" /\ job[w] # <<>> /\ job' = [job EXCEPT ![w] = more]
        /\ JobsOK'
    BY <1>1, <1>4, Checking DEF BudgetWork, more
  <1>7. HistOK' /\ hist'.sent = hist.sent /\ hist'.lapses = hist.lapses
    BY <1>1, SentKept DEF Base
  <1>8. /\ DbOK' /\ db'.period = db.period /\ db'.invite = db.invite /\ db'.member = db.member
        /\ \/ UNCHANGED db /\ db.budget.of = None
           \/ db.budget.of # None /\ db'.budget = [db.budget EXCEPT !.told = @ \cup {p.at}]
    <2> HIDE DEF p
    <2>1. CASE db.budget.of # None
      <3>1. db' = [db EXCEPT !.budget = [db.budget EXCEPT !.told = @ \cup {p.at}]]
        BY <1>2, <2>1 DEF Base, DbOK, DbFields
      <3> QED BY <2>1, <3>1, BudgetKeeps DEF Base
    <2>2. CASE db.budget.of = None
      BY <1>2, <2>2 DEF Base, DbOK
    <2> QED BY <2>1, <2>2
  <1>9. Base'
    BY <1>1, <1>6, <1>7, <1>8, StripeSame DEF Base
  <1>10. SeatsAside
    BY <1>4, <1>6, <1>7, <1>8, CheckIsAside
  <1>11. BudgetInv'
    <2> SUFFICES ASSUME Barring({"failed", "overlap"})' PROVE BudgetInv'
      BY DEF BudgetInv
    <2>1. /\ \A v \in Workers \ {w} : job[v] = <<>> /\ job'[v] = <<>>
          /\ OneAtATime' /\ db.budget \in Budget /\ db.period \in Nat
          /\ Checks(w) /\ \A t \in Thresholds : ToldOnce(t)
          /\ \A t : Telling(t) <=> Doing(w, "told") /\ This(w).at = t
          /\ job'[w] = more
      BY <1>6, <1>7, OnlyOne
    <2>2. p.budget = db.budget /\ db.budget.of # None /\ p.at \in db.budget.at /\ \A t : Telling(t) <=> p.at = t
      BY <1>1, <1>6, <2>1 DEF Checks
    <2>3. b = db'.budget
      BY <1>8, <2>2 DEF b
    <2>4. /\ db'.budget \in Budget /\ db'.budget.of = db.budget.of /\ db'.budget.started = db.budget.started
          /\ db'.budget.told = db.budget.told \cup {p.at}
      <3>1. p.at \in Thresholds
        BY <2>1, <2>2 DEF Budget
      <3> HIDE DEF p
      <3> QED BY <1>8, <2>1, <2>2, <3>1 DEF Budget
    <2>6. ASSUME NEW t \in Thresholds PROVE ToldOnce(t)' /\
             (hist.sent[t] = 1 => db.budget.started = db.period /\ t \in db'.budget.told)
      <3>1. ToldOnce(t) /\ (Telling(t) <=> p.at = t)
        BY <2>1, <2>2
      <3> HIDE DEF p
      <3> QED BY <1>7, <1>8, <2>2, <2>4, <3>1 DEF ToldOnce
    <2>7. CASE more = <<>>
      BY <1>8, <2>1, <2>4, <2>6, <2>7, Concluding DEF Doing, Idle
    <2>8. CASE more # <<>>
      <3>1. PICK t \in b.at \ b.told :
              more = <<[do |-> "alert", budget |-> b, at |-> t, spent |-> p.spent]>>
        BY <2>3, <2>4, <2>8, AlertingIs DEF more
      <3>2. This(w)' = [do |-> "alert", budget |-> b, at |-> t, spent |-> p.spent]
        BY <2>1, <3>1, WorkOfOne DEF This
      <3>3. This(w)'.do = "alert" /\ This(w)'.budget = b /\ This(w)'.at = t
        BY <3>2
      <3>4. Checks(w)'
        BY <2>2, <2>3, <2>4, <3>1, <3>3 DEF Checks
      <3>5. t \in Thresholds /\ hist'.sent[t] \in {0, 1}
        BY <2>3, <2>4, <2>6, <3>1 DEF Budget, ToldOnce
      <3>6. hist'.sent[t] = 0
        BY <1>7, <2>3, <2>6, <3>1, <3>5
      <3> QED BY <1>8, <2>1, <2>4, <2>6, <3>3, <3>4, <3>6, Concluding
    <2> QED BY <2>7, <2>8
  <1> QED BY <1>9, <1>10, <1>11 DEF Checked

(* The budget is edited: that is an overlap unless every worker is idle.   *)
LEMMA Edited ==
  ASSUME Base, BudgetInv, UNCHANGED <<job, stripe>>, HistOK', hist'.lapses = hist.lapses \cup Crowded,
         NEW b, db' = [db EXCEPT !.budget = b],
         db.budget \in Budget /\ db.period \in Nat => b \in Budget,
         db.budget \in Budget => \A t \in Thresholds :
            \/ hist'.sent[t] = 0
            \/ hist'.sent[t] = hist.sent[t]
               /\ (b.of = None \/ (b.of = db.budget.of /\ b.told = db.budget.told /\ b.started = db.budget.started))
  PROVE  Checked
  <1>1. DbOK' /\ db'.budget = b /\ db'.period = db.period /\ db'.invite = db.invite /\ db'.member = db.member
    BY BudgetKeeps DEF Base
  <1>2. Base'
    BY <1>1, StripeSame DEF Base, JobsOK
  <1>3. SeatsAside
    BY <1>1 DEF SeatsAside
  <1>4. BudgetInv'
    <2> SUFFICES ASSUME Barring({"failed", "overlap"})' PROVE BudgetInv'
      BY DEF BudgetInv
    <2>1. Barring({"failed", "overlap"}) /\ AllIdle
      BY DEF Barring, Crowded
    <2>2. \A v \in Workers : job'[v] = <<>>
      BY <2>1 DEF AllIdle, Idle, Base, JobsOK
    <2>3. db.budget \in Budget /\ db.period \in Nat /\ \A t \in Thresholds : ToldOnce(t) /\ ~Telling(t)
      BY <2>1 DEF BudgetInv, Telling, Doing, AllIdle
    <2>4. \A t \in Thresholds : ToldOnce(t)'
      BY <1>1, <2>3 DEF ToldOnce
    <2>5. \A v \in Workers : ~BudgetJob(job'[v]) /\ ~Doing(v, "alert")'
      BY <2>2, WorkOfNone, JobKinds DEF Doing, Idle
    <2>6. OneAtATime'
      BY <2>2 DEF OneAtATime, Busy
    <2> QED BY <1>1, <2>3, <2>4, <2>5, <2>6 DEF BudgetInv
  <1> QED BY <1>2, <1>3, <1>4 DEF Checked

LEMMA CreatesBudget ==
  ASSUME Base, BudgetInv, NEW u, CreateBudget(u)
  PROVE  Checked
  <1>1. PICK s \in Spaces :
          /\ db' = [db EXCEPT !.budget = [of |-> s, on |-> TRUE, at |-> Thresholds, told |-> {},
                                          started |-> db.period]]
          /\ hist' = [Noting(Spend, Crowded) EXCEPT !.sent = [t \in Thresholds |-> 0]]
          /\ UNCHANGED <<job, stripe>>
    BY Zenon DEF CreateBudget, Live
  <1>2. HistOK' /\ hist'.lapses = hist.lapses \cup Crowded /\ \A t \in Thresholds : hist'.sent[t] = 0
    BY <1>1 DEF Base, HistOK, HistFields, Noting, Spend
  <1> DEFINE b == [of |-> s, on |-> TRUE, at |-> Thresholds, told |-> {}, started |-> db.period]
  <1>3. db.period \in Nat => b \in Budget
    <2>1. TRUE \in BOOLEAN /\ s \in Spaces \cup {None} /\ Thresholds \in SUBSET Thresholds /\ {} \in SUBSET Thresholds
      OBVIOUS
    <2> QED BY <2>1, Zenon DEF Budget
  <1> HIDE DEF b
  <1>4. db' = [db EXCEPT !.budget = b]
    BY <1>1 DEF b
  <1> QED BY <1>1, <1>2, <1>3, <1>4, Edited

LEMMA PatchesBudget ==
  ASSUME Base, BudgetInv, NEW u, NEW at \in SUBSET Thresholds, NEW on \in BOOLEAN, PatchBudget(u, at, on)
  PROVE  Checked
  <1>1. AtOnce /\ db' = [db EXCEPT !.budget.at = at, !.budget.on = on] /\ UNCHANGED stripe
    BY Zenon DEF PatchBudget
  <1>2. Notes /\ hist'.lapses = hist.lapses \cup Crowded /\ UNCHANGED job
    BY <1>1, NotingMore DEF Base, AtOnce
  <1> DEFINE b == [db.budget EXCEPT !.at = at, !.on = on]
  <1>3. db' = [db EXCEPT !.budget = b]
    BY <1>1 DEF Base, DbOK, DbFields
  <1>4. db.budget \in Budget =>
           b \in Budget /\ b.of = db.budget.of /\ b.told = db.budget.told /\ b.started = db.budget.started
    BY DEF Budget
  <1> HIDE DEF b
  <1> QED BY <1>1, <1>2, <1>3, <1>4, Edited DEF Notes

LEMMA DeletesBudget ==
  ASSUME Base, BudgetInv, NEW u, DeleteBudget(u)
  PROVE  Checked
  <1>1. AtOnce /\ db' = [db EXCEPT !.budget = NoBudget] /\ UNCHANGED stripe
    BY Zenon DEF DeleteBudget
  <1>2. Notes /\ hist'.lapses = hist.lapses \cup Crowded /\ UNCHANGED job
    BY <1>1, NotingMore DEF Base, AtOnce
  <1>3. NoBudget \in Budget /\ NoBudget.of = None
    <2>1. FALSE \in BOOLEAN /\ None \in Spaces \cup {None} /\ {} \in SUBSET Thresholds /\ 0 \in Nat
      OBVIOUS
    <2>2. NoBudget \in Budget
      BY <2>1, Zenon DEF Budget, NoBudget
    <2> QED BY <2>2 DEF NoBudget
  <1>4. HistOK' /\ \A t \in Thresholds : hist'.sent[t] = hist.sent[t]
    BY <1>2 DEF Notes
  <1>5. PICK b : db' = [db EXCEPT !.budget = b] /\ b \in Budget /\ b.of = None
    BY <1>1, <1>3, Zenon
  <1>6. hist'.lapses = hist.lapses \cup Crowded /\ UNCHANGED <<job, stripe>>
    BY <1>1, <1>2
  <1> QED BY <1>4, <1>5, <1>6, Edited

LEMMA BeginsPeriod ==
  ASSUME Base, BudgetInv, NewPeriod
  PROVE  Checked
  <1>1. /\ hist' = [Spend EXCEPT !.sent = [t \in Thresholds |-> 0]] /\ UNCHANGED <<job, stripe>>
        /\ db' = [db EXCEPT !.period = @ + 1, !.spent = 0, !.before = db.spent]
    BY Zenon DEF NewPeriod
  <1>2. HistOK' /\ hist'.lapses = hist.lapses /\ \A t \in Thresholds : hist'.sent[t] = 0
    BY <1>1 DEF Base, HistOK, HistFields, Spend
  <1>3. /\ DbOK' /\ db'.budget = db.budget /\ db'.period = db.period + 1
        /\ db'.invite = db.invite /\ db'.member = db.member
    BY <1>1 DEF Base, DbOK, DbFields
  <1>4. Base'
    BY <1>1, <1>2, <1>3, StripeSame DEF Base, JobsOK
  <1>5. SeatsAside
    BY <1>1, <1>2, <1>3 DEF SeatsAside
  <1>6. BudgetInv'
    <2> SUFFICES ASSUME Barring({"failed", "overlap"})' PROVE BudgetInv'
      BY DEF BudgetInv
    <2>1. Barring({"failed", "overlap"})
      BY <1>2 DEF Barring
    <2>2. OneAtATime' /\ db'.budget \in Budget /\ db'.period \in Nat
      BY <1>1, <1>3, <2>1 DEF BudgetInv, OneAtATime, Busy
    <2>3. \A w \in Workers : BudgetJob(job'[w]) => Checks(w)'
      BY <1>1, <1>3, <2>1 DEF BudgetInv, Checks, This
    <2>4. \A t \in Thresholds : ToldOnce(t)'
      BY <1>2 DEF ToldOnce
    <2>5. ASSUME NEW w \in Workers, Doing(w, "alert")' PROVE hist'.sent[This(w)'.at] = 0
      <3>1. BudgetJob(job'[w])
        BY <1>4, <2>5, JobKinds DEF Base, JobsOK, Doing, Idle, BudgetWork
      <3>2. Checks(w)' /\ This(w)'.do = "alert"
        BY <2>3, <2>5, <3>1 DEF Doing, This
      <3>3. This(w)'.at \in Thresholds
        BY <2>2, <3>2 DEF Checks, Budget
      <3> QED BY <1>2, <3>3
    <2> QED BY <2>2, <2>3, <2>4, <2>5 DEF BudgetInv
  <1> QED BY <1>4, <1>5, <1>6 DEF Checked

(************************ an answer to an invitation ***********************)
LEMMA SeatKinds ==
  ASSUME NEW s, NEW i
  PROVE  /\ Seats(s, i) => s # <<>> /\ Head(s) = s[1] /\ Head(s).do = "seat" /\ Tail(s) = <<Settlement(i, "accepted")>>
         /\ Settles(s, i) => s # <<>> /\ Head(s).do = "settle" /\ Head(s).invite = i /\ Tail(s) = <<>>
         /\ Settles(s, i) => Head(s).status \in {"accepted", "expired"} /\ s = <<Settlement(i, Head(s).status)>>
         /\ i \in Invites /\ (Seats(s, i) \/ Settles(s, i)) => SeatJob(s)
  <1>1. ASSUME Seats(s, i)
        PROVE  s # <<>> /\ Head(s) = s[1] /\ Head(s).do = "seat" /\ Tail(s) = <<Settlement(i, "accepted")>>
    <2>1. Len(s) = 2 /\ IsSeq(s) /\ s[1].do = "seat" /\ s[2] = Settlement(i, "accepted")
      BY <1>1 DEF Seats
    <2>2. s # <<>>
      BY <2>1
    <2> QED BY <2>1, <2>2, WorkOfRest
  <1>2. ASSUME Settles(s, i)
        PROVE  /\ s # <<>> /\ Head(s).do = "settle" /\ Head(s).invite = i /\ Tail(s) = <<>>
               /\ Head(s).status \in {"accepted", "expired"} /\ s = <<Settlement(i, Head(s).status)>>
    <2>1. PICK status \in {"accepted", "expired"} : s = <<Settlement(i, status)>>
      BY <1>2 DEF Settles
    <2>2. s # <<>> /\ Head(s) = Settlement(i, status) /\ Tail(s) = <<>>
      BY <2>1, WorkOfOne
    <2>3. Settlement(i, status).do = "settle" /\ Settlement(i, status).invite = i /\ Settlement(i, status).status = status
      BY DEF Settlement
    <2> QED BY <2>1, <2>2, <2>3
  <1> QED BY <1>1, <1>2 DEF SeatJob

LEMMA SettlementsDiffer ==
  ASSUME NEW i, NEW j, <<Settlement(i, "accepted")>> = <<Settlement(j, "accepted")>>
  PROVE  i = j
  <1>1. Head(<<Settlement(i, "accepted")>>) = Head(<<Settlement(j, "accepted")>>)
    OBVIOUS
  <1>2. Settlement(i, "accepted") = Settlement(j, "accepted")
    BY <1>1, WorkOfOne
  <1> QED BY <1>2 DEF Settlement

UnderAnswer(i) == \E w \in Workers : Accepts(w, i)
Raced(i) == \E v, w \in Workers : v # w /\ Accepts(v, i) /\ Accepts(w, i)
(* Two seats from one invitation are two answers under way. *)
Invitee(m) ==
    m.from # None =>
       /\ db.invite[m.from].status = "accepted" \/ UnderAnswer(m.from)
       /\ \A x \in db.member : x.from = m.from =>
            \/ x = m \/ Raced(m.from)
            \/ db.invite[m.from].status # "pending" /\ UnderAnswer(m.from)

LEMMA SeatInvIs ==
  SeatInv <=> 
    /\ \A w \in Workers, i \in Invites : Seats(job[w], i) \/ Settles(job[w], i) => db.invite[i].status # "unsent"
    /\ \A m \in db.member : m.from # None => m.from \in Invites
    /\ Barring({"failed", "stale"}) => \A m \in db.member : Invitee(m)
  BY DEF SeatInv, Invitee, UnderAnswer, Raced

LEMMA SeatsUndisturbed ==
  ASSUME Base, Base', SeatInv, SeatsAside
  PROVE  SeatInv'
  <1>1. \A w \in Workers : SeatJob(job[w]) \/ SeatJob(job'[w]) => job'[w] = job[w]
    BY DEF SeatsAside
  <1>2. ASSUME NEW w \in Workers, NEW i \in Invites, Seats(job'[w], i) \/ Settles(job'[w], i)
        PROVE  db'.invite[i].status # "unsent"
    <2>1. job'[w] = job[w]
      BY <1>1, <1>2, SeatKinds
    <2> QED BY <1>2, <2>1, SeatInvIs DEF SeatsAside
  <1>3. ASSUME NEW w \in Workers, NEW i \in Invites PROVE Accepts(w, i) => Accepts(w, i)'
    <2> SUFFICES ASSUME Accepts(w, i) PROVE Accepts(w, i)'
      OBVIOUS
    <2>1. Settles(job[w], i)
      BY DEF Accepts, Settles
    <2>2. job'[w] = job[w]
      BY <1>1, <2>1, SeatKinds
    <2> QED BY <2>2 DEF Accepts
  <1>4. \A m \in db'.member : m.from # None => m.from \in Invites
    BY SeatInvIs DEF SeatsAside
  <1>5. ASSUME Barring({"failed", "stale"})', NEW m \in db'.member PROVE Invitee(m)'
    <2>1. Barring({"failed", "stale"}) /\ m \in db.member
      BY <1>5 DEF Barring, SeatsAside
    <2>2. Invitee(m)
      BY <2>1, SeatInvIs
    <2>3. m.from # None => 
             /\ db'.invite[m.from].status = db.invite[m.from].status
             /\ UnderAnswer(m.from) => UnderAnswer(m.from)'
             /\ Raced(m.from) => Raced(m.from)'
      BY <1>3, <1>4, <1>5 DEF SeatsAside, UnderAnswer, Raced
    <2> QED BY <2>2, <2>3 DEF Invitee, SeatsAside
  <1> QED BY <1>2, <1>4, <1>5 DEF SeatInv, Invitee, UnderAnswer, Raced

(* The invariant after a step that moves one worker, or none.              *)
LEMMA Seated ==
  ASSUME NEW w, 
         \A v \in Workers : v # w => job'[v] = job[v],
         Base, Base', SeatInv,
         \A i \in Invites : db.invite[i].status # "unsent" => db'.invite[i].status # "unsent",
         \A i \in Invites : w \in Workers /\ (Seats(job'[w], i) \/ Settles(job'[w], i)) => db'.invite[i].status # "unsent",
         \A m \in db'.member : m.from # None => m.from \in Invites,
         Barring({"failed", "stale"})' => \A m \in db'.member : Invitee(m)'
  PROVE  SeatInv'
  <1>1. ASSUME NEW v \in Workers, NEW i \in Invites, Seats(job'[v], i) \/ Settles(job'[v], i)
        PROVE  db'.invite[i].status # "unsent"
    <2>1. CASE v = w
      BY <1>1, <2>1
    <2>2. CASE v # w
      BY <1>1, <2>2, SeatInvIs
    <2> QED BY <2>1, <2>2
  <1> QED BY <1>1 DEF SeatInv, Invitee, UnderAnswer, Raced

Seating == Base' /\ SeatInv' /\ BudgetAside

LEMMA SeatIsAside ==
  ASSUME Base, NEW w \in Workers, NEW s, job' = [job EXCEPT ![w] = s], ~BudgetJob(job[w]), ~BudgetJob(s),
         s # <<>> => job[w] # <<>> \/ Crowded \subseteq hist'.lapses,
         Notes, db'.budget = db.budget, db'.period = db.period
  PROVE  BudgetAside
  BY DEF BudgetAside, Notes, Base, JobsOK

LEMMA InviteKeeps ==
  ASSUME DbOK, NEW i \in Invites, NEW doc, DOMAIN doc = DOMAIN NoInvite, db' = [db EXCEPT !.invite[i] = doc]
  PROVE  /\ DbOK' /\ db'.budget = db.budget /\ db'.period = db.period /\ db'.member = db.member
         /\ \A j \in Invites : db'.invite[j] = IF j = i THEN doc ELSE db.invite[j]
  BY DEF DbOK, DbFields

LEMMA MemberKeeps ==
  ASSUME DbOK, NEW all, db' = [db EXCEPT !.member = all],
         \A m \in all : DOMAIN m = {"user", "of", "role", "email", "from"}
  PROVE  /\ DbOK' /\ db'.budget = db.budget /\ db'.period = db.period /\ db'.invite = db.invite
         /\ db'.member = all
  BY DEF DbOK, DbFields

(* The other answers to an invitation outlive a step of one worker.        *)
LEMMA AnswersStay ==
  ASSUME Base, NEW w \in Workers, NEW s, job' = [job EXCEPT ![w] = s], NEW i, 
         Accepts(w, i) => s = job[w]
  PROVE  /\ \A v \in Workers : Accepts(v, i) => Accepts(v, i)'
         /\ UnderAnswer(i) => UnderAnswer(i)'
         /\ Raced(i) => Raced(i)'
  <1>1. \A v \in Workers : job'[v] = IF v = w THEN s ELSE job[v]
    BY DEF Base, JobsOK
  <1>2. ASSUME NEW v \in Workers, Accepts(v, i) PROVE Accepts(v, i)'
    BY <1>1, <1>2 DEF Accepts
  <1> QED BY <1>2 DEF UnderAnswer, Raced

LEMMA AcceptSeats ==
  ASSUME Base, SeatInv, NEW w \in Workers, NEW u, NEW i \in Invites, Accept(w, u, i)
  PROVE  Seating
  <1> DEFINE inv == db.invite[i]
             seat == [do |-> "seat", user |-> u, inv |-> inv, from |-> i]
             steps == IF inv.late THEN <<Settlement(i, "expired")>> ELSE <<seat, Settlement(i, "accepted")>>
  <1>1. Pending(i) /\ Begin(w, steps) /\ UNCHANGED <<db, stripe>>
    <2>1. /\ Pending(i) /\ UNCHANGED <<db, stripe>>
          /\ Begin(w, IF inv.late THEN <<Settle(i, "expired")>> ELSE <<seat, Settle(i, "accepted")>>)
      BY Zenon DEF Accept
    <2>2. Settle(i, "expired") = Settlement(i, "expired") /\ Settle(i, "accepted") = Settlement(i, "accepted")
      BY <2>1 DEF Settle, Settlement, Pending
    <2> QED BY <2>1, <2>2
  <1>2. seat.do = "seat" /\ seat.from = i /\ seat.inv = inv /\ inv.status = "pending"
    BY <1>1 DEF Pending
  <1> HIDE DEF seat, inv
  <1>3. Seats(steps, i) \/ Settles(steps, i)
    BY <1>2, WorkOfTwo DEF Seats, Settles
  <1>4. steps # <<Settlement(i, "accepted")>> /\ \A j : steps # <<Settlement(j, "accepted")>>
    <2>1. CASE inv.late
      <3>1. Head(steps).status = "expired"
        BY <2>1, WorkOfOne DEF Settlement
      <3>2. \A j : Head(<<Settlement(j, "accepted")>>).status = "accepted"
        BY WorkOfOne DEF Settlement
      <3> QED BY <3>1, <3>2
    <2>2. CASE ~inv.late
      <3>1. Len(steps) = 2
        BY <2>2, WorkOfTwo
      <3>2. \A j : Len(<<Settlement(j, "accepted")>>) = 1
        BY WorkOfOne
      <3> QED BY <3>1, <3>2
    <2> QED BY <2>1, <2>2
  <1> HIDE DEF steps
  <1>5. job[w] = <<>> /\ job' = [job EXCEPT ![w] = steps] /\ hist' = Noting(Spend, Crowded)
    BY <1>1 DEF Begin, Idle
  <1>6. Notes /\ hist'.lapses = hist.lapses \cup Crowded
    BY <1>5, NotingMore DEF Base
  <1>7. SeatJob(steps) /\ steps # <<>>
    BY <1>3, SeatKinds
  <1>8. Base'
    BY <1>1, <1>5, <1>6, <1>7, KeepingAll, StripeSame DEF Base, JobsOK, Notes, Keeps
  <1>9. BudgetAside
    <2>1. ~BudgetJob(job[w]) /\ ~BudgetJob(steps)
      BY <1>5, <1>7, JobKinds, WorkOfNone
    <2> QED BY <1>1, <1>5, <1>6, <2>1, SeatIsAside
  <1>10. SeatInv'
    <2>1. job'[w] = steps /\ \A v \in Workers : v # w => job'[v] = job[v]
      BY <1>5 DEF Base, JobsOK
    <2>2. ASSUME NEW j \in Invites, Seats(steps, j) \/ Settles(steps, j) PROVE db'.invite[j].status # "unsent"
      <3>1. j = i
        <4>1. CASE Seats(steps, j) /\ Seats(steps, i)
          BY <4>1 DEF Seats
        <4>2. CASE Settles(steps, j) /\ Settles(steps, i)
          BY <4>2, SeatKinds
        <4>3. CASE (Seats(steps, j) /\ Settles(steps, i)) \/ (Settles(steps, j) /\ Seats(steps, i))
          BY <4>3, SeatKinds
        <4> QED BY <1>3, <2>2, <4>1, <4>2, <4>3
      <3> QED BY <1>1, <3>1 DEF Pending
    <2>3. ASSUME Barring({"failed", "stale"})', NEW m \in db'.member PROVE Invitee(m)'
      <3>1. Barring({"failed", "stale"}) /\ m \in db.member
        BY <1>1, <1>6, <2>3 DEF Barring
      <3>2. Invitee(m)
        BY <3>1, SeatInvIs
      <3>3. ~Accepts(w, m.from)
        BY <1>5, WorkOfOne DEF Accepts
      <3>4. (UnderAnswer(m.from) => UnderAnswer(m.from)') /\ (Raced(m.from) => Raced(m.from)')
        BY <1>5, <3>3, AnswersStay
      <3> QED BY <1>1, <3>2, <3>4 DEF Invitee
    <2>4. \A m \in db'.member : m.from # None => m.from \in Invites
      BY <1>1, SeatInvIs
    <2>5. \A j \in Invites : db'.invite[j] = db.invite[j]
      BY <1>1
    <2> HIDE DEF Invitee, Barring
    <2> QED BY <1>8, <2>1, <2>2, <2>3, <2>4, <2>5, Seated
  <1> QED BY <1>8, <1>9, <1>10 DEF Seating

LEMMA SendInviteSeats ==
  ASSUME Base, SeatInv, NEW w \in Workers, SendInvite(w)
  PROVE  Seating
  <1> DEFINE p == This(w)
             free == Unused(db.invite, NoInvite)
             i == Least(free)
             doc == [of |-> p.of, email |-> p.email, role |-> p.role, status |-> "pending", late |-> FALSE]
  <1>1. /\ Doing(w, "invite") /\ free # {} /\ Proceed(w, <<>>) /\ With(Stale(~Live(p.of)))
        /\ db' = [db EXCEPT !.invite[i] = doc] /\ UNCHANGED stripe
    BY Zenon DEF SendInvite
  <1>2. i \in Invites /\ db.invite[i] = NoInvite
    <2>1. free \subseteq Invites /\ Invites \subseteq Nat
      BY DocumentsOK DEF Unused, Base, DbOK
    <2>2. i \in free
      BY <1>1, <2>1, LeastIsIn
    <2> QED BY <2>1, <2>2 DEF Unused
  <1>3. doc.status = "pending" /\ DOMAIN doc = DOMAIN NoInvite /\ db.invite[i].status = "unsent"
    BY <1>2 DEF NoInvite
  <1> HIDE DEF doc, i, free, p
  <1>4. /\ DbOK' /\ db'.budget = db.budget /\ db'.period = db.period /\ db'.member = db.member
        /\ \A j \in Invites : db'.invite[j] = IF j = i THEN doc ELSE db.invite[j]
    BY <1>1, <1>2, <1>3, InviteKeeps DEF Base
  <1>5. Notes
    BY <1>1, NotingMore DEF Base, With
  <1>6. JobsMove
    BY <1>1, Going, WorkOfNone DEF Base, BudgetWork, SeatWork
  <1>7. Plain(job[w]) /\ \A v \in Workers : v # w => job'[v] = job[v]
    BY <1>1, DoingPlain DEF Base, BudgetWork, SeatWork, Proceed, JobsOK
  <1>8. \A v \in Workers : job'[v] = job[v] \/ (Plain(job[v]) /\ Plain(job'[v]))
    BY <1>6 DEF JobsMove
  <1>9. Base'
    BY <1>1, <1>4, <1>5, <1>6, StripeSame DEF Base, JobsOK, JobsMove, Notes
  <1>10. BudgetAside
    BY <1>4, <1>5, <1>6, <1>8, JobKinds DEF BudgetAside, JobsMove, Notes
  <1>11. SeatInv'
    <2>1. Plain(job'[w])
      BY <1>7, <1>8
    <2>2. \A j \in Invites : ~Seats(job'[w], j) /\ ~Settles(job'[w], j)
      BY <2>1, JobKinds, SeatKinds
    <2>3. ASSUME Barring({"failed", "stale"})', NEW m \in db'.member PROVE Invitee(m)'
      <3>1. Barring({"failed", "stale"}) /\ m \in db.member
        BY <1>4, <1>5, <2>3 DEF Barring, Notes
      <3>2. Invitee(m)
        BY <3>1, SeatInvIs
      <3>3. \A v \in Workers, j \in Invites : Accepts(v, j) => Accepts(v, j)'
        <4> SUFFICES ASSUME NEW v \in Workers, NEW j \in Invites, Accepts(v, j) PROVE Accepts(v, j)'
          OBVIOUS
        <4>1. Settles(job[v], j)
          BY DEF Accepts, Settles
        <4>2. job'[v] = job[v]
          BY <1>8, <4>1, SeatKinds, JobKinds
        <4> QED BY <4>2 DEF Accepts
      <3>4. m.from # None => m.from \in Invites /\ m.from # i
        <4> SUFFICES ASSUME m.from # None PROVE m.from \in Invites /\ m.from # i
          OBVIOUS
        <4>1. m.from \in Invites
          BY <3>1, SeatInvIs
        <4>2. db.invite[m.from].status = "accepted" \/ UnderAnswer(m.from)
          BY <3>2 DEF Invitee
        <4>3. UnderAnswer(m.from) => db.invite[m.from].status # "unsent"
          BY <4>1, SeatInvIs DEF UnderAnswer, Accepts, Settles
        <4> QED BY <1>3, <4>1, <4>2, <4>3
      <3>5. m.from # None => /\ db'.invite[m.from] = db.invite[m.from]
                             /\ UnderAnswer(m.from) => UnderAnswer(m.from)'
                             /\ Raced(m.from) => Raced(m.from)'
        BY <1>4, <3>3, <3>4 DEF UnderAnswer, Raced
      <3> QED BY <1>4, <3>2, <3>5 DEF Invitee
    <2>4. \A m \in db'.member : m.from # None => m.from \in Invites
      BY <1>4, SeatInvIs
    <2>5. \A j \in Invites : db.invite[j].status # "unsent" => db'.invite[j].status # "unsent"
      BY <1>3, <1>4
    <2> HIDE DEF Invitee, Barring
    <2> QED BY <1>7, <1>9, <2>2, <2>3, <2>4, <2>5, Seated
  <1> QED BY <1>9, <1>10, <1>11 DEF Seating

(* A worker that seats somebody, or settles an invitation.                 *)
LEMMA Answering ==
  ASSUME Base, NEW w \in Workers, NEW d \in SeatWork, Doing(w, d)
  PROVE  /\ job[w] # <<>> /\ This(w).do = d /\ This(w) = Head(job[w])
         /\ \E i \in Invites : \/ d = "seat" /\ Seats(job[w], i)
                               \/ d = "settle" /\ Settles(job[w], i)
  <1>1. job[w] # <<>> /\ This(w).do = d /\ This(w) = Head(job[w])
    BY DEF Doing, Idle, This
  <1>2. SeatJob(job[w])
    BY <1>1, JobKinds DEF Base, JobsOK
  <1> QED BY <1>1, <1>2, SeatKinds DEF SeatJob

LEMMA SeatSeats ==
  ASSUME Base, SeatInv, NEW w \in Workers, Seat(w)
  PROVE  Seating
  <1> DEFINE p == This(w)
             seat == [user |-> p.user, of |-> p.inv.of, role |-> p.inv.role, email |-> p.inv.email, from |-> p.from]
             all  == db.member \cup {seat}
  <1>1. /\ Doing(w, "seat") /\ UNCHANGED stripe
        /\ \/ Throws(w)
           \/ /\ db' = [db EXCEPT !.member = all] /\ Proceed(w, <<>>)
              /\ With(Stale(db.invite[p.from] # p.inv))
    BY Zenon DEF Seat, Throws
  <1>2. PICK i \in Invites : Seats(job[w], i)
    BY <1>1, Answering DEF SeatWork
  <1>3. /\ p = job[w][1] /\ p.from = i /\ p.inv.status = "pending" /\ Tail(job[w]) = <<Settlement(i, "accepted")>>
        /\ job[w] # <<>> /\ db.invite[i].status # "unsent"
    BY <1>2, SeatKinds, SeatInvIs DEF Seats, This
  <1>4. seat.from = i /\ DOMAIN seat = {"user", "of", "role", "email", "from"}
    BY <1>3
  <1> HIDE DEF seat, p
  <1> DEFINE rest == <<Settlement(i, "accepted")>>
  <1>5. rest # <<>> /\ ~BudgetJob(rest) /\ SeatJob(rest) /\ ~BudgetJob(job[w]) /\ ~SeatJob(<<>>) /\ ~BudgetJob(<<>>)
    <2>1. Settles(rest, i) /\ SeatJob(rest)
      BY SeatKinds DEF Settles
    <2> QED BY <1>2, <2>1, JobKinds, WorkOfOne, WorkOfNone DEF SeatJob
  <1>6. CASE Throws(w)
    <2>1. job' = [job EXCEPT ![w] = <<>>] /\ UNCHANGED <<db, stripe>> /\ hist' = Noting(hist, {"failed"})
      BY <1>6 DEF Throws, With
    <2>2. Notes /\ "failed" \in hist'.lapses
      BY <2>1, NotingMore DEF Base
    <2>3. Base'
      BY <2>1, <2>2, KeepingAll, StripeSame, WorkOfNone DEF Base, JobsOK, Notes, Keeps
    <2>4. BudgetAside
      BY <1>5, <2>1, <2>2, SeatIsAside
    <2>5. SeatInv'
      <3>1. \A v \in Workers : v # w => job'[v] = job[v]
        BY <2>1 DEF Base, JobsOK
      <3>2. job'[w] = <<>>
        BY <2>1 DEF Base, JobsOK
      <3>3. \A j \in Invites : ~Seats(job'[w], j) /\ ~Settles(job'[w], j)
        BY <1>5, <3>2 DEF SeatJob
      <3>4. ~Barring({"failed", "stale"})'
        BY <2>2 DEF Barring
      <3>5. \A j \in Invites : db'.invite[j] = db.invite[j]
        BY <2>1
      <3>6. \A m \in db'.member : m.from # None => m.from \in Invites
        BY <2>1, SeatInvIs
      <3> HIDE DEF Barring, Invitee
      <3> QED BY <2>3, <3>1, <3>3, <3>4, <3>5, <3>6, Seated
    <2> QED BY <2>3, <2>4, <2>5 DEF Seating
  <1>7. CASE /\ db' = [db EXCEPT !.member = all] /\ Proceed(w, <<>>)
             /\ With(Stale(db.invite[p.from] # p.inv))
    <2>1. /\ DbOK' /\ db'.budget = db.budget /\ db'.period = db.period /\ db'.invite = db.invite
          /\ db'.member = all
      BY <1>4, <1>7, MemberKeeps DEF Base, DbOK
    <2>2. job' = [job EXCEPT ![w] = rest]
      <3>1. <<>> \o rest = rest
        BY WorkOfNone, WorkOfOne, WorkJoined
      <3> QED BY <1>3, <1>7, <3>1 DEF Proceed
    <2>3. Notes /\ hist'.lapses = hist.lapses \cup Stale(db.invite[i] # p.inv)
      BY <1>3, <1>7, NotingMore DEF Base, With
    <2> HIDE DEF rest
    <2>4. Base'
      BY <1>1, <1>5, <2>1, <2>2, <2>3, StripeSame DEF Base, JobsOK, Notes
    <2>5. BudgetAside
      BY <1>3, <1>5, <2>1, <2>2, <2>3, SeatIsAside
    <2>6. SeatInv'
      <3>1. \A v \in Workers : v # w => job'[v] = job[v]
        BY <2>2 DEF Base, JobsOK
      <3>2. job'[w] = rest
        BY <2>2 DEF Base, JobsOK
      <3>3. \A j \in Invites : Seats(rest, j) \/ Settles(rest, j) => j = i
        BY SeatKinds, SettlementsDiffer, WorkOfOne DEF rest, Seats, Settles, Settlement
      <3>4. \A j \in Invites : ~Accepts(w, j)
        BY <1>2, WorkOfOne DEF Accepts, Seats
      <3>5. ASSUME Barring({"failed", "stale"})', NEW m \in db'.member PROVE Invitee(m)'
        <4>1. Barring({"failed", "stale"}) /\ db.invite[i] = p.inv
          BY <2>3, <3>5 DEF Barring, Stale
        <4>2. db.invite[i].status = "pending" /\ Accepts(w, i)'
          BY <1>3, <3>2, <4>1 DEF Accepts, rest
        <4>3. \A j \in Invites : (UnderAnswer(j) => UnderAnswer(j)') /\ (Raced(j) => Raced(j)')
          BY <2>2, <3>4, AnswersStay
        <4>4. UnderAnswer(i)' 
          BY <4>2 DEF UnderAnswer
        <4>5. UnderAnswer(i) => Raced(i)'
          <5> SUFFICES ASSUME NEW v \in Workers, Accepts(v, i) PROVE Raced(i)'
            BY DEF UnderAnswer
          <5>1. v # w /\ Accepts(v, i)'
            BY <2>2, <3>1, <3>4 DEF Accepts
          <5> QED BY <4>2, <5>1 DEF Raced
        <4>6. \A x \in db.member : Invitee(x)
          BY <4>1, SeatInvIs
        <4>7. \A x \in db.member : x.from = i => Raced(i)'
          <5>1. i # None
            BY DocumentsOK DEF None
          <5> QED BY <4>2, <4>5, <4>6, <5>1 DEF Invitee
        <4>8. CASE m.from = i
          <5>1. \A x \in db'.member : x.from = i => x = m \/ Raced(i)'
            BY <1>4, <2>1, <4>7, <4>8
          <5> QED BY <2>1, <4>4, <4>8, <5>1 DEF Invitee
        <4>9. CASE m.from # i
          <5>1. m \in db.member
            BY <1>4, <2>1, <4>9
          <5>2. \A x \in db'.member : x.from = m.from => x \in db.member
            BY <1>4, <2>1, <4>9
          <5>3. m.from # None => m.from \in Invites
            BY <5>1, SeatInvIs
          <5> QED BY <2>1, <4>3, <4>6, <5>1, <5>2, <5>3 DEF Invitee
        <4> QED BY <4>8, <4>9
      <3>6. \A m \in db'.member : m.from # None => m.from \in Invites
        BY <1>4, <2>1, SeatInvIs
      <3>7. \A j \in Invites : db'.invite[j] = db.invite[j]
        BY <2>1
      <3>8. \A j \in Invites : Seats(job'[w], j) \/ Settles(job'[w], j) => db'.invite[j].status # "unsent"
        BY <1>3, <3>2, <3>3, <3>7
      <3> HIDE DEF Barring, Invitee
      <3> QED BY <2>4, <3>1, <3>5, <3>6, <3>7, <3>8, Seated
    <2> QED BY <2>4, <2>5, <2>6 DEF Seating
  <1> QED BY <1>1, <1>6, <1>7

LEMMA SettleSeats ==
  ASSUME Base, SeatInv, NEW w \in Workers, SettleInvite(w)
  PROVE  Seating
  <1> DEFINE p == This(w)
  <1>1. /\ Doing(w, "settle") /\ Proceed(w, <<>>) /\ UNCHANGED stripe
        /\ With(Stale(db.invite[p.invite].status # p.was))
        /\ db' = [db EXCEPT !.invite[p.invite].status = p.status]
    BY Zenon DEF SettleInvite
  <1>2. PICK i \in Invites : Settles(job[w], i)
    BY <1>1, Answering DEF SeatWork
  <1>3. /\ p.invite = i /\ Tail(job[w]) = <<>> /\ job[w] # <<>> /\ p.status \in {"accepted", "expired"}
        /\ job[w] = <<Settlement(i, p.status)>> /\ p = Settlement(i, p.status)
    BY <1>2, SeatKinds, WorkOfOne DEF This
  <1>4. p.was = "pending"
    BY <1>3 DEF Settlement
  <1> HIDE DEF p
  <1>5. ~BudgetJob(job[w]) /\ ~BudgetJob(<<>>) /\ ~SeatJob(<<>>) /\ Plain(<<>>)
    BY <1>2, JobKinds, WorkOfNone DEF SeatJob
  <1>6. job' = [job EXCEPT ![w] = <<>>]
    <2>1. <<>> \o <<>> = <<>>
      BY WorkOfNone, WorkJoined
    <2> QED BY <1>1, <1>3, <2>1 DEF Proceed
  <1>7. Notes /\ hist'.lapses = hist.lapses \cup Stale(db.invite[i].status # "pending")
    BY <1>1, <1>3, <1>4, NotingMore DEF Base, With
  <1>8. /\ DbOK' /\ db'.budget = db.budget /\ db'.period = db.period /\ db'.member = db.member
        /\ \A j \in Invites : db'.invite[j].status = IF j = i THEN p.status ELSE db.invite[j].status
    <2>1. db' = [db EXCEPT !.invite[i] = [db.invite[i] EXCEPT !.status = p.status]]
      BY <1>1, <1>3
    <2> DEFINE doc == [db.invite[i] EXCEPT !.status = p.status]
    <2>2. DOMAIN doc = DOMAIN NoInvite /\ doc.status = p.status
      BY DEF Base, DbOK, NoInvite
    <2> HIDE DEF doc
    <2>3. /\ DbOK' /\ db'.budget = db.budget /\ db'.period = db.period /\ db'.member = db.member
          /\ \A j \in Invites : db'.invite[j] = IF j = i THEN doc ELSE db.invite[j]
      BY <2>1, <2>2, InviteKeeps DEF Base, doc
    <2> QED BY <2>2, <2>3
  <1>9. Base'
    BY <1>1, <1>5, <1>6, <1>7, <1>8, StripeSame DEF Base, JobsOK, Notes
  <1>10. BudgetAside
    BY <1>5, <1>6, <1>7, <1>8, SeatIsAside
  <1>11. SeatInv'
    <2>1. job'[w] = <<>> /\ \A v \in Workers : v # w => job'[v] = job[v]
      BY <1>6 DEF Base, JobsOK
    <2>2. ASSUME Barring({"failed", "stale"})', NEW m \in db'.member PROVE Invitee(m)'
      <3>1. Barring({"failed", "stale"}) /\ db.invite[i].status = "pending" /\ m \in db.member
        BY <1>7, <1>8, <2>2 DEF Barring, Stale
      <3>2. Invitee(m) /\ (m.from # None => m.from \in Invites)
        BY <3>1, SeatInvIs
      <3>3. \A v \in Workers, j \in Invites : Accepts(v, j) => v = w \/ Accepts(v, j)'
        BY <2>1 DEF Accepts
      <3>4. \A j \in Invites : Accepts(w, j) => j = i /\ p.status = "accepted"
        <4> SUFFICES ASSUME NEW j \in Invites, job[w] = <<Settlement(j, "accepted")>>
                     PROVE  j = i /\ p.status = "accepted"
          BY DEF Accepts
        <4>1. Head(job[w]) = Settlement(j, "accepted") /\ Head(job[w]) = Settlement(i, p.status)
          BY <1>3, WorkOfOne
        <4> QED BY <4>1 DEF Settlement
      <3>5. CASE m.from # i \/ p.status = "expired"
        <4>1. m.from # None => (UnderAnswer(m.from) => UnderAnswer(m.from)') /\ (Raced(m.from) => Raced(m.from)')
          BY <3>2, <3>3, <3>4, <3>5 DEF UnderAnswer, Raced
        <4> QED BY <1>8, <3>1, <3>2, <3>5, <4>1 DEF Invitee
      <3>6. CASE m.from = i /\ p.status = "accepted"
        <4>1. Raced(i) => UnderAnswer(i)'
          BY <3>3 DEF UnderAnswer, Raced
        <4>2. \A x \in db.member : x.from = i => x = m \/ Raced(i)
          BY <3>1, <3>2, <3>6, DocumentsOK DEF Invitee, None
        <4> QED BY <1>8, <3>6, <4>1, <4>2 DEF Invitee
      <3> QED BY <1>3, <3>5, <3>6
    <2>3. \A j \in Invites : ~Seats(job'[w], j) /\ ~Settles(job'[w], j)
      BY <1>5, <2>1 DEF SeatJob
    <2>4. \A m \in db'.member : m.from # None => m.from \in Invites
      BY <1>8, SeatInvIs
    <2>5. \A j \in Invites : db.invite[j].status # "unsent" => db'.invite[j].status # "unsent"
      BY <1>3, <1>8
    <2> HIDE DEF Barring, Invitee
    <2> QED BY <1>9, <2>1, <2>2, <2>3, <2>4, <2>5, Seated
  <1> QED BY <1>9, <1>10, <1>11 DEF Seating

(* A change made in one write moves no worker.                             *)
LEMMA NoAnswerMoves ==
  ASSUME UNCHANGED job, NEW i
  PROVE  (UnderAnswer(i) <=> UnderAnswer(i)') /\ (Raced(i) <=> Raced(i)')
  BY DEF UnderAnswer, Raced, Accepts

LEMMA AtOnceAside ==
  ASSUME Base, AtOnce, db'.budget = db.budget, db'.period = db.period
  PROVE  JobsOK' /\ Notes /\ BudgetAside /\ UNCHANGED job
  <1>1. UNCHANGED job /\ Notes
    BY NotingMore DEF AtOnce, Base
  <1> QED BY <1>1 DEF Base, JobsOK, Notes, BudgetAside

LEMMA RevokeSeats ==
  ASSUME Base, SeatInv, NEW u, NEW i \in Invites, Revoke(u, i)
  PROVE  Seating
  <1> DEFINE doc == [db.invite[i] EXCEPT !.status = "revoked"]
  <1>1. AtOnce /\ Pending(i) /\ db' = [db EXCEPT !.invite[i] = doc] /\ UNCHANGED stripe
    <2>1. AtOnce /\ Pending(i) /\ db' = [db EXCEPT !.invite[i].status = "revoked"] /\ UNCHANGED stripe
      BY Zenon DEF Revoke
    <2> QED BY <2>1
  <1>2. DOMAIN doc = DOMAIN NoInvite /\ doc.status = "revoked"
    BY DEF Base, DbOK, NoInvite
  <1> HIDE DEF doc
  <1>3. /\ DbOK' /\ db'.budget = db.budget /\ db'.period = db.period /\ db'.member = db.member
        /\ \A j \in Invites : db'.invite[j] = IF j = i THEN doc ELSE db.invite[j]
    BY <1>1, <1>2, InviteKeeps DEF Base
  <1>4. JobsOK' /\ Notes /\ BudgetAside /\ UNCHANGED job
    BY <1>1, <1>3, AtOnceAside
  <1>5. Base'
    BY <1>1, <1>3, <1>4, StripeSame DEF Base, Notes
  <1>6. SeatInv'
    <2>1. ASSUME Barring({"failed", "stale"})', NEW m \in db'.member PROVE Invitee(m)'
      <3>1. Barring({"failed", "stale"}) /\ m \in db.member
        BY <1>3, <1>4, <2>1 DEF Barring, Notes
      <3>2. Invitee(m) /\ (m.from # None => m.from \in Invites)
        BY <3>1, SeatInvIs
      <3>3. m.from # None => (UnderAnswer(m.from) <=> UnderAnswer(m.from)') /\ (Raced(m.from) <=> Raced(m.from)')
        BY <1>4, NoAnswerMoves
      <3> QED BY <1>1, <1>2, <1>3, <3>2, <3>3 DEF Invitee, Pending
    <2>2. \A m \in db'.member : m.from # None => m.from \in Invites
      BY <1>3, SeatInvIs
    <2>3. \A j \in Invites : db.invite[j].status # "unsent" => db'.invite[j].status # "unsent"
      BY <1>2, <1>3
    <2>4. \A v \in Workers, j \in Invites : Seats(job'[v], j) \/ Settles(job'[v], j) => db'.invite[j].status # "unsent"
      BY <1>4, <2>3, SeatInvIs
    <2> QED BY <2>1, <2>2, <2>4 DEF SeatInv, Invitee, UnderAnswer, Raced
  <1> QED BY <1>4, <1>5, <1>6 DEF Seating

LEMMA SetRoleSeats ==
  ASSUME Base, SeatInv, NEW u, NEW m \in db.member, NEW role, SetRole(u, m, role)
  PROVE  Seating
  <1> DEFINE m2  == [m EXCEPT !.role = role]
             all == (db.member \ {m}) \cup {m2}
  <1>1. AtOnce /\ m.role # role /\ db' = [db EXCEPT !.member = all] /\ UNCHANGED stripe
    BY Zenon DEF SetRole
  <1>2. DOMAIN m2 = {"user", "of", "role", "email", "from"} /\ m2.from = m.from /\ m2 # m
    BY <1>1 DEF Base, DbOK
  <1> HIDE DEF m2
  <1>3. /\ DbOK' /\ db'.budget = db.budget /\ db'.period = db.period /\ db'.invite = db.invite
        /\ db'.member = all
    BY <1>1, <1>2, MemberKeeps DEF Base, DbOK
  <1>4. JobsOK' /\ Notes /\ BudgetAside /\ UNCHANGED job
    BY <1>1, <1>3, AtOnceAside
  <1>5. Base'
    BY <1>1, <1>3, <1>4, StripeSame DEF Base, Notes
  <1>6. SeatInv'
    <2> DEFINE Was(y) == IF y = m2 THEN m ELSE y
    <2>1. \A y \in db'.member : Was(y) \in db.member /\ Was(y).from = y.from
      BY <1>2, <1>3
    <2>2. \A y, x \in db'.member : Was(y) = Was(x) => y = x
      BY <1>2, <1>3
    <2> HIDE DEF Was
    <2>3. ASSUME Barring({"failed", "stale"})', NEW y \in db'.member PROVE Invitee(y)'
      <3>1. Barring({"failed", "stale"})
        BY <1>4, <2>3 DEF Barring, Notes
      <3>2. Invitee(Was(y))
        BY <2>1, <3>1, SeatInvIs
      <3>3. (UnderAnswer(y.from) <=> UnderAnswer(y.from)') /\ (Raced(y.from) <=> Raced(y.from)')
        BY <1>4, NoAnswerMoves
      <3> QED BY <1>3, <2>1, <2>2, <3>2, <3>3 DEF Invitee
    <2>4. \A y \in db'.member : y.from # None => y.from \in Invites
      BY <2>1, SeatInvIs
    <2>5. \A v \in Workers, j \in Invites : Seats(job'[v], j) \/ Settles(job'[v], j) => db'.invite[j].status # "unsent"
      BY <1>3, <1>4, SeatInvIs
    <2> QED BY <2>3, <2>4, <2>5 DEF SeatInv, Invitee, UnderAnswer, Raced
  <1> QED BY <1>4, <1>5, <1>6 DEF Seating

(******************* the invariant, and the two theorems *******************)
Inv == Base /\ BudgetInv /\ SeatInv

LEMMA InvAtFirst ==
  ASSUME Init
  PROVE  Inv
  <1>1. PICK c \in Casts :
          /\ db = c.db /\ stripe = c.stripe /\ job = [w \in Workers |-> <<>>]
          /\ hist = [left |-> c.left, faults |-> c.faults, lapses |-> {}, touched |-> {},
                     outgrown |-> {}, sent |-> [t \in Thresholds |-> 0]]
    BY Zenon DEF Init, DocumentsInit
  <1>2. \A w \in Workers : job[w] = <<>> /\ Plain(job[w]) /\ ~BudgetJob(job[w]) /\ ~SeatJob(job[w])
    BY <1>1, WorkOfNone, JobKinds
  <1>3. /\ hist.sent = [t \in Thresholds |-> 0] /\ DOMAIN hist = HistFields
        /\ hist.sent \in [Thresholds -> Nat] /\ \A t \in Thresholds : hist.sent[t] = 0
    BY <1>1 DEF HistFields
  <1>4. /\ DOMAIN c.db = DOMAIN EmptyDb /\ DOMAIN c.stripe = DOMAIN EmptyStripe
        /\ DOMAIN c.db.invite = Invites /\ \A i \in Invites : DOMAIN c.db.invite[i] = DOMAIN NoInvite
        /\ \A m \in c.db.member :
              /\ DOMAIN m = {"user", "of", "role", "email", "from"}
              /\ m.from # None => m.from \in Invites /\ c.db.invite[m.from].status = "accepted"
                                  /\ \A x \in c.db.member : x.from = m.from => x = m
        /\ c.db.budget \in Budget /\ c.db.period \in Nat
        /\ \A e \in c.stripe.mail : e.kind \in {"completed", "updated", "deleted"}
    BY CastsOK, Zenon DEF Budget
  <1>5. DOMAIN EmptyDb = DbFields
    BY DEF EmptyDb, DbFields
  <1>6. DOMAIN EmptyStripe = MailFields
    BY DEF EmptyStripe, MailFields
  <1>7. Base
    <2>1. JobsOK
      BY <1>1, <1>2 DEF JobsOK
    <2>2. DbOK
      BY <1>1, <1>4, <1>5 DEF DbOK
    <2>3. StripeOK
      BY <1>1, <1>4, <1>6 DEF StripeOK
    <2> QED BY <1>3, <2>1, <2>2, <2>3 DEF Base, HistOK
  <1>8. BudgetInv
    <2>1. OneAtATime
      BY <1>2 DEF OneAtATime, Busy
    <2>2. \A w \in Workers : ~Doing(w, "alert")
      BY <1>2 DEF Doing, Idle
    <2>3. \A t \in Thresholds : ToldOnce(t)
      BY <1>3 DEF ToldOnce
    <2> QED BY <1>1, <1>2, <1>4, <2>1, <2>2, <2>3 DEF BudgetInv
  <1>9. SeatInv
    <2>1. \A w \in Workers, i \in Invites : ~Seats(job[w], i) /\ ~Settles(job[w], i)
      BY <1>2 DEF SeatJob
    <2> QED BY <1>1, <1>4, <2>1, Zenon DEF SeatInv
  <1> QED BY <1>7, <1>8, <1>9 DEF Inv

LEMMA PlainKeepsInv ==
  ASSUME Inv, PlainStep
  PROVE  Inv'
  <1>1. Base' /\ BudgetAside
    BY PlainKeepsBase, PlainIsAside DEF Inv
  <1>2. SeatsAside
    BY JobKinds DEF PlainStep, JobsMove, Notes, Keeps, SeatsAside
  <1> QED BY <1>1, <1>2, BudgetsUndisturbed, SeatsUndisturbed DEF Inv

LEMMA CheckedKeepsInv ==
  ASSUME Inv, Checked
  PROVE  Inv'
  BY SeatsUndisturbed DEF Inv, Checked

LEMMA SeatingKeepsInv ==
  ASSUME Inv, Seating
  PROVE  Inv'
  BY BudgetsUndisturbed DEF Inv, Seating

(* A handler that fails is barred from both.                               *)
LEMMA FailsKeepsInv ==
  ASSUME Inv, NEW w \in Workers, Fails(w)
  PROVE  Inv'
  <1>1. /\ job' = [job EXCEPT ![w] = <<>>] /\ UNCHANGED <<db, stripe>>
        /\ hist' = [Noting(hist, {"failed"}) EXCEPT !.faults = @ - 1]
    BY DEF Fails
  <1>2. Notes /\ "failed" \in hist'.lapses
    <2>1. Notes
      BY <1>1, NotingFault DEF Inv, Base
    <2> QED BY <1>1, <2>1 DEF Noting, Inv, Base, HistOK, HistFields
  <1>3. Base'
    BY <1>1, <1>2, KeepingAll, StripeSame, WorkOfNone DEF Inv, Base, JobsOK, Notes, Keeps
  <1>4. ~Barring({"failed", "stale"})' /\ ~Barring({"failed", "overlap"})'
    BY <1>2 DEF Barring
  <1>5. BudgetInv'
    BY <1>4 DEF BudgetInv
  <1>6. SeatInv'
    <2>1. job'[w] = <<>> /\ \A v \in Workers : v # w => job'[v] = job[v]
      BY <1>1 DEF Inv, Base, JobsOK
    <2>2. \A i \in Invites : ~Seats(job'[w], i) /\ ~Settles(job'[w], i)
      BY <2>1, JobKinds, WorkOfNone DEF SeatJob
    <2>3. /\ \A m \in db'.member : m.from # None => m.from \in Invites
          /\ \A i \in Invites : db'.invite[i] = db.invite[i]
      BY <1>1, SeatInvIs DEF Inv
    <2> HIDE DEF Barring, Invitee
    <2> QED BY <1>3, <1>4, <2>1, <2>2, <2>3, Seated DEF Inv
  <1> QED BY <1>3, <1>5, <1>6 DEF Inv

LEMMA TeamKeepsInv ==
  ASSUME Inv, TeamNext
  PROVE  Inv'
  <1>1. ASSUME NEW w \in Workers, NEW u \in Users, NEW i \in Invites, Accept(w, u, i) PROVE Inv'
    BY <1>1, AcceptSeats, SeatingKeepsInv DEF Inv
  <1>2. ASSUME NEW w \in Workers, NEW u \in Users, NEW s, Switch(w, u, s) PROVE Inv'
    BY <1>2, SwitchIsPlain, PlainKeepsInv DEF Inv, MildStep
  <1>3. ASSUME NEW w \in Workers, NEW u \in Users, NEW email, NEW role, Invite(w, u, email, role) PROVE Inv'
    BY <1>3, InviteIsPlain, PlainKeepsInv DEF Inv, MildStep
  <1>4. ASSUME NEW w \in Workers, NEW u \in Users, NEW m, RemoveMember(w, u, m) PROVE Inv'
    BY <1>4, RemoveMemberIsPlain, PlainKeepsInv DEF Inv
  <1>5. ASSUME NEW u \in Users, NEW i \in Invites, Revoke(u, i) PROVE Inv'
    BY <1>5, RevokeSeats, SeatingKeepsInv DEF Inv
  <1>6. ASSUME NEW u \in Users, NEW m \in db.member, NEW role, SetRole(u, m, role) PROVE Inv'
    BY <1>6, SetRoleSeats, SeatingKeepsInv DEF Inv
  <1>7. ASSUME NEW i \in Invites, Expires(i) PROVE Inv'
    BY <1>7, ExpiresIsPlain, PlainKeepsInv DEF Inv, MildStep
  <1>8. ASSUME NEW w \in Workers, SendInvite(w) PROVE Inv'
    BY <1>8, SendInviteSeats, SeatingKeepsInv DEF Inv
  <1>9. ASSUME NEW w \in Workers, Seat(w) PROVE Inv'
    BY <1>9, SeatSeats, SeatingKeepsInv DEF Inv
  <1>10. ASSUME NEW w \in Workers, SettleInvite(w) PROVE Inv'
    BY <1>10, SettleSeats, SeatingKeepsInv DEF Inv
  <1>11. ASSUME NEW w \in Workers, ClearProfile(w) PROVE Inv'
    BY <1>11, ClearProfileIsPlain, PlainKeepsInv DEF Inv
  <1> QED BY <1>1, <1>2, <1>3, <1>4, <1>5, <1>6, <1>7, <1>8, <1>9, <1>10, <1>11, Zenon DEF TeamNext

LEMMA BudgetsKeepInv ==
  ASSUME Inv, BudgetsNext
  PROVE  Inv'
  <1>1. ASSUME NEW w \in Workers, NEW u \in Users, CheckBudgets(w, u) PROVE Checked
    BY <1>1, StartsChecking DEF Inv
  <1>2. ASSUME NEW u \in Users, CreateBudget(u) \/ DeleteBudget(u) PROVE Checked
    BY <1>2, CreatesBudget, DeletesBudget DEF Inv
  <1>3. ASSUME NEW u \in Users, NEW at \in SUBSET Thresholds, NEW on \in BOOLEAN, PatchBudget(u, at, on)
        PROVE  Checked
    BY <1>3, PatchesBudget DEF Inv
  <1>4. ASSUME NEW w \in Workers, RollPeriod(w) \/ ReadSpend(w) \/ SendAlert(w) \/ MarkTold(w) PROVE Checked
    BY <1>4, RollsPeriod, ReadsSpend, SendsAlert, MarksTold DEF Inv
  <1>5. ASSUME NewPeriod PROVE Checked
    BY <1>5, BeginsPeriod DEF Inv
  <1>6. ASSUME SpendMore PROVE Inv'
    BY <1>6, SpendMoreIsPlain, PlainKeepsInv DEF Inv, MildStep
  <1>7. Checked \/ Inv'
    BY <1>1, <1>2, <1>3, <1>4, <1>5, <1>6, Zenon DEF BudgetsNext
  <1> QED BY <1>7, CheckedKeepsInv

LEMMA InvStays ==
  ASSUME Inv, [Next]_vars
  PROVE  Inv'
  <1>1. CASE BillingNext \/ CloudAccountsNext \/ ConsoleNext
    BY <1>1, BillingIsPlain, CloudAccountsArePlain, ConsoleIsPlain, PlainKeepsInv DEF Inv, MildStep
  <1>2. CASE TeamNext \/ BudgetsNext
    BY <1>2, TeamKeepsInv, BudgetsKeepInv
  <1>3. CASE \E w \in Workers : Fails(w)
    BY <1>3, FailsKeepsInv
  <1>4. CASE UNCHANGED vars
    <2>1. UNCHANGED <<db, stripe, job, hist>>
      BY <1>4 DEF vars
    <2> QED BY <2>1, StillIsPlain, PlainKeepsInv DEF Inv, MildStep
  <1> QED BY <1>1, <1>2, <1>3, <1>4, Zenon DEF Next

(* The invariant of the workspace: the shape of what handlers still have   *)
(* to do, one budget check at a time, one answer to an invitation at a     *)
(* time, unless something went wrong.                                      *)
LEMMA InvHolds == Spec => []Inv
  BY InvAtFirst, InvStays, PTL DEF Spec

(* A budget's threshold is alerted at most once a period, for any          *)
(* thresholds and any number of workers, unless a check failed or          *)
(* overlapped another change of the budget (runBudgetChecks,               *)
(* sendBudgetAlert, alertedThresholds).                                    *)
THEOREM BudgetAlerts == Spec => []BudgetAlertsOnce
  <1>1. Inv => BudgetAlertsOnce
    BY DEF Inv, BudgetInv, BudgetAlertsOnce, ToldOnce
  <1> QED BY <1>1, InvHolds, PTL

(* Between requests every seat that came by an invitation has an accepted  *)
(* invitation of its own, for any users, workspaces and invitations,       *)
(* unless a handler failed or answered on what it had read before another  *)
(* did (POST /team/invites/:token/accept).                                 *)
THEOREM SeatsInvited == Spec => []SeatsAreInvited
  <1>1. ASSUME Inv, AllIdle, Barring({"failed", "stale"}), NEW m \in db.member, m.from # None
        PROVE  db.invite[m.from].status = "accepted" /\ ~\E x \in db.member \ {m} : x.from = m.from
    <2>1. Invitee(m)
      BY <1>1, SeatInvIs DEF Inv
    <2>2. ~UnderAnswer(m.from) /\ ~Raced(m.from)
      BY <1>1, WorkOfOne DEF UnderAnswer, Raced, Accepts, AllIdle, Idle
    <2> QED BY <1>1, <2>1, <2>2 DEF Invitee
  <1>2. Inv => SeatsAreInvited
    BY <1>1 DEF SeatsAreInvited
  <1> QED BY <1>2, InvHolds, PTL

(***************************** the console *********************************)
(* What no click can be blamed for: the API's own steps do not touch the   *)
(* tab and never say that a change has crossed.                            *)
Remarks == {"overlap", "stale", "failed", "swallowed", "disorder", "twice", "unmarked", "owner left"}
Says(more) ==
    \/ hist' = Noting(hist, more) \/ hist' = Noting(Spend, more)
    \/ \E f : \/ hist' = [Noting(hist, more) EXCEPT !.faults = f]
              \/ hist' = [Noting(hist, more) EXCEPT !.touched = f]
              \/ hist' = [Noting(hist, more) EXCEPT !.outgrown = f]
              \/ hist' = [Noting(Spend, more) EXCEPT !.touched = f]
              \/ hist' = [Noting(Spend, more) EXCEPT !.sent = f]
Unsaid ==
    \/ Compared \/ hist' = Spend
    \/ \E f : hist' = [Spend EXCEPT !.sent = f]
    \/ \E t, f : hist' = [hist EXCEPT !.sent[t] = f]
Discreet == UNCHANGED tab /\ (Unsaid \/ \E more \in SUBSET Remarks : Says(more))

LEMMA RemarksMade ==
  /\ Crowded \in SUBSET Remarks /\ {} \in SUBSET Remarks
  /\ \A x : Stale(x) \in SUBSET Remarks
  /\ {"failed"} \in SUBSET Remarks /\ {"swallowed"} \in SUBSET Remarks /\ {"unmarked"} \in SUBSET Remarks
  /\ {"twice"} \in SUBSET Remarks /\ {"disorder"} \in SUBSET Remarks /\ {"stale"} \in SUBSET Remarks
  /\ Crowded \cup {"owner left"} \in SUBSET Remarks
  /\ \A a, b \in SUBSET Remarks : a \cup b \in SUBSET Remarks
  <1>1. /\ "overlap" \in Remarks /\ "stale" \in Remarks /\ "failed" \in Remarks /\ "swallowed" \in Remarks
        /\ "disorder" \in Remarks /\ "twice" \in Remarks /\ "unmarked" \in Remarks /\ "owner left" \in Remarks
    BY Zenon DEF Remarks
  <1>2. \A x \in Remarks : {x} \in SUBSET Remarks
    OBVIOUS
  <1>3. Crowded = {} \/ Crowded = {"overlap"}
    BY Zenon DEF Crowded
  <1>4. \A x : Stale(x) = {} \/ Stale(x) = {"stale"}
    BY Zenon DEF Stale
  <1>5. {} \in SUBSET Remarks /\ \A a, b \in SUBSET Remarks : a \cup b \in SUBSET Remarks
    OBVIOUS
  <1> QED BY <1>1, <1>2, <1>3, <1>4, <1>5, Zenon

LEMMA DiscreetSays ==
  ASSUME HistOK, Discreet
  PROVE  UNCHANGED tab /\ hist.lapses \subseteq hist'.lapses /\ hist'.lapses \subseteq hist.lapses \cup Remarks
  <1>1. CASE Unsaid
    <2>0. CASE Compared
      BY <2>0, ComparedNothing DEF Discreet
    <2>1. CASE hist' = Spend
      BY <2>1 DEF HistOK, HistFields, Discreet, Spend
    <2>2. CASE \E f : hist' = [Spend EXCEPT !.sent = f]
      BY <2>2 DEF HistOK, HistFields, Discreet, Spend
    <2>3. CASE \E t, f : hist' = [hist EXCEPT !.sent[t] = f]
      <3>1. hist'.lapses = hist.lapses
        BY <2>3 DEF HistOK, HistFields
      <3> QED BY <3>1 DEF Discreet
    <2> QED BY <1>1, <2>0, <2>1, <2>2, <2>3 DEF Unsaid
  <1>2. ASSUME NEW more \in SUBSET Remarks, Says(more)
        PROVE  hist'.lapses = hist.lapses \cup more
    <2>1. CASE hist' = Noting(hist, more) \/ hist' = Noting(Spend, more)
      BY <2>1 DEF HistOK, HistFields, Noting, Spend
    <2>2. CASE \E f : hist' = [Noting(hist, more) EXCEPT !.faults = f]
      BY <2>2 DEF HistOK, HistFields, Noting, Spend
    <2>3. CASE \E f : hist' = [Noting(hist, more) EXCEPT !.touched = f]
      BY <2>3 DEF HistOK, HistFields, Noting, Spend
    <2>4. CASE \E f : hist' = [Noting(Spend, more) EXCEPT !.touched = f]
      BY <2>4 DEF HistOK, HistFields, Noting, Spend
    <2>5. CASE \E f : hist' = [Noting(Spend, more) EXCEPT !.sent = f]
      BY <2>5 DEF HistOK, HistFields, Noting, Spend
    <2>6. CASE \E f : hist' = [Noting(hist, more) EXCEPT !.outgrown = f]
      BY <2>6 DEF HistOK, HistFields, Noting, Spend
    <2> QED BY <1>2, <2>1, <2>2, <2>3, <2>4, <2>5, <2>6 DEF Says
  <1> QED BY <1>1, <1>2 DEF Discreet

LEMMA BillingIsDiscreet ==
  ASSUME BillingNext
  PROVE  Discreet
  <1>1. ASSUME NEW u, NEW plan, Checkout(u, plan) PROVE Discreet
    BY <1>1, RemarksMade, Zenon DEF Checkout, AtOnce, Discreet, Says, Unsaid, Compared
  <1>2. ASSUME NEW u, NEW k, NEW change, Portal(u, k, change) PROVE Discreet
    BY <1>2, RemarksMade, Zenon DEF Portal, AtOnce, Discreet, Says, Unsaid, Compared
  <1>3. ASSUME NEW k, Dunning(k) PROVE Discreet
    BY <1>3, RemarksMade, Zenon DEF Dunning, Discreet, Says, Unsaid, Compared
  <1>4. ASSUME NEW c, Pay(c) PROVE Discreet
    BY <1>4, RemarksMade, Zenon DEF Pay, Discreet, Says, Unsaid, Compared
  <1>5. ASSUME NEW w, NEW e, Deliver(w, e) PROVE Discreet
    BY <1>5, RemarksMade, Zenon DEF Deliver, With, Discreet, Says, Unsaid, Compared
  <1>6. ASSUME NEW w, Completed(w) PROVE Discreet
    BY <1>6, RemarksMade, Zenon DEF Completed, Clean, Discreet, Says, Unsaid, Compared
  <1>7. ASSUME NEW w, Upgrade(w) PROVE Discreet
    <2>1. PICK s, tier : hist' = Outgrown(hist, s, tier) /\ UNCHANGED tab
      BY <1>7, Zenon DEF Upgrade
    <2>2. Compared
      BY <2>1, OutgrownOnly DEF Compared
    <2> QED BY <2>1, <2>2, Zenon DEF Discreet, Unsaid
  <1>8. ASSUME NEW w, Updated(w) PROVE Discreet
    BY <1>8, RemarksMade, Zenon DEF Updated, Clean, Discreet, Says, Unsaid, Compared
  <1>9. ASSUME NEW w, Deleted(w) PROVE Discreet
    BY <1>9, RemarksMade, Zenon DEF Deleted, Clean, Discreet, Says, Unsaid, Compared
  <1>10. ASSUME NEW w, Save(w) PROVE Discreet
    <2>1. CASE Throws(w)
      BY <2>1, RemarksMade, Zenon DEF With, Throws, Discreet, Says
    <2>2. CASE ~Throws(w)
      <3> DEFINE p == This(w)
      <3>0. hist' = Outgrown(Noting(hist, Stale(p.was # db.space[p.of])), p.of, p.tier) /\ UNCHANGED tab
        BY <1>10, <2>2, Zenon DEF Save
      <3>1. PICK x, s, tier : hist' = Outgrown(Noting(hist, Stale(x)), s, tier) /\ UNCHANGED tab
        BY <3>0, Zenon
      <3>2. Says(Stale(x))
        <4>1. CASE hist' = Noting(hist, Stale(x))
          BY <4>1, Zenon DEF Says
        <4>2. CASE \E f : hist' = [Noting(hist, Stale(x)) EXCEPT !.outgrown = f]
          BY <4>2, Zenon DEF Says
        <4> QED BY <3>1, <4>1, <4>2, OutgrownOnly
      <3> QED BY <3>1, <3>2, RemarksMade, Zenon DEF Discreet
    <2> QED BY <2>1, <2>2
  <1>11. ASSUME NEW w, Mark(w) PROVE Discreet
    BY <1>11, RemarksMade, Zenon DEF Mark, Discreet, Says, Unsaid, Compared
  <1>12. ASSUME NEW w, NEW u, StatusAsked(w, u) PROVE Discreet
    BY <1>12, RemarksMade, Zenon DEF StatusAsked, Begin, Discreet, Says, Unsaid, Compared
  <1>13. ASSUME NEW w, Look(w) PROVE Discreet
    BY <1>13, Zenon DEF Look, Discreet, Unsaid, Compared
  <1>14. ASSUME NEW w, ReconcileTierDowngrade(w) PROVE Discreet
    BY <1>14, RemarksMade, Zenon DEF ReconcileTierDowngrade, Clean, Discreet, Says, Unsaid, Compared
  <1>15. ASSUME NEW w, Pause(w) PROVE Discreet
    BY <1>15, RemarksMade, Zenon DEF Pause, Clean, Throws, With, Discreet, Says, Unsaid, Compared
  <1>16. ASSUME NEW w, DowngradeOwnedOrganizations(w) PROVE Discreet
    BY <1>16, RemarksMade, Zenon DEF DowngradeOwnedOrganizations, Clean, Discreet, Says, Unsaid, Compared
  <1>17. ASSUME NEW w, NEW u, CreateOrg(w, u) PROVE Discreet
    BY <1>17, RemarksMade, Zenon DEF CreateOrg, Begin, Discreet, Says, Unsaid, Compared
  <1>18. ASSUME NEW w, InsertOrg(w) PROVE Discreet
    BY <1>18, RemarksMade, Zenon DEF InsertOrg, With, Discreet, Says, Unsaid, Compared
  <1>19. ASSUME NEW u, ConvertPersonal(u) PROVE Discreet
    BY <1>19, RemarksMade, Zenon DEF ConvertPersonal, AtOnce, Discreet, Says, Unsaid, Compared
  <1> QED BY <1>1, <1>2, <1>3, <1>4, <1>5, <1>6, <1>7, <1>8, <1>9, <1>10, <1>11, <1>12, <1>13, <1>14, <1>15, <1>16, <1>17, <1>18, <1>19, Zenon DEF BillingNext

LEMMA CloudAccountsIsDiscreet ==
  ASSUME CloudAccountsNext
  PROVE  Discreet
  <1>1. ASSUME NEW w, NEW u, Connect(w, u) PROVE Discreet
    BY <1>1, RemarksMade, Zenon DEF Connect, Begin, Discreet, Says, Unsaid, Compared
  <1>2. ASSUME NEW w, NEW u, DeleteOrg(w, u) PROVE Discreet
    BY <1>2, RemarksMade, Zenon DEF DeleteOrg, Begin, Discreet, Says, Unsaid, Compared
  <1>3. ASSUME NEW w, NEW u, NEW c, Disconnect(w, u, c) PROVE Discreet
    BY <1>3, RemarksMade, Zenon DEF Disconnect, Begin, Discreet, Says, Unsaid, Compared
  <1>4. ASSUME NEW w, NEW u, NEW c, Rotate(w, u, c) PROVE Discreet
    BY <1>4, RemarksMade, Zenon DEF Rotate, Begin, Discreet, Says, Unsaid, Compared
  <1>5. ASSUME NEW u, NEW c, NEW on, SetStatus(u, c, on) PROVE Discreet
    BY <1>5, RemarksMade, Zenon DEF SetStatus, Discreet, Says, Unsaid, Compared
  <1>6. ASSUME NEW u, CreateKey(u) PROVE Discreet
    BY <1>6, RemarksMade, Zenon DEF CreateKey, AtOnce, Discreet, Says, Unsaid, Compared
  <1>7. ASSUME NEW u, NEW k, RevokeKey(u, k) PROVE Discreet
    BY <1>7, RemarksMade, Zenon DEF RevokeKey, AtOnce, Discreet, Says, Unsaid, Compared
  <1>8. ASSUME NEW w, NEW u, NEW k, RollKey(w, u, k) PROVE Discreet
    BY <1>8, RemarksMade, Zenon DEF RollKey, Begin, Discreet, Says, Unsaid, Compared
  <1>9. ASSUME NEW w, NEW u, DeleteMe(w, u) PROVE Discreet
    BY <1>9, RemarksMade, Zenon DEF DeleteMe, Discreet, Says, Unsaid, Compared
  <1>10. ASSUME NEW w, NEW u, Provision(w, u) PROVE Discreet
    BY <1>10, RemarksMade, Zenon DEF Provision, Begin, Discreet, Says, Unsaid, Compared
  <1>11. ASSUME NEW w, NEW u, CreateAccount(w, u) PROVE Discreet
    BY <1>11, RemarksMade, Zenon DEF CreateAccount, Begin, Discreet, Says, Unsaid, Compared
  <1>12. ASSUME NEW w, StoreCredential(w) PROVE Discreet
    BY <1>12, RemarksMade, Zenon DEF StoreCredential, With, Stale, Discreet, Says, Unsaid, Compared
  <1>13. ASSUME NEW w, CreateCloud(w) PROVE Discreet
    BY <1>13, RemarksMade, Zenon DEF CreateCloud, Discreet, Says, Unsaid, Compared
  <1>14. ASSUME NEW w, DropCredential(w) PROVE Discreet
    BY <1>14, RemarksMade, Zenon DEF DropCredential, Clean, Discreet, Says, Unsaid, Compared
  <1>15. ASSUME NEW w, DropCloud(w) PROVE Discreet
    BY <1>15, RemarksMade, Zenon DEF DropCloud, With, Discreet, Says, Unsaid, Compared
  <1>16. ASSUME NEW w, Rewire(w) PROVE Discreet
    BY <1>16, RemarksMade, Zenon DEF Rewire, Discreet, Says, Unsaid, Compared
  <1>17. ASSUME NEW w, RevokeRolled(w) PROVE Discreet
    BY <1>17, RemarksMade, Zenon DEF RevokeRolled, With, Discreet, Says, Unsaid, Compared
  <1>18. ASSUME NEW w, EraseOne(w) PROVE Discreet
    BY <1>18, RemarksMade, Zenon DEF EraseOne, Discreet, Says, Unsaid, Compared
  <1>19. ASSUME NEW w, CancelAll(w) PROVE Discreet
    BY <1>19, RemarksMade, Zenon DEF CancelAll, Discreet, Says, Unsaid, Compared
  <1>20. ASSUME NEW w, SetProfile(w) PROVE Discreet
    BY <1>20, RemarksMade, Zenon DEF SetProfile, With, Discreet, Says, Unsaid, Compared
  <1>21. ASSUME NEW w, InsertPersonal(w) PROVE Discreet
    BY <1>21, RemarksMade, Zenon DEF InsertPersonal, With, Discreet, Says, Unsaid, Compared
  <1> QED BY <1>1, <1>2, <1>3, <1>4, <1>5, <1>6, <1>7, <1>8, <1>9, <1>10, <1>11, <1>12, <1>13, <1>14, <1>15, <1>16, <1>17, <1>18, <1>19, <1>20, <1>21, Zenon DEF CloudAccountsNext

LEMMA TeamIsDiscreet ==
  ASSUME TeamNext
  PROVE  Discreet
  <1>1. ASSUME NEW w, NEW u, NEW i, Accept(w, u, i) PROVE Discreet
    BY <1>1, RemarksMade, Zenon DEF Accept, Begin, Discreet, Says, Unsaid, Compared
  <1>2. ASSUME NEW w, NEW u, NEW s, Switch(w, u, s) PROVE Discreet
    BY <1>2, RemarksMade, Zenon DEF Switch, Begin, Discreet, Says, Unsaid, Compared
  <1>3. ASSUME NEW w, NEW u, NEW email, NEW role, Invite(w, u, email, role) PROVE Discreet
    BY <1>3, RemarksMade, Zenon DEF Invite, Begin, Discreet, Says, Unsaid, Compared
  <1>4. ASSUME NEW w, NEW u, NEW m, RemoveMember(w, u, m) PROVE Discreet
    BY <1>4, RemarksMade, Zenon DEF RemoveMember, Begin, Discreet, Says, Unsaid, Compared
  <1>5. ASSUME NEW u, NEW i, Revoke(u, i) PROVE Discreet
    BY <1>5, RemarksMade, Zenon DEF Revoke, AtOnce, Discreet, Says, Unsaid, Compared
  <1>6. ASSUME NEW u, NEW m, NEW role, SetRole(u, m, role) PROVE Discreet
    BY <1>6, RemarksMade, Zenon DEF SetRole, AtOnce, Discreet, Says, Unsaid, Compared
  <1>7. ASSUME NEW i, Expires(i) PROVE Discreet
    BY <1>7, RemarksMade, Zenon DEF Expires, Discreet, Says, Unsaid, Compared
  <1>8. ASSUME NEW w, SendInvite(w) PROVE Discreet
    BY <1>8, RemarksMade, Zenon DEF SendInvite, With, Discreet, Says, Unsaid, Compared
  <1>9. ASSUME NEW w, Seat(w) PROVE Discreet
    BY <1>9, RemarksMade, Zenon DEF Seat, With, Throws, Discreet, Says, Unsaid, Compared
  <1>10. ASSUME NEW w, SettleInvite(w) PROVE Discreet
    BY <1>10, RemarksMade, Zenon DEF SettleInvite, With, Discreet, Says, Unsaid, Compared
  <1>11. ASSUME NEW w, ClearProfile(w) PROVE Discreet
    BY <1>11, RemarksMade, Zenon DEF ClearProfile, Clean, Discreet, Says, Unsaid, Compared
  <1> QED BY <1>1, <1>2, <1>3, <1>4, <1>5, <1>6, <1>7, <1>8, <1>9, <1>10, <1>11, Zenon DEF TeamNext

LEMMA BudgetsIsDiscreet ==
  ASSUME BudgetsNext
  PROVE  Discreet
  <1>1. ASSUME NEW w, NEW u, CheckBudgets(w, u) PROVE Discreet
    BY <1>1, RemarksMade, Zenon DEF CheckBudgets, Begin, Discreet, Says, Unsaid, Compared
  <1>2. ASSUME NEW u, CreateBudget(u) PROVE Discreet
    BY <1>2, RemarksMade, Zenon DEF CreateBudget, Discreet, Says, Unsaid, Compared
  <1>3. ASSUME NEW u, DeleteBudget(u) PROVE Discreet
    BY <1>3, RemarksMade, Zenon DEF DeleteBudget, AtOnce, Discreet, Says, Unsaid, Compared
  <1>4. ASSUME NEW u, NEW at, NEW on, PatchBudget(u, at, on) PROVE Discreet
    BY <1>4, RemarksMade, Zenon DEF PatchBudget, AtOnce, Discreet, Says, Unsaid, Compared
  <1>5. ASSUME NEW w, RollPeriod(w) PROVE Discreet
    BY <1>5, RemarksMade, Zenon DEF RollPeriod, Clean, Discreet, Says, Unsaid, Compared
  <1>6. ASSUME NEW w, ReadSpend(w) PROVE Discreet
    BY <1>6, RemarksMade, Zenon DEF ReadSpend, Clean, Discreet, Says, Unsaid, Compared
  <1>7. ASSUME NEW w, SendAlert(w) PROVE Discreet
    BY <1>7, RemarksMade, Zenon DEF SendAlert, Discreet, Says, Unsaid, Compared
  <1>8. ASSUME NEW w, MarkTold(w) PROVE Discreet
    BY <1>8, RemarksMade, Zenon DEF MarkTold, Clean, Discreet, Says, Unsaid, Compared
  <1>9. ASSUME SpendMore PROVE Discreet
    BY <1>9, RemarksMade, Zenon DEF SpendMore, Discreet, Says, Unsaid, Compared
  <1>10. ASSUME NewPeriod PROVE Discreet
    BY <1>10, RemarksMade, Zenon DEF NewPeriod, Discreet, Says, Unsaid, Compared
  <1> QED BY <1>1, <1>2, <1>3, <1>4, <1>5, <1>6, <1>7, <1>8, <1>9, <1>10, Zenon DEF BudgetsNext

(********************************* the tab *********************************)
(* A tab as a value: its page, the workspace it is in, the calls under     *)
(* way. Nearly is what always holds of it, Home what holds until something *)
(* goes astray.                                                            *)
TabFields  == {"user", "org", "page", "ready", "shownOf", "channels", "rules", "editing", "calls"}
CallFields == {"kind", "arg", "mounted", "was", "from", "phase", "org", "at", "ok", "data"}
Loads  == {"channels", "rules"}
Edits  == {"put", "apply", "toggle", "save", "drop"}
Movers == {"switch", "me"}
Loading(c) == c.kind \in Loads /\ c.mounted
Clicked(c) == c.kind \in Edits \cup Movers
(* A change goes to the workspace it was clicked in, an answered load says *)
(* whose contents it brings, a tab that asks where it is stays there.      *)
CallOK(org, c) == c = NoCall \/
    /\ DOMAIN c = CallFields /\ c.kind \in Loads \cup Edits \cup Movers /\ c.mounted \in BOOLEAN
    /\ c.kind \in Edits => /\ c.from # None
                           /\ c.phase = "token" => c.from = org
                           /\ c.phase = "sent" => c.org = c.from
    /\ c.kind \in Loads /\ c.phase = "answered" => c.ok = TRUE /\ (c.org # None => c.at = c.org)
    /\ c.kind = "switch" => c.arg # None
    /\ c.kind = "me" /\ c.arg = None => c.was = org /\ c.was # None
TabOK(t) ==
    /\ DOMAIN t = TabFields /\ t.ready \in BOOLEAN
    /\ DOMAIN t.calls = Calls /\ t.calls = [n \in Calls |-> t.calls[n]]
CallsOK(t) == \A n \in Calls : CallOK(t.org, t.calls[n])
OneClick(t) == \A m, n \in Calls : Clicked(t.calls[m]) /\ Clicked(t.calls[n]) => m = n
(* What a page shows is of the workspace the tab is in, or a load is under way. *)
Awaits(t)  == \E n \in Calls : Loading(t.calls[n])
AwayOK(t)  == t.page \notin {"settings", "rules"} => ~t.ready /\ ~Awaits(t)
Nearly(t)  == TabOK(t) /\ CallsOK(t) /\ OneClick(t) /\ AwayOK(t)
Fresh(t)   == t.ready => Awaits(t)
Home(t)    == Nearly(t) /\ (t.ready /\ t.org # None => t.shownOf = t.org \/ Awaits(t))

LEMMA NotACall == ~Clicked(NoCall) /\ ~Loading(NoCall) /\ \A org : CallOK(org, NoCall)
  BY DEF NoCall, Clicked, Loading, Edits, Movers, Loads, CallOK

LEMMA CallIs ==
  ASSUME NEW org, NEW c, CallOK(org, c), c # NoCall
  PROVE  /\ DOMAIN c = CallFields /\ c.mounted \in BOOLEAN
         /\ c.kind \in Edits => ~Loading(c) /\ Clicked(c)
         /\ c.kind \in Movers => ~Loading(c) /\ Clicked(c)
         /\ c.kind \in Loads => ~Clicked(c)
  BY DEF CallOK, Edits, Movers, Loads, Loading, Clicked

(* The tab with another call at n.                                         *)
Replaced(t, n, c, t2) ==
    /\ TabOK(t2) /\ t2.calls = [t.calls EXCEPT ![n] = c]
    /\ t2.page = t.page /\ t2.ready = t.ready /\ t2.org = t.org /\ t2.shownOf = t.shownOf

LEMMA Replacing ==
  ASSUME NEW t, Nearly(t), NEW n \in Calls, NEW c, NEW t2, Replaced(t, n, c, t2),
         CallOK(t.org, c), Loading(c) => t.page \in {"settings", "rules"},
         Clicked(c) => \A m \in Calls \ {n} : ~Clicked(t.calls[m])
  PROVE  /\ Nearly(t2) /\ (Loading(c) => Awaits(t2))
         /\ (Loading(t.calls[n]) => Loading(c)) => (Home(t) => Home(t2)) /\ (Fresh(t) => Fresh(t2))
  <1>1. \A m \in Calls : t2.calls[m] = IF m = n THEN c ELSE t.calls[m]
    BY DEF Replaced, Nearly, TabOK
  <1>2. t2.page = t.page /\ t2.ready = t.ready /\ t2.org = t.org /\ t2.shownOf = t.shownOf /\ TabOK(t2)
    BY DEF Replaced
  <1>3. CallsOK(t2)
    BY <1>1, <1>2 DEF CallsOK, Nearly
  <1>4. OneClick(t2)
    BY <1>1 DEF OneClick, Nearly
  <1>5. AwayOK(t2)
    BY <1>1, <1>2 DEF AwayOK, Awaits, Nearly
  <1>6. (Loading(c) => Awaits(t2)) /\ ((Loading(t.calls[n]) => Loading(c)) => (Awaits(t) => Awaits(t2)))
    BY <1>1 DEF Awaits
  <1>7. Nearly(t2)
    BY <1>2, <1>3, <1>4, <1>5 DEF Nearly
  <1> QED BY <1>2, <1>6, <1>7 DEF Home, Fresh

(* The tab with other contents. *)
Alike(t, t2) ==
    /\ TabOK(t2) /\ t2.calls = t.calls
    /\ t2.page = t.page /\ t2.ready = t.ready /\ t2.org = t.org /\ t2.shownOf = t.shownOf
LEMMA AlikeIsHome ==
  ASSUME NEW t, Home(t), NEW t2, Alike(t, t2)
  PROVE  Home(t2)
  BY DEF Alike, Home, Nearly, CallsOK, OneClick, AwayOK, Awaits

LEMMA FreshIsHome ==
  ASSUME NEW t, Nearly(t), Fresh(t)
  PROVE  Home(t)
  BY DEF Fresh, Home

(* Fields of a call written one after another.                             *)
Put(t, n, c) == [t EXCEPT !.calls[n] = c]
LEMMA Putting ==
  ASSUME NEW t, TabOK(t), NEW n \in Calls, NEW c
  PROVE  /\ Put(t, n, c).calls[n] = c /\ Replaced(t, n, c, Put(t, n, c))
         /\ \A d : Put(Put(t, n, c), n, d) = Put(t, n, d)
  <1> SUFFICES ASSUME NEW d
               PROVE  /\ Put(t, n, c).calls[n] = c /\ Replaced(t, n, c, Put(t, n, c))
                      /\ Put(Put(t, n, c), n, d) = Put(t, n, d)
    BY Zenon
  <1> DEFINE a == [t.calls EXCEPT ![n] = c]
             b == [t.calls EXCEPT ![n] = d]
             t1 == Put(t, n, c)
  <1>1. a[n] = c /\ [a EXCEPT ![n] = d] = b
    BY DEF TabOK
  <1>2. t1 = [t EXCEPT !.calls = a] /\ Put(t, n, d) = [t EXCEPT !.calls = b]
    BY DEF Put
  <1> HIDE DEF t1
  <1>3. Put(t1, n, d) = [t1 EXCEPT !.calls = [t1.calls EXCEPT ![n] = d]]
    BY DEF Put
  <1>4. Replaced(t, n, c, t1)
    BY <1>2 DEF Replaced, TabOK, TabFields
  <1> HIDE DEF a, b
  <1>5. t1.calls = a
    BY <1>2 DEF TabOK, TabFields
  <1>6. [t1 EXCEPT !.calls = b] = [t EXCEPT !.calls = b]
    BY <1>2
  <1> QED BY <1>1, <1>2, <1>3, <1>4, <1>5, <1>6, Zenon DEF t1

LEMMA Sending ==
  ASSUME NEW t, TabOK(t), NEW n \in Calls
  PROVE  Replaced(t, n, [t.calls[n] EXCEPT !.phase = "sent", !.org = t.org],
               [t EXCEPT !.calls[n].phase = "sent", !.calls[n].org = t.org])
  <1> DEFINE t1 == [t EXCEPT !.calls[n].phase = "sent"]
             t2 == [t EXCEPT !.calls[n].phase = "sent", !.calls[n].org = t.org]
             c1 == [t.calls[n] EXCEPT !.phase = "sent"]
             c2 == [t.calls[n] EXCEPT !.phase = "sent", !.org = t.org]
  <1>1. t1 = Put(t, n, c1)
    BY DEF Put
  <1>2. t2 = Put(t, n, c2)
    <2>1. t2 = [t1 EXCEPT !.calls[n].org = t.org] /\ c2 = [c1 EXCEPT !.org = t.org]
      OBVIOUS
    <2> HIDE DEF t1, c1, t2, c2
    <2>2. t2 = Put(t1, n, [t1.calls[n] EXCEPT !.org = t.org])
      BY <2>1 DEF Put
    <2>3. t1.calls[n] = c1
      BY <1>1, Putting
    <2>4. t2 = Put(t1, n, c2)
      BY <2>1, <2>2, <2>3, Zenon
    <2>5. Put(Put(t, n, c1), n, c2) = Put(t, n, c2)
      BY Putting
    <2> QED BY <1>1, <2>4, <2>5
  <1> HIDE DEF t2, c2
  <1>3. Replaced(t, n, c2, t2)
    BY <1>2, Putting
  <1> QED BY <1>3 DEF t2, c2

LEMMA Replying ==
  ASSUME NEW t, TabOK(t), NEW n \in Calls, NEW ok, NEW data
  PROVE  Replaced(t, n, [t.calls[n] EXCEPT !.phase = "answered", !.ok = ok, !.data = data],
               [t EXCEPT !.calls[n].phase = "answered", !.calls[n].ok = ok, !.calls[n].data = data])
  <1> DEFINE t1 == [t EXCEPT !.calls[n].phase = "answered"]
             t2 == [t EXCEPT !.calls[n].phase = "answered", !.calls[n].ok = ok]
             t3 == [t EXCEPT !.calls[n].phase = "answered", !.calls[n].ok = ok, !.calls[n].data = data]
             c1 == [t.calls[n] EXCEPT !.phase = "answered"]
             c2 == [t.calls[n] EXCEPT !.phase = "answered", !.ok = ok]
             c3 == [t.calls[n] EXCEPT !.phase = "answered", !.ok = ok, !.data = data]
  <1>1. t1 = Put(t, n, c1)
    BY DEF Put
  <1>2. t2 = Put(t, n, c2)
    <2>1. t2 = [t1 EXCEPT !.calls[n].ok = ok] /\ c2 = [c1 EXCEPT !.ok = ok]
      OBVIOUS
    <2> HIDE DEF t1, c1, t2, c2
    <2>2. t2 = Put(t1, n, [t1.calls[n] EXCEPT !.ok = ok])
      BY <2>1 DEF Put
    <2>3. t1.calls[n] = c1
      BY <1>1, Putting
    <2>4. t2 = Put(t1, n, c2)
      BY <2>1, <2>2, <2>3, Zenon
    <2>5. Put(Put(t, n, c1), n, c2) = Put(t, n, c2)
      BY Putting
    <2> QED BY <1>1, <2>4, <2>5
  <1>3. t3 = Put(t, n, c3)
    <2>1. t3 = [t2 EXCEPT !.calls[n].data = data] /\ c3 = [c2 EXCEPT !.data = data]
      OBVIOUS
    <2> HIDE DEF t2, c2, t3, c3
    <2>2. t3 = Put(t2, n, [t2.calls[n] EXCEPT !.data = data])
      BY <2>1 DEF Put
    <2>3. t2.calls[n] = c2
      BY <1>2, Putting
    <2>4. t3 = Put(t2, n, c3)
      BY <2>1, <2>2, <2>3, Zenon
    <2>5. Put(Put(t, n, c2), n, c3) = Put(t, n, c3)
      BY Putting
    <2> QED BY <1>2, <2>4, <2>5
  <1> HIDE DEF t3, c3
  <1>4. Replaced(t, n, c3, t3)
    BY <1>3, Putting
  <1> QED BY <1>4 DEF t3, c3

LEMMA Loaded ==
  ASSUME NEW t, TabOK(t), NEW n \in Calls, NEW data, NEW s
  PROVE  Replaced(t, n, [t.calls[n] EXCEPT !.phase = "answered", !.ok = TRUE, !.data = data, !.at = s],
               [t EXCEPT !.calls[n].phase = "answered", !.calls[n].ok = TRUE, !.calls[n].data = data, !.calls[n].at = s])
  <1> DEFINE t1 == [t EXCEPT !.calls[n].phase = "answered"]
             t2 == [t EXCEPT !.calls[n].phase = "answered", !.calls[n].ok = TRUE]
             t3 == [t EXCEPT !.calls[n].phase = "answered", !.calls[n].ok = TRUE, !.calls[n].data = data]
             t4 == [t EXCEPT !.calls[n].phase = "answered", !.calls[n].ok = TRUE, !.calls[n].data = data, !.calls[n].at = s]
             c1 == [t.calls[n] EXCEPT !.phase = "answered"]
             c2 == [t.calls[n] EXCEPT !.phase = "answered", !.ok = TRUE]
             c3 == [t.calls[n] EXCEPT !.phase = "answered", !.ok = TRUE, !.data = data]
             c4 == [t.calls[n] EXCEPT !.phase = "answered", !.ok = TRUE, !.data = data, !.at = s]
  <1>1. t1 = Put(t, n, c1)
    BY DEF Put
  <1>2. t2 = Put(t, n, c2)
    <2>1. t2 = [t1 EXCEPT !.calls[n].ok = TRUE] /\ c2 = [c1 EXCEPT !.ok = TRUE]
      OBVIOUS
    <2> HIDE DEF t1, c1, t2, c2
    <2>2. t2 = Put(t1, n, [t1.calls[n] EXCEPT !.ok = TRUE])
      BY <2>1 DEF Put
    <2>3. t1.calls[n] = c1
      BY <1>1, Putting
    <2>4. t2 = Put(t1, n, c2)
      BY <2>1, <2>2, <2>3, Zenon
    <2>5. Put(Put(t, n, c1), n, c2) = Put(t, n, c2)
      BY Putting
    <2> QED BY <1>1, <2>4, <2>5
  <1>3. t3 = Put(t, n, c3)
    <2>1. t3 = [t2 EXCEPT !.calls[n].data = data] /\ c3 = [c2 EXCEPT !.data = data]
      OBVIOUS
    <2> HIDE DEF t2, c2, t3, c3
    <2>2. t3 = Put(t2, n, [t2.calls[n] EXCEPT !.data = data])
      BY <2>1 DEF Put
    <2>3. t2.calls[n] = c2
      BY <1>2, Putting
    <2>4. t3 = Put(t2, n, c3)
      BY <2>1, <2>2, <2>3, Zenon
    <2>5. Put(Put(t, n, c2), n, c3) = Put(t, n, c3)
      BY Putting
    <2> QED BY <1>2, <2>4, <2>5
  <1>4. t4 = Put(t, n, c4)
    <2>1. t4 = [t3 EXCEPT !.calls[n].at = s] /\ c4 = [c3 EXCEPT !.at = s]
      OBVIOUS
    <2> HIDE DEF t3, c3, t4, c4
    <2>2. t4 = Put(t3, n, [t3.calls[n] EXCEPT !.at = s])
      BY <2>1 DEF Put
    <2>3. t3.calls[n] = c3
      BY <1>3, Putting
    <2>4. t4 = Put(t3, n, c4)
      BY <2>1, <2>2, <2>3, Zenon
    <2>5. Put(Put(t, n, c3), n, c4) = Put(t, n, c4)
      BY Putting
    <2> QED BY <1>3, <2>4, <2>5
  <1> HIDE DEF t4, c4
  <1>5. Replaced(t, n, c4, t4)
    BY <1>4, Putting
  <1> QED BY <1>5 DEF t4, c4

LEMMA Finishing ==
  ASSUME NEW t, TabOK(t), NEW n \in Calls
  PROVE  /\ Replaced(t, n, NoCall, Done(t, n)) /\ n \in Free(Done(t, n))
         /\ \A m \in Calls : Done(t, n).calls[m] = IF m = n THEN NoCall ELSE t.calls[m]
  <1>1. Replaced(t, n, NoCall, Done(t, n))
    BY DEF Replaced, TabOK, TabFields, Done
  <1>2. \A m \in Calls : Done(t, n).calls[m] = IF m = n THEN NoCall ELSE t.calls[m]
    BY <1>1 DEF Replaced, TabOK
  <1> QED BY <1>1, <1>2 DEF Free

(* The new call takes a free place. *)
Asking(t, kind, arg) ==
    [kind |-> kind, arg |-> arg, mounted |-> TRUE, was |-> t.org, from |-> t.shownOf,
     phase |-> "token", org |-> None, at |-> None, ok |-> FALSE, data |-> {}]
LEMMA AskingIs ==
  ASSUME NEW t, TabOK(t), Free(t) # {}, NEW kind, NEW arg
  PROVE  \E n \in Free(t) : n \in Calls /\ Replaced(t, n, Asking(t, kind, arg), Ask(t, kind, arg))
  <1> DEFINE n == Least(Free(t))
             c == Asking(t, kind, arg)
  <1>1. n \in Free(t) /\ n \in Calls
    <2>1. Free(t) \subseteq Calls /\ Calls \subseteq Nat
      BY DEF Free, Calls
    <2> QED BY <2>1, LeastIsIn
  <1>2. Ask(t, kind, arg) = [t EXCEPT !.calls[n] = c]
    BY DEF Ask, Asking
  <1> HIDE DEF n, c
  <1>3. Replaced(t, n, c, [t EXCEPT !.calls[n] = c])
    BY <1>1 DEF Replaced, TabOK, TabFields
  <1> QED BY <1>1, <1>2, <1>3 DEF c

LEMMA LoadIsNoClick ==
  ASSUME NEW t, NEW kind \in Loads, NEW arg
  PROVE  ~Clicked(Asking(t, kind, arg))
  <1>1. Asking(t, kind, arg).kind = kind
    BY Zenon DEF Asking
  <1> QED BY <1>1 DEF Clicked, Edits, Movers, Loads

(************** what a click, a load and a page do to the tab **************)
LEMMA AsksMore ==
  ASSUME NEW t, Nearly(t), Free(t) # {}, NEW kind, NEW arg, kind \in Loads \cup Edits \cup Movers,
         kind \in Edits => t.shownOf # None /\ t.shownOf = t.org,
         kind = "switch" => arg # None, kind = "me" /\ arg = None => t.org # None,
         kind \in Loads => t.page \in {"settings", "rules"},
         kind \in Edits \cup Movers => \A m \in Calls : ~Clicked(t.calls[m])
  PROVE  LET t2 == Ask(t, kind, arg) IN
         /\ Nearly(t2) /\ (kind \in Loads => Awaits(t2))
         /\ Home(t) => Home(t2)
         /\ Fresh(t) => Fresh(t2)
         /\ t2.org = t.org /\ t2.page = t.page /\ t2.ready = t.ready
         /\ \E n \in Free(t) : t2.calls = [t.calls EXCEPT ![n] = Asking(t, kind, arg)]
  <1> DEFINE c == Asking(t, kind, arg)
             t2 == Ask(t, kind, arg)
  <1>1. PICK n \in Free(t) : n \in Calls /\ Replaced(t, n, c, t2)
    BY AskingIs DEF Nearly
  <1>2. /\ c # NoCall /\ DOMAIN c = CallFields /\ c.kind = kind /\ c.arg = arg /\ c.mounted = TRUE
        /\ c.was = t.org /\ c.from = t.shownOf /\ c.phase = "token" /\ c.org = None
    <2>1. c = Asking(t, kind, arg)
      OBVIOUS
    <2> HIDE DEF c
    <2>2. DOMAIN c = CallFields /\ DOMAIN NoCall = {"kind"}
      BY <2>1 DEF Asking, CallFields, NoCall
    <2>3. c # NoCall
      BY <2>2 DEF CallFields
    <2> QED BY <2>1, <2>2, <2>3 DEF Asking
  <1> HIDE DEF c, t2
  <1>3. CallOK(t.org, c)
    BY <1>2 DEF CallOK, Edits, Loads, Movers
  <1>4. (Clicked(c) <=> kind \in Edits \cup Movers) /\ (Loading(c) <=> kind \in Loads)
    BY <1>2 DEF Clicked, Loading
  <1>5. ~Loading(t.calls[n])
    BY NotACall DEF Free
  <1>6. /\ Nearly(t2) /\ (Loading(c) => Awaits(t2))
        /\ (Home(t) => Home(t2)) /\ (Fresh(t) => Fresh(t2))
    BY <1>1, <1>3, <1>4, <1>5, Replacing
  <1>7. t2.org = t.org /\ t2.page = t.page /\ t2.ready = t.ready /\ t2.calls = [t.calls EXCEPT ![n] = c]
    BY <1>1 DEF Replaced
  <1> QED BY <1>1, <1>4, <1>6, <1>7 DEF c, t2

(* The pages are told, and each asks again for what it shows. *)
LEMMA LoadIsFresh ==
  ASSUME NEW t, Nearly(t), Free(t) # {}
  PROVE  /\ Nearly(Load(t)) /\ Fresh(Load(t)) /\ Load(t).org = t.org
         /\ \A m \in Calls : Clicked(Load(t).calls[m]) => Load(t).calls[m] = t.calls[m]
         /\ \E f \in Free(t) : \A m \in Calls \ {f} : Load(t).calls[m] = t.calls[m]
  <1>1. CASE t.page = "settings"
    <2> DEFINE t2 == Ask(t, "channels", None)
    <2>1. Load(t) = t2
      BY <1>1 DEF Load
    <2>2. /\ Nearly(t2) /\ Awaits(t2) /\ t2.org = t.org
          /\ \E n \in Free(t) : t2.calls = [t.calls EXCEPT ![n] = Asking(t, "channels", None)]
      BY <1>1, AsksMore DEF Loads, Edits, Movers
    <2> HIDE DEF t2
    <2>3. ~Clicked(Asking(t, "channels", None))
      BY LoadIsNoClick DEF Loads
    <2>4. PICK n \in Free(t) : t2.calls = [t.calls EXCEPT ![n] = Asking(t, "channels", None)]
      BY <2>2
    <2>5. \A m \in Calls : t2.calls[m] = IF m = n THEN Asking(t, "channels", None) ELSE t.calls[m]
      BY <2>4 DEF Nearly, TabOK
    <2> QED BY <2>1, <2>2, <2>3, <2>5 DEF Fresh
  <1>2. CASE t.page = "rules"
    <2> DEFINE t1 == [t EXCEPT !.ready = FALSE]
               t2 == Ask(t1, "rules", None)
    <2>1. Load(t) = t2
      BY <1>2 DEF Load
    <2>2. TabOK(t1) /\ t1.page = "rules" /\ t1.ready = FALSE /\ t1.org = t.org /\ t1.calls = t.calls
      BY <1>2 DEF Nearly, TabOK, TabFields
    <2> HIDE DEF t1
    <2>3. Nearly(t1) /\ Free(t1) = Free(t)
      BY <2>2 DEF Nearly, CallsOK, OneClick, AwayOK, Free
    <2>4. /\ Nearly(t2) /\ Awaits(t2) /\ t2.org = t.org
          /\ \E n \in Free(t) : t2.calls = [t.calls EXCEPT ![n] = Asking(t1, "rules", None)]
      BY <2>2, <2>3, AsksMore DEF Loads, Edits, Movers
    <2> HIDE DEF t2
    <2>5. ~Clicked(Asking(t1, "rules", None))
      BY LoadIsNoClick DEF Loads
    <2>6. PICK n \in Free(t) : t2.calls = [t.calls EXCEPT ![n] = Asking(t1, "rules", None)]
      BY <2>4
    <2>7. \A m \in Calls : t2.calls[m] = IF m = n THEN Asking(t1, "rules", None) ELSE t.calls[m]
      BY <2>6 DEF Nearly, TabOK
    <2> QED BY <2>1, <2>4, <2>5, <2>7 DEF Fresh
  <1>3. CASE t.page \notin {"settings", "rules"}
    <2>1. Load(t) = t
      BY <1>3, Zenon DEF Load
    <2> QED BY <1>3, <2>1 DEF Nearly, AwayOK, Fresh
  <1> QED BY <1>1, <1>2, <1>3

LEMMA MountIsFresh ==
  ASSUME NEW t, Nearly(t), NEW page
  PROVE  /\ Nearly(Mount(t, page)) /\ Fresh(Mount(t, page)) /\ Free(Mount(t, page)) = Free(t)
  <1> DEFINE calls == [n \in Calls |-> Left(t.calls[n])]
             t2 == Mount(t, page)
  <1>1. /\ DOMAIN t2 = TabFields /\ t2.ready = FALSE /\ t2.page = page /\ t2.org = t.org
        /\ t2.calls = calls
    BY DEF Nearly, TabOK, TabFields, Mount
  <1>2. \A n \in Calls : t2.calls[n] = Left(t.calls[n])
    BY <1>1
  <1>3. ASSUME NEW n \in Calls
        PROVE  LET c == t.calls[n] d == Left(t.calls[n]) IN
               /\ CallOK(t.org, d) /\ (Clicked(d) => Clicked(c)) /\ ~Loading(d) /\ (d = NoCall <=> c = NoCall)
    <2> DEFINE c == t.calls[n]
               d == Left(t.calls[n])
    <2>1. CallOK(t.org, c)
      BY DEF Nearly, CallsOK
    <2>2. CASE c = NoCall
      BY <2>2, NotACall DEF Left
    <2>3. CASE c # NoCall
      <3>1. d = [c EXCEPT !.mounted = FALSE] /\ DOMAIN c = CallFields
        BY <2>1, <2>3, CallIs DEF Left
      <3> HIDE DEF d, c
      <3>2. /\ DOMAIN d = CallFields /\ d.mounted = FALSE /\ d.kind = c.kind /\ d.from = c.from /\ d.phase = c.phase
            /\ d.org = c.org /\ d.ok = c.ok /\ d.at = c.at /\ d.arg = c.arg /\ d.was = c.was
        BY <3>1 DEF CallFields
      <3>3. d # NoCall
        <4>1. DOMAIN NoCall = {"kind"}
          BY DEF NoCall
        <4> QED BY <3>2, <4>1 DEF CallFields
      <3>4. CallOK(t.org, d)
        BY <2>1, <2>3, <3>2 DEF CallOK
      <3> QED BY <2>3, <3>2, <3>3, <3>4 DEF Clicked, Loading, c, d
    <2> QED BY <2>2, <2>3
  <1> HIDE DEF t2, calls
  <1>4. TabOK(t2)
    BY <1>1 DEF TabOK, calls
  <1>5. Nearly(t2)
    BY <1>1, <1>2, <1>3, <1>4 DEF Nearly, CallsOK, OneClick, AwayOK, Awaits
  <1>6. Fresh(t2) /\ Free(t2) = Free(t)
    BY <1>1, <1>2, <1>3 DEF Fresh, Free
  <1> QED BY <1>5, <1>6 DEF t2

(* The tab goes to another workspace when nothing clicked depends on where it is. *)
MovedTo(t, o) == [t EXCEPT !.org = o]
LEMMA Moving ==
  ASSUME NEW t, Nearly(t), NEW o, NEW t2, t2 = MovedTo(t, o),
         \A n \in Calls : Clicked(t.calls[n]) => t.calls[n].kind = "me" /\ t.calls[n].arg # None
  PROVE  Nearly(t2) /\ (Fresh(t) => Fresh(t2))
  <1>1. /\ TabOK(t2) /\ t2.org = o /\ t2.calls = t.calls /\ t2.ready = t.ready /\ t2.shownOf = t.shownOf
        /\ t2.page = t.page
    BY DEF Nearly, TabOK, TabFields, MovedTo
  <1>2. ASSUME NEW n \in Calls PROVE CallOK(o, t.calls[n])
    <2>1. CallOK(t.org, t.calls[n])
      BY DEF Nearly, CallsOK
    <2> QED BY <2>1 DEF CallOK, Clicked, Edits, Movers, Loads
  <1>3. Nearly(t2)
    BY <1>1, <1>2 DEF Nearly, CallsOK, OneClick, AwayOK, Awaits
  <1> QED BY <1>1, <1>3 DEF Fresh, Awaits

(*************************** the tab's own steps ***************************)
Astray == {"hasty", "unplaced", "outrun", "failed"}
Homely == Barring(Astray) => "crossed" \notin hist.lapses /\ (tab # NoTab => Home(tab))

LEMMA StaysHomely ==
  ASSUME Homely, tab # NoTab, NEW more, hist'.lapses = hist.lapses \cup more,
         more \cap Astray = {} /\ Home(tab) => "crossed" \notin more /\ Home(tab')
  PROVE  Homely'
  BY DEF Homely, Barring

LEMMA Hushed ==
  ASSUME HistOK
  PROVE  /\ hist' = Spend \/ UNCHANGED hist => hist'.lapses = hist.lapses \cup {}
         /\ \A more : hist' = Noting(hist, more) \/ hist' = Noting(Spend, more) =>
              hist'.lapses = hist.lapses \cup more
         /\ \A more, faults : hist' = [Noting(hist, more) EXCEPT !.faults = faults] =>
              hist'.lapses = hist.lapses \cup more
  <1>1. ASSUME NEW more, NEW faults, hist' = [Noting(hist, more) EXCEPT !.faults = faults]
        PROVE  hist'.lapses = hist.lapses \cup more
    BY <1>1 DEF HistOK, HistFields, Noting
  <1>2. hist' = Spend \/ UNCHANGED hist => hist'.lapses = hist.lapses \cup {}
    BY DEF HistOK, HistFields, Spend
  <1>3. ASSUME NEW more, hist' = Noting(hist, more) \/ hist' = Noting(Spend, more)
        PROVE  hist'.lapses = hist.lapses \cup more
    BY <1>3 DEF HistOK, HistFields, Noting, Spend
  <1> QED BY <1>1, <1>2, <1>3

LEMMA SilentStep ==
  ASSUME HistOK, Homely, tab # NoTab, hist' = Spend \/ UNCHANGED hist, Home(tab) => Home(tab')
  PROVE  Homely'
  BY Hushed, StaysHomely

LEMMA QuietTab ==
  ASSUME NEW t, Quiet(t)
  PROVE  \A n \in Calls : t.calls[n] = NoCall /\ ~Clicked(t.calls[n]) /\ ~Loading(t.calls[n])
  BY NotACall DEF Quiet, Free

(* A click says whether the tab was quiet, and knew where it was.          *)
LEMMA Clicking ==
  ASSUME HistOK, Homely, NEW t, Clicks(t),
         /\ Quiet(tab) /\ tab.org # None /\ Home(tab) /\ Free(tab) # {}
            /\ (\A n \in Calls : ~Clicked(tab.calls[n])) /\ (tab.ready => tab.shownOf = tab.org)
         => Home(t)
  PROVE  Homely'
  <1>1. tab # NoTab /\ Free(tab) # {} /\ tab' = t /\ hist' = Noting(Spend, Hasty)
    BY Zenon DEF Clicks, Open
  <1>2. hist'.lapses = hist.lapses \cup Hasty
    BY <1>1, Hushed
  <1>3. ASSUME Hasty \cap Astray = {}, Home(tab) PROVE "crossed" \notin Hasty /\ Home(tab')
    <2>1. Quiet(tab) /\ tab.org # None
      BY <1>3 DEF Hasty, Astray
    <2>2. (\A n \in Calls : ~Clicked(tab.calls[n])) /\ ~Awaits(tab)
      BY <2>1, QuietTab DEF Awaits
    <2>3. tab.ready => tab.shownOf = tab.org
      BY <1>3, <2>1, <2>2 DEF Home
    <2>4. "crossed" \notin Hasty
      BY DEF Hasty
    <2> QED BY <1>1, <1>3, <2>1, <2>2, <2>3, <2>4
  <1> QED BY <1>1, <1>2, <1>3, StaysHomely

LEMMA ClickingEdit ==
  ASSUME HistOK, Homely, NEW kind \in Edits, NEW arg, tab.ready, Clicks(Ask(tab, kind, arg))
  PROVE  Homely'
  <1>1. ASSUME tab.org # None, Home(tab), Free(tab) # {}, \A n \in Calls : ~Clicked(tab.calls[n]),
               tab.shownOf = tab.org
        PROVE  Home(Ask(tab, kind, arg))
    <2>1. kind \notin Loads /\ kind \notin Movers
      BY DEF Edits, Loads, Movers
    <2>2. kind # "switch" /\ kind # "me" /\ Nearly(tab)
      BY <1>1, <2>1 DEF Movers, Home
    <2> QED BY <1>1, <2>1, <2>2, AsksMore
  <1> QED BY <1>1, Clicking

LEMMA ClickSwitchHomely ==
  ASSUME HistOK, Homely, NEW s \in Spaces, ClickSwitch(s)
  PROVE  Homely'
  <1>1. Clicks(Ask(tab, "switch", s)) /\ s # None
    <2>1. Clicks(Ask(tab, "switch", s))
      BY Zenon DEF ClickSwitch
    <2> QED BY <2>1, DocumentsOK DEF None
  <1>2. ASSUME Home(tab), Free(tab) # {}, \A n \in Calls : ~Clicked(tab.calls[n])
        PROVE  Home(Ask(tab, "switch", s))
    BY <1>1, <1>2, AsksMore DEF Home, Loads, Edits, Movers
  <1> QED BY <1>1, <1>2, Clicking

LEMMA ClickRefreshHomely ==
  ASSUME HistOK, Homely, ClickRefresh
  PROVE  Homely'
  <1>1. Clicks(Ask(tab, "me", None))
    BY DEF ClickRefresh
  <1>2. ASSUME Home(tab), Free(tab) # {}, \A n \in Calls : ~Clicked(tab.calls[n]), tab.org # None
        PROVE  Home(Ask(tab, "me", None))
    BY <1>2, AsksMore DEF Home, Loads, Edits, Movers
  <1> QED BY <1>1, <1>2, Clicking

LEMMA ClickChannelsHomely ==
  ASSUME HistOK, Homely, ClickChannels
  PROVE  Homely'
  <1>1. tab.ready /\ \E all : Clicks(Ask(tab, "put", all))
    BY Zenon DEF ClickChannels, Shows
  <1> QED BY <1>1, ClickingEdit DEF Edits

LEMMA ClickRulesHomely ==
  ASSUME HistOK, Homely, ClickRules
  PROVE  Homely'
  <1>1. /\ tab.ready
        /\ \/ \E kind \in {"apply", "toggle", "drop", "save"} : \E r : Clicks(Ask(tab, kind, r))
           \/ \E r : Clicks([tab EXCEPT !.editing = {r}])
    <2>1. /\ tab.ready
          /\ \/ Clicks(Ask(tab, "apply", Preset))
             \/ \E r \in tab.rules : \/ \E kind \in {"toggle", "drop"} : Clicks(Ask(tab, kind, r))
                                     \/ Clicks([tab EXCEPT !.editing = {r}])
             \/ \E r \in tab.editing : Clicks(Ask(tab, "save", r))
      BY Zenon DEF ClickRules, Shows
    <2> QED BY <2>1, Zenon
  <1>2. ASSUME NEW r, Clicks([tab EXCEPT !.editing = {r}]) PROVE Homely'
    <2>1. Home(tab) => Home([tab EXCEPT !.editing = {r}])
      <3>1. TabOK(tab) => Alike(tab, [tab EXCEPT !.editing = {r}])
        BY DEF Alike, TabOK, TabFields
      <3> QED BY <3>1, AlikeIsHome DEF Home, Nearly
    <2> QED BY <1>2, <2>1, Clicking
  <1> QED BY <1>1, <1>2, ClickingEdit DEF Edits

LEMMA VisitHomely ==
  ASSUME HistOK, Homely, NEW page, Visit(page)
  PROVE  Homely'
  <1>1. tab # NoTab /\ Free(tab) # {} /\ tab' = Load(Mount(tab, page)) /\ hist' = Spend
    BY Zenon DEF Visit, Open
  <1>2. Home(tab) => Home(tab')
    <2> SUFFICES ASSUME Home(tab) PROVE Home(tab')
      OBVIOUS
    <2> DEFINE t == Mount(tab, page)
    <2>1. Nearly(t) /\ Free(t) # {}
      BY <1>1, MountIsFresh DEF Home
    <2> HIDE DEF t
    <2>2. Home(Load(t))
      BY <2>1, LoadIsFresh, FreshIsHome
    <2> QED BY <1>1, <2>2 DEF t
  <1> QED BY <1>1, <1>2, SilentStep

(***************************** the calls' steps ****************************)
(* A call that goes out, an answer, an answer with contents.               *)
CallSent(t, c) == [c EXCEPT !.phase = "sent", !.org = t.org]
TabSent(t, n)  == [t EXCEPT !.calls[n].phase = "sent", !.calls[n].org = t.org]
CallAnswered(c, ok, data)   == [c EXCEPT !.phase = "answered", !.ok = ok, !.data = data]
TabAnswered(t, n, ok, data) ==
    [t EXCEPT !.calls[n].phase = "answered", !.calls[n].ok = ok, !.calls[n].data = data]
CallLoaded(c, data, s)   == [c EXCEPT !.phase = "answered", !.ok = TRUE, !.data = data, !.at = s]
TabLoaded(t, n, data, s) ==
    [t EXCEPT !.calls[n].phase = "answered", !.calls[n].ok = TRUE, !.calls[n].data = data, !.calls[n].at = s]
LEMMA OneCallChanges ==
  ASSUME NEW t, TabOK(t), NEW n \in Calls
  PROVE  /\ Replaced(t, n, CallSent(t, t.calls[n]), TabSent(t, n))
         /\ \A ok, data : Replaced(t, n, CallAnswered(t.calls[n], ok, data), TabAnswered(t, n, ok, data))
         /\ \A data, s : Replaced(t, n, CallLoaded(t.calls[n], data, s), TabLoaded(t, n, data, s))
  <1>1. Replaced(t, n, CallSent(t, t.calls[n]), TabSent(t, n))
    BY Sending, Zenon DEF CallSent, TabSent
  <1>2. ASSUME NEW ok, NEW data
        PROVE  Replaced(t, n, CallAnswered(t.calls[n], ok, data), TabAnswered(t, n, ok, data))
    BY Replying, Zenon DEF CallAnswered, TabAnswered
  <1>3. ASSUME NEW data, NEW s
        PROVE  Replaced(t, n, CallLoaded(t.calls[n], data, s), TabLoaded(t, n, data, s))
    BY Loaded, Zenon DEF CallLoaded, TabLoaded
  <1> QED BY <1>1, <1>2, <1>3

LEMMA SendsIsHome ==
  ASSUME NEW t, Home(t), NEW n \in Calls, t.calls[n] # NoCall, t.calls[n].phase = "token"
  PROVE  Home(TabSent(t, n))
  <1> DEFINE c == t.calls[n]
             d == CallSent(t, c)
             t2 == TabSent(t, n)
  <1>1. Replaced(t, n, d, t2)
    BY OneCallChanges DEF Home, Nearly
  <1>2. CallOK(t.org, c) /\ c # NoCall /\ c.phase = "token" /\ DOMAIN c = CallFields
    BY CallIs DEF Home, Nearly, CallsOK
  <1> HIDE DEF t2
  <1>3. CallOK(t.org, d) /\ (Loading(d) <=> Loading(c)) /\ (Clicked(d) <=> Clicked(c))
    <2> HIDE DEF d, c
    <2>1. /\ DOMAIN d = CallFields /\ d.kind = c.kind /\ d.from = c.from /\ d.phase = "sent" /\ d.org = t.org
          /\ d.arg = c.arg /\ d.was = c.was /\ d.mounted = c.mounted
      BY <1>2 DEF d, CallSent, CallFields
    <2>2. (Loading(d) <=> Loading(c)) /\ (Clicked(d) <=> Clicked(c))
      BY <2>1 DEF Loading, Clicked
    <2>3. d.phase # "token" /\ d.phase # "answered"
      BY <2>1
    <2>4. c.kind \in Edits => c.from # None /\ c.from = t.org
      BY <1>2, Zenon DEF CallOK
    <2>5. /\ c.kind \in Loads \cup Edits \cup Movers /\ c.mounted \in BOOLEAN
          /\ c.kind = "switch" => c.arg # None
          /\ c.kind = "me" /\ c.arg = None => c.was = t.org /\ c.was # None
      BY <1>2, Zenon DEF CallOK
    <2>6. CallOK(t.org, d)
      BY <2>1, <2>3, <2>4, <2>5 DEF CallOK
    <2> QED BY <2>2, <2>6
  <1>4. Loading(c) => t.page \in {"settings", "rules"}
    BY DEF Home, Nearly, AwayOK, Awaits
  <1>5. Clicked(c) => \A m \in Calls \ {n} : ~Clicked(t.calls[m])
    BY DEF Home, Nearly, OneClick
  <1> HIDE DEF d
  <1> QED BY <1>1, <1>3, <1>4, <1>5, Replacing DEF Home, t2

LEMMA AnswerIsHome ==
  ASSUME NEW t, Home(t), NEW n \in Calls, t.calls[n] # NoCall, t.calls[n].kind \notin Loads,
         NEW ok, NEW data
  PROVE  Home(TabAnswered(t, n, ok, data))
  <1> DEFINE c == t.calls[n]
             d == CallAnswered(c, ok, data)
             t2 == TabAnswered(t, n, ok, data)
  <1>1. Replaced(t, n, d, t2)
    BY OneCallChanges DEF Home, Nearly
  <1>2. CallOK(t.org, c) /\ c # NoCall /\ DOMAIN c = CallFields /\ c.kind \notin Loads
    BY CallIs DEF Home, Nearly, CallsOK
  <1> HIDE DEF t2
  <1>3. CallOK(t.org, d) /\ ~Loading(d) /\ ~Loading(c) /\ (Clicked(d) <=> Clicked(c))
    <2> HIDE DEF d, c
    <2>1. /\ DOMAIN d = CallFields /\ d.kind = c.kind /\ d.from = c.from /\ d.phase = "answered"
          /\ d.arg = c.arg /\ d.was = c.was /\ d.mounted = c.mounted
      BY <1>2 DEF d, CallAnswered, CallFields
    <2> QED BY <1>2, <2>1 DEF CallOK, Loading, Clicked
  <1>4. Clicked(c) => \A m \in Calls \ {n} : ~Clicked(t.calls[m])
    BY DEF Home, Nearly, OneClick
  <1> HIDE DEF d
  <1> QED BY <1>1, <1>3, <1>4, Replacing DEF Home, t2

LEMMA AnsweringIsHome ==
  ASSUME Home(tab), NEW n \in Calls, tab.calls[n] # NoCall, tab.calls[n].kind \notin Loads,
         \E ok, data : Answer(n, ok, data)
  PROVE  Home(tab')
  <1>1. PICK ok, data : tab' = TabAnswered(tab, n, ok, data)
    BY Zenon DEF Answer, TabAnswered
  <1> QED BY <1>1, AnswerIsHome

LEMMA LoadedIsHome ==
  ASSUME NEW t, Home(t), NEW n \in Calls, t.calls[n] # NoCall, t.calls[n].kind \in Loads,
         NEW data, NEW s, t.calls[n].org # None => s = t.calls[n].org
  PROVE  Home(TabLoaded(t, n, data, s))
  <1> DEFINE c == t.calls[n]
             d == CallLoaded(c, data, s)
             t2 == TabLoaded(t, n, data, s)
  <1>1. Replaced(t, n, d, t2)
    BY OneCallChanges DEF Home, Nearly
  <1>2. CallOK(t.org, c) /\ c # NoCall /\ DOMAIN c = CallFields /\ c.kind \in Loads /\ (c.org # None => s = c.org)
    BY CallIs DEF Home, Nearly, CallsOK
  <1> HIDE DEF t2
  <1>3. CallOK(t.org, d) /\ (Loading(d) <=> Loading(c)) /\ ~Clicked(d)
    <2> HIDE DEF d, c
    <2>1. /\ DOMAIN d = CallFields /\ d.kind = c.kind /\ d.from = c.from /\ d.phase = "answered"
          /\ d.arg = c.arg /\ d.was = c.was /\ d.mounted = c.mounted /\ d.at = s /\ d.org = c.org
      BY <1>2 DEF d, CallLoaded, CallFields
    <2>2. d.ok = TRUE
      BY <1>2, Zenon DEF d, CallLoaded, CallFields
    <2>3. d.kind \notin Edits /\ d.kind # "switch" /\ d.kind # "me" /\ ~Clicked(d)
      BY <1>2, <2>1 DEF Loads, Edits, Movers, Clicked
    <2>4. Loading(d) <=> Loading(c)
      BY <2>1 DEF Loading
    <2> QED BY <1>2, <2>1, <2>2, <2>3, <2>4, Zenon DEF CallOK
  <1>4. Loading(c) => t.page \in {"settings", "rules"}
    BY DEF Home, Nearly, AwayOK, Awaits
  <1> HIDE DEF d
  <1> QED BY <1>1, <1>3, <1>4, Replacing DEF Home, t2

(* The API answers for the workspace in the header, when there is one.     *)
LEMMA HereIs ==
  ASSUME NEW n, NEW permission, NEW s \in Here(n, permission), tab.calls[n].org # None
  PROVE  s = tab.calls[n].org
  BY DEF Here, Allowed, ResolveOrg, In

LEMMA SendsHomely ==
  ASSUME HistOK, Homely, NEW n \in Calls, Sends(n)
  PROVE  Homely'
  <1>1. /\ tab # NoTab /\ tab.calls[n] # NoCall /\ tab.calls[n].phase = "token" /\ UNCHANGED hist
        /\ tab' = TabSent(tab, n)
    BY Zenon DEF Sends, Open, TabSent
  <1> QED BY <1>1, SendsIsHome, SilentStep

LEMMA ReadsHomely ==
  ASSUME HistOK, Homely, NEW n \in Calls, NEW kind \in Loads, Asked(n, kind), NEW permission, NEW data,
         Reads(n, permission, data)
  PROVE  Homely'
  <1>1. tab # NoTab /\ tab.calls[n] # NoCall /\ tab.calls[n].kind \in Loads
    BY Zenon DEF Asked, Waits, Open
  <1>2. CASE \E s \in Here(n, permission) :
               /\ tab' = TabLoaded(tab, n, data[s], s)
               /\ UNCHANGED hist
    <2>1. PICK s \in Here(n, permission) :
               /\ tab' = TabLoaded(tab, n, data[s], s)
               /\ UNCHANGED hist
      BY <1>2
    <2>2. tab.calls[n].org # None => s = tab.calls[n].org
      BY HereIs
    <2>3. Home(tab) => Home(tab')
      BY <1>1, <2>1, <2>2, LoadedIsHome
    <2> QED BY <1>1, <2>1, <2>3, SilentStep
  <1>3. CASE hist' = Noting(hist, {"failed"}) \/ \E f : hist' = [Noting(hist, {"failed"}) EXCEPT !.faults = f]
    <2>1. hist'.lapses = hist.lapses \cup {"failed"}
      BY <1>3, Hushed
    <2> QED BY <2>1 DEF Homely, Barring, Astray
  <1>4. \/ \E s \in Here(n, permission) :
               /\ tab' = TabLoaded(tab, n, data[s], s)
               /\ UNCHANGED hist
        \/ hist' = Noting(hist, {"failed"}) \/ \E f : hist' = [Noting(hist, {"failed"}) EXCEPT !.faults = f]
    BY Zenon DEF Reads, With, TabLoaded
  <1> QED BY <1>2, <1>3, <1>4

LEMMA ServeSwitchHomely ==
  ASSUME HistOK, Homely, NEW n \in Calls, ServeSwitch(n)
  PROVE  Homely'
  <1>1. /\ tab # NoTab /\ tab.calls[n] # NoCall /\ tab.calls[n].kind = "switch"
        /\ hist' = Noting(hist, Crowded) /\ \E ok, data : Answer(n, ok, data)
    BY Zenon DEF ServeSwitch, Asked, Waits, Open, With
  <1>2. Home(tab) => Home(tab')
    BY <1>1, AnsweringIsHome DEF Loads
  <1>3. "crossed" \notin Crowded
    BY DEF Crowded
  <1>4. hist'.lapses = hist.lapses \cup Crowded
    BY <1>1, Hushed
  <1> QED BY <1>1, <1>2, <1>3, <1>4, StaysHomely

LEMMA ServeMeHomely ==
  ASSUME HistOK, Homely, NEW n \in Calls, ServeMe(n)
  PROVE  Homely'
  <1>1. /\ tab # NoTab /\ tab.calls[n] # NoCall /\ tab.calls[n].kind = "me"
        /\ UNCHANGED hist /\ \E ok, data : Answer(n, ok, data)
    BY Zenon DEF ServeMe, Asked, Waits, Open
  <1>2. Home(tab) => Home(tab')
    BY <1>1, AnsweringIsHome DEF Loads
  <1> QED BY <1>1, <1>2, SilentStep

(* A change served in the workspace it was clicked in has not crossed.     *)
LEMMA ServedAtHome ==
  ASSUME HistOK, Homely, NEW n \in Calls, NEW kind \in Edits, Asked(n, kind), NEW permission,
         \/ \E s \in Here(n, permission) : \E ok, data : Answer(n, ok, data) /\ Crosses(n, s)
         \/ \E ok, data : Answer(n, ok, data) /\ UNCHANGED hist
  PROVE  Homely'
  <1>1. tab # NoTab /\ tab.calls[n] # NoCall /\ tab.calls[n].kind \in Edits /\ tab.calls[n].phase = "sent"
    BY Zenon DEF Asked, Waits, Open
  <1>2. \E ok, data : Answer(n, ok, data)
    BY Zenon
  <1>3. tab.calls[n].kind \notin Loads
    BY <1>1 DEF Edits, Loads
  <1>4. Home(tab) => Home(tab')
    BY <1>1, <1>2, <1>3, AnsweringIsHome
  <1>5. CASE UNCHANGED hist
    BY <1>1, <1>4, <1>5, SilentStep
  <1>6. ASSUME NEW s \in Here(n, permission), Crosses(n, s) PROVE Homely'
    <2> DEFINE more == IF s = tab.calls[n].from THEN {} ELSE {"crossed"}
    <2>1. hist' = Noting(hist, more)
      BY <1>6 DEF Crosses, With
    <2>2. Home(tab) => s = tab.calls[n].from
      <3> SUFFICES ASSUME Home(tab) PROVE s = tab.calls[n].from
        OBVIOUS
      <3>1. tab.calls[n].from # None /\ tab.calls[n].org = tab.calls[n].from
        <4>1. CallOK(tab.org, tab.calls[n])
          BY DEF Home, Nearly, CallsOK
        <4> QED BY <1>1, <4>1, Zenon DEF CallOK
      <3> QED BY <3>1, HereIs
    <2>3. Home(tab) => "crossed" \notin more
      BY <2>2
    <2> HIDE DEF more
    <2>4. hist'.lapses = hist.lapses \cup more
      BY <2>1, Hushed
    <2> QED BY <1>1, <1>4, <2>3, <2>4, StaysHomely
  <1> QED BY <1>5, <1>6, Zenon

LEMMA ServePutHomely ==
  ASSUME HistOK, Homely, NEW n \in Calls, ServePut(n)
  PROVE  Homely'
  <1>1. /\ Asked(n, "put")
        /\ \/ \E s \in Here(n, "alerts_write") : \E ok, data : Answer(n, ok, data) /\ Crosses(n, s)
           \/ \E ok, data : Answer(n, ok, data) /\ UNCHANGED hist
    BY Zenon DEF ServePut, Changes, Refuse
  <1> QED BY <1>1, ServedAtHome DEF Edits

LEMMA ServeRuleHomely ==
  ASSUME HistOK, Homely, NEW n \in Calls, ServeRule(n)
  PROVE  Homely'
  <1>1. /\ \E kind \in {"apply", "toggle", "save", "drop"} : Asked(n, kind)
        /\ \E permission : 
           \/ \E s \in Here(n, permission) : \E ok, data : Answer(n, ok, data) /\ Crosses(n, s)
           \/ \E ok, data : Answer(n, ok, data) /\ UNCHANGED hist
    BY Zenon DEF ServeRule, Changes, Refuse
  <1>2. {"apply", "toggle", "save", "drop"} \subseteq Edits
    BY DEF Edits
  <1> QED BY <1>1, <1>2, ServedAtHome

(* A call that is over. *)
LEMMA DoneIs ==
  ASSUME NEW t, Home(t), NEW n \in Calls, t.calls[n] # NoCall
  PROVE  /\ Nearly(Done(t, n)) /\ n \in Free(Done(t, n))
         /\ ~Loading(t.calls[n]) => Home(Done(t, n))
         /\ Clicked(t.calls[n]) => \A m \in Calls : ~Clicked(Done(t, n).calls[m])
         /\ Done(t, n).org = t.org /\ Done(t, n).page = t.page
         /\ \A m \in Calls : m # n => Done(t, n).calls[m] = t.calls[m]
  <1> DEFINE t2 == Done(t, n)
  <1>1. /\ Replaced(t, n, NoCall, t2) /\ n \in Free(t2)
        /\ \A m \in Calls : t2.calls[m] = IF m = n THEN NoCall ELSE t.calls[m]
    BY Finishing DEF Home, Nearly
  <1> HIDE DEF t2
  <1>2. CallOK(t.org, NoCall) /\ ~Loading(NoCall) /\ ~Clicked(NoCall)
    BY NotACall
  <1>3. Nearly(t2) /\ (~Loading(t.calls[n]) => Home(t2))
    BY <1>1, <1>2, Replacing DEF Home
  <1>4. Clicked(t.calls[n]) => \A m \in Calls : ~Clicked(t2.calls[m])
    BY <1>1, <1>2 DEF Home, Nearly, OneClick
  <1> QED BY <1>1, <1>3, <1>4 DEF Replaced, t2

LEMMA SwitchedIsHome ==
  ASSUME NEW t, Home(t), NEW n \in Calls, t.calls[n] # NoCall, t.calls[n].kind = "switch", Free(t) # {},
         NEW arg, arg = t.calls[n].arg
  PROVE  Home([Ask(Load(Done(t, n)), "me", arg) EXCEPT !.org = arg])
  <1> DEFINE t1 == Done(t, n)
             t2 == Load(t1)
             t3 == Ask(t2, "me", arg)
  <1>1. Clicked(t.calls[n]) /\ arg # None
    <2>1. CallOK(t.org, t.calls[n])
      BY DEF Home, Nearly, CallsOK
    <2> QED BY <2>1, Zenon DEF CallOK, Clicked, Movers
  <1>2. /\ Nearly(t1) /\ n \in Free(t1) /\ (\A m \in Calls : ~Clicked(t1.calls[m]))
        /\ \A m \in Calls : m # n => t1.calls[m] = t.calls[m]
    BY <1>1, DoneIs
  <1> HIDE DEF t1
  <1>3. /\ Nearly(t2) /\ Fresh(t2) 
        /\ \A m \in Calls : Clicked(t2.calls[m]) => t2.calls[m] = t1.calls[m]
        /\ \E f \in Free(t1) : \A m \in Calls \ {f} : t2.calls[m] = t1.calls[m]
    BY <1>2, LoadIsFresh
  <1> HIDE DEF t2
  <1>4. Free(t2) # {}
    <2>1. PICK f \in Free(t1) : \A m \in Calls \ {f} : t2.calls[m] = t1.calls[m]
      BY <1>3
    <2>2. PICK g \in Free(t) : TRUE
      OBVIOUS
    <2>3. g \in Calls /\ g # n /\ t1.calls[g] = NoCall
      BY <1>2 DEF Free
    <2>4. \E m \in Calls \ {f} : t1.calls[m] = NoCall
      BY <1>2, <2>3 DEF Free
    <2> QED BY <2>1, <2>4 DEF Free
  <1>5. \A m \in Calls : ~Clicked(t2.calls[m])
    BY <1>2, <1>3
  <1>6. /\ Nearly(t3) /\ Fresh(t3)
        /\ \E f \in Free(t2) : t3.calls = [t2.calls EXCEPT ![f] = Asking(t2, "me", arg)]
    BY <1>1, <1>3, <1>4, <1>5, AsksMore DEF Loads, Edits, Movers
  <1> HIDE DEF t3
  <1>7. ASSUME NEW m \in Calls, Clicked(t3.calls[m]) PROVE t3.calls[m].kind = "me" /\ t3.calls[m].arg # None
    <2>1. PICK f \in Free(t2) : t3.calls = [t2.calls EXCEPT ![f] = Asking(t2, "me", arg)]
      BY <1>6
    <2>2. t3.calls[m] = Asking(t2, "me", arg)
      BY <1>3, <1>5, <1>7, <2>1 DEF Nearly, TabOK
    <2>3. Asking(t2, "me", arg).kind = "me" /\ Asking(t2, "me", arg).arg = arg
      BY DEF Asking
    <2> QED BY <1>1, <2>2, <2>3
  <1> DEFINE t4 == [t3 EXCEPT !.org = arg]
  <1>8. Nearly(t4) /\ Fresh(t4)
    <2>1. t4 = [t3 EXCEPT !.org = arg]
      OBVIOUS
    <2> HIDE DEF t4
    <2>2. \A m \in Calls : Clicked(t3.calls[m]) => t3.calls[m].kind = "me" /\ t3.calls[m].arg # None
      BY <1>7
    <2>3. t4 = MovedTo(t3, arg)
      BY <2>1 DEF MovedTo
    <2> QED BY <1>6, <2>2, <2>3, Moving
  <1> HIDE DEF t4
  <1>9. Home(t4)
    BY <1>8, FreshIsHome
  <1> QED BY <1>9 DEF t4, t3, t2, t1

LEMMA RefreshedIsHome ==
  ASSUME NEW t, Home(t), NEW n \in Calls, t.calls[n] # NoCall, t.calls[n].kind = "me",
         NEW call, call = t.calls[n], NEW told, NEW t2, t2 = [Done(t, n) EXCEPT !.org = told],
         NEW bump, bump \in BOOLEAN, ~bump => told = call.was \/ call.was = None
  PROVE  Home(Settled(IF bump THEN Load(t2) ELSE t2, call))
  <1> DEFINE t1 == Done(t, n)
  <1>1. Clicked(call) /\ ~Loading(call)
    BY DEF Clicked, Loading, Movers, Loads
  <1>2. /\ Nearly(t1) /\ Home(t1) /\ n \in Free(t1) /\ (\A m \in Calls : ~Clicked(t1.calls[m])) /\ t1.org = t.org
    BY <1>1, DoneIs
  <1>3. t2 = [t1 EXCEPT !.org = told]
    OBVIOUS
  <1> HIDE DEF t1
  <1>4. /\ Nearly(t2) /\ t2.org = told /\ t2.calls = t1.calls
        /\ t2.ready = t1.ready /\ t2.shownOf = t1.shownOf /\ t2.page = t1.page
    <2>1. \A m \in Calls : Clicked(t1.calls[m]) => t1.calls[m].kind = "me" /\ t1.calls[m].arg # None
      BY <1>2
    <2>2. t2 = MovedTo(t1, told)
      BY <1>3 DEF MovedTo
    <2>3. Nearly(t2)
      BY <1>2, <2>1, <2>2, Moving
    <2>4. /\ t2.org = told /\ t2.calls = t1.calls
          /\ t2.ready = t1.ready /\ t2.shownOf = t1.shownOf /\ t2.page = t1.page
      BY <1>2, <1>3 DEF Nearly, TabOK, TabFields
    <2> QED BY <2>3, <2>4
  <1>5. Free(t2) # {}
    BY <1>2, <1>4 DEF Free
  <1>6. Nearly(Load(t2)) /\ Home(Load(t2))
    BY <1>4, <1>5, LoadIsFresh, FreshIsHome
  <1>7. CASE call.arg # None
    <2>1. \A t3 : Nearly(t3) => Home(Mount(t3, "home"))
      BY MountIsFresh, FreshIsHome
    <2> QED BY <1>4, <1>6, <1>7, <2>1 DEF Settled
  <1>8. CASE call.arg = None
    <2>1. call.was = t.org /\ call.was # None
      <3>1. CallOK(t.org, call)
        BY DEF Home, Nearly, CallsOK
      <3> QED BY <1>8, <3>1, Zenon DEF CallOK
    <2>2. ~bump => Home(t2)
      <3>1. ~bump => Alike(t1, t2)
        BY <1>2, <1>4, <2>1 DEF Alike, Nearly
      <3> QED BY <1>2, <3>1, AlikeIsHome
    <2> QED BY <1>6, <1>8, <2>2 DEF Settled
  <1> QED BY <1>7, <1>8

(* What a load brought is shown, in the workspace it was asked for in. *)
LEMMA ShowingIsHome ==
  ASSUME NEW t, Home(t), NEW n \in Calls, t.calls[n] # NoCall, t.calls[n].kind \in Loads,
         t.calls[n].phase = "answered", NEW t1, Alike([Done(t, n) EXCEPT !.shownOf = t.calls[n].at], t1),
         t.calls[n].mounted => t.calls[n].org = t.org,
         NEW t2, t2 = IF ~t.calls[n].mounted THEN Done(t, n)
                      ELSE [(IF t.calls[n].ok THEN t1 ELSE Done(t, n)) EXCEPT !.ready = TRUE]
  PROVE  Home(t2)
  <1> DEFINE c == t.calls[n]
             d == Done(t, n)
  <1>1. Nearly(d) /\ d.org = t.org /\ d.page = t.page /\ (~Loading(c) => Home(d))
    BY DoneIs
  <1>2. c.ok = TRUE /\ (c.org # None => c.at = c.org) /\ c.mounted \in BOOLEAN
    <2>1. CallOK(t.org, c)
      BY DEF Home, Nearly, CallsOK
    <2> QED BY <2>1, Zenon DEF CallOK
  <1>3. CASE ~c.mounted
    <2>1. t2 = d /\ ~Loading(c)
      BY <1>3 DEF Loading
    <2> QED BY <1>1, <2>1
  <1>4. CASE c.mounted
    <2>1. t2 = [t1 EXCEPT !.ready = TRUE]
      BY <1>2, <1>4, Zenon
    <2>2. Loading(c) /\ t.page \in {"settings", "rules"}
      BY <1>4 DEF Loading, Home, Nearly, AwayOK, Awaits
    <2> HIDE DEF d, c
    <2> DEFINE d1 == [d EXCEPT !.shownOf = c.at]
    <2>3. /\ d1.calls = d.calls /\ d1.page = d.page /\ d1.org = d.org /\ d1.shownOf = c.at
      BY <1>1 DEF Nearly, TabOK, TabFields
    <2>4. Alike(d1, t1)
      BY DEF c, d
    <2> HIDE DEF d1
    <2>5. /\ TabOK(t2) /\ t2.calls = d.calls /\ t2.page = d.page /\ t2.ready = TRUE /\ t2.org = d.org
          /\ t2.shownOf = c.at
      BY <2>1, <2>3, <2>4 DEF Alike, TabOK, TabFields
    <2>6. Nearly(t2)
      BY <1>1, <2>2, <2>5 DEF Nearly, CallsOK, OneClick, AwayOK
    <2>7. t2.org # None => t2.shownOf = t2.org
      BY <1>1, <1>2, <1>4, <2>5 DEF c
    <2> QED BY <2>6, <2>7 DEF Home
  <1> QED BY <1>2, <1>3, <1>4

(******************************* the answers *******************************)
LEMMA SwitchedHomely ==
  ASSUME HistOK, Homely, NEW n \in Calls, Switched(n)
  PROVE  Homely'
  <1> DEFINE arg == tab.calls[n].arg
             t == [Ask(Load(Done(tab, n)), "me", arg) EXCEPT !.org = arg]
  <1>1. /\ tab # NoTab /\ tab.calls[n] # NoCall /\ tab.calls[n].kind = "switch" /\ Cardinality(Free(tab)) > 0
        /\ UNCHANGED hist /\ (tab' = Done(tab, n) \/ tab' = t)
    BY Zenon DEF Switched, Answered, Waits, Open
  <1>2. Free(tab) # {}
    BY <1>1, FS_EmptySet
  <1>3. Home(tab) => Home(t)
    BY <1>1, <1>2, SwitchedIsHome, Zenon
  <1>4. Home(tab) => Home(Done(tab, n))
    BY <1>1, DoneIs DEF Loading, Loads
  <1> HIDE DEF t
  <1> QED BY <1>1, <1>3, <1>4, SilentStep

LEMMA RefreshedHomely ==
  ASSUME HistOK, Homely, NEW n \in Calls, Refreshed(n)
  PROVE  Homely'
  <1> DEFINE call == tab.calls[n]
             told == IF call.ok THEN Least(call.data) ELSE None
             t    == [Done(tab, n) EXCEPT !.org = told]
             bump == ~call.ok \/ (told # call.was /\ call.was # None)
  <1>1. /\ tab # NoTab /\ call # NoCall /\ call.kind = "me" /\ UNCHANGED hist
        /\ tab' = Settled(IF bump THEN Load(t) ELSE t, call)
    BY Zenon DEF Refreshed, Answered, Waits, Open
  <1>2. bump \in BOOLEAN /\ (~bump => told = call.was \/ call.was = None)
    BY Zenon
  <1>3. Home(tab) => Home(tab')
    <2> SUFFICES ASSUME Home(tab) PROVE Home(tab')
      OBVIOUS
    <2>1. call = tab.calls[n] /\ t = [Done(tab, n) EXCEPT !.org = told]
      OBVIOUS
    <2> HIDE DEF bump, t, told, call
    <2>2. Home(Settled(IF bump THEN Load(t) ELSE t, call))
      BY <1>1, <1>2, <2>1, RefreshedIsHome, Zenon
    <2> QED BY <1>1, <2>2
  <1> QED BY <1>1, <1>3, SilentStep

LEMMA ShownHomely ==
  ASSUME HistOK, Homely, NEW n \in Calls, NEW kind \in Loads, Answered(n, kind), NEW t,
         Home(tab) => Alike([Done(tab, n) EXCEPT !.shownOf = tab.calls[n].at], t), Shown(n, t)
  PROVE  Homely'
  <1> DEFINE c == tab.calls[n]
             more == IF c.mounted /\ c.org # tab.org THEN {"outrun"} ELSE {}
  <1>1. /\ tab # NoTab /\ c # NoCall /\ c.kind \in Loads /\ c.phase = "answered" /\ hist' = Noting(hist, more)
        /\ tab' = IF ~c.mounted THEN Done(tab, n)
                  ELSE [(IF c.ok THEN t ELSE Done(tab, n)) EXCEPT !.ready = TRUE]
    BY Zenon DEF Answered, Waits, Open, Shown, With
  <1>2. more \cap Astray = {} /\ Home(tab) => Home(tab')
    <2> SUFFICES ASSUME more \cap Astray = {}, Home(tab) PROVE Home(tab')
      OBVIOUS
    <2>1. c.mounted => c.org = tab.org
      <3>1. more # {"outrun"}
        BY DEF Astray
      <3> QED BY <3>1, Zenon
    <2> QED BY <1>1, <2>1, ShowingIsHome, Zenon
  <1>3. "crossed" \notin more
    OBVIOUS
  <1> HIDE DEF more
  <1>4. hist'.lapses = hist.lapses \cup more
    BY <1>1, Hushed
  <1> QED BY <1>1, <1>2, <1>3, <1>4, StaysHomely

(* What the page makes of an answer leaves it where it was.                *)
LEMMA Contents ==
  ASSUME NEW t, TabOK(t), NEW a, NEW s
  PROVE  /\ Alike([t EXCEPT !.shownOf = s], [t EXCEPT !.channels = a, !.shownOf = s])
         /\ Alike([t EXCEPT !.shownOf = s], [t EXCEPT !.rules = a, !.shownOf = s])
  <1>1. Alike([t EXCEPT !.shownOf = s], [t EXCEPT !.channels = a, !.shownOf = s])
    BY DEF Alike, TabOK, TabFields
  <1>2. Alike([t EXCEPT !.shownOf = s], [t EXCEPT !.rules = a, !.shownOf = s])
    BY DEF Alike, TabOK, TabFields
  <1> QED BY <1>1, <1>2

Rewritten(t, t2) ==
    \/ \E a : t2 = [t EXCEPT !.channels = a]
    \/ \E a : t2 = [t EXCEPT !.rules = a]
    \/ \E a, b : t2 = [t EXCEPT !.editing = a, !.rules = b]
LEMMA RewrittenIsAlike ==
  ASSUME NEW t, TabOK(t), NEW t2, Rewritten(t, t2)
  PROVE  Alike(t, t2)
  <1>1. ASSUME NEW a PROVE t2 = [t EXCEPT !.channels = a] => Alike(t, t2)
    <2>1. Alike(t, [t EXCEPT !.channels = a])
      BY DEF Alike, TabOK, TabFields
    <2> QED BY <2>1, Zenon
  <1>2. ASSUME NEW a PROVE t2 = [t EXCEPT !.rules = a] => Alike(t, t2)
    <2>1. Alike(t, [t EXCEPT !.rules = a])
      BY DEF Alike, TabOK, TabFields
    <2> QED BY <2>1, Zenon
  <1>3. ASSUME NEW a, NEW b PROVE t2 = [t EXCEPT !.editing = a, !.rules = b] => Alike(t, t2)
    <2>1. Alike(t, [t EXCEPT !.editing = a, !.rules = b])
      BY DEF Alike, TabOK, TabFields
    <2> QED BY <2>1, Zenon
  <1> QED BY <1>1, <1>2, <1>3, Zenon DEF Rewritten

LEMMA ReceiveChannelsHomely ==
  ASSUME HistOK, Homely, NEW n \in Calls, ReceiveChannels(n)
  PROVE  Homely'
  <1> DEFINE t == [Done(tab, n) EXCEPT !.channels = tab.calls[n].data, !.shownOf = tab.calls[n].at]
  <1>1. Answered(n, "channels") /\ Shown(n, t)
    BY Zenon DEF ReceiveChannels
  <1>2. Home(tab) => Alike([Done(tab, n) EXCEPT !.shownOf = tab.calls[n].at], t)
    <2> SUFFICES ASSUME Home(tab) PROVE Alike([Done(tab, n) EXCEPT !.shownOf = tab.calls[n].at], t)
      OBVIOUS
    <2>1. tab.calls[n] # NoCall
      BY <1>1, Zenon DEF Answered, Waits
    <2>2. TabOK(Done(tab, n))
      BY <2>1, DoneIs DEF Nearly
    <2> QED BY <2>2, Contents, Zenon
  <1> HIDE DEF t
  <1> QED BY <1>1, <1>2, ShownHomely DEF Loads

LEMMA ReceiveRulesHomely ==
  ASSUME HistOK, Homely, NEW n \in Calls, ReceiveRules(n)
  PROVE  Homely'
  <1> DEFINE t == [Done(tab, n) EXCEPT !.rules = tab.calls[n].data, !.shownOf = tab.calls[n].at]
  <1>1. Answered(n, "rules") /\ Shown(n, t)
    BY Zenon DEF ReceiveRules
  <1>2. Home(tab) => Alike([Done(tab, n) EXCEPT !.shownOf = tab.calls[n].at], t)
    <2> SUFFICES ASSUME Home(tab) PROVE Alike([Done(tab, n) EXCEPT !.shownOf = tab.calls[n].at], t)
      OBVIOUS
    <2>1. tab.calls[n] # NoCall
      BY <1>1, Zenon DEF Answered, Waits
    <2>2. TabOK(Done(tab, n))
      BY <2>1, DoneIs DEF Nearly
    <2> QED BY <2>2, Contents, Zenon
  <1> HIDE DEF t
  <1> QED BY <1>1, <1>2, ShownHomely DEF Loads

LEMMA ReceivesHomely ==
  ASSUME HistOK, Homely, NEW n \in Calls, NEW kind \in Edits, Answered(n, kind), NEW t,
         Rewritten(Done(tab, n), t), Receives(n, t)
  PROVE  Homely'
  <1>1. /\ tab # NoTab /\ tab.calls[n] # NoCall /\ tab.calls[n].kind \in Edits /\ UNCHANGED hist
        /\ tab' = t \/ tab' = Done(tab, n)
    BY Zenon DEF Answered, Waits, Open, Receives
  <1>2. Home(tab) => Home(Done(tab, n))
    BY <1>1, DoneIs DEF Loading, Loads, Edits
  <1>3. Home(tab) => Home(t)
    BY <1>2, RewrittenIsAlike, AlikeIsHome DEF Home, Nearly
  <1> QED BY <1>1, <1>2, <1>3, SilentStep

LEMMA ReceivePutHomely ==
  ASSUME HistOK, Homely, NEW n \in Calls, ReceivePut(n)
  PROVE  Homely'
  <1>1. Answered(n, "put") /\ \E a : Receives(n, [Done(tab, n) EXCEPT !.channels = a])
    BY Zenon DEF ReceivePut
  <1>2. PICK t : Receives(n, t) /\ \E a : t = [Done(tab, n) EXCEPT !.channels = a]
    BY <1>1, Zenon
  <1>3. Rewritten(Done(tab, n), t)
    BY <1>2, Zenon DEF Rewritten
  <1> QED BY <1>1, <1>2, <1>3, ReceivesHomely DEF Edits

LEMMA ReceiveRuleHomely ==
  ASSUME HistOK, Homely, NEW n \in Calls, ReceiveRule(n)
  PROVE  Homely'
  <1>1. \E kind \in {"apply", "drop", "toggle", "save"} :
           /\ Answered(n, kind)
           /\ \/ \E a : Receives(n, [Done(tab, n) EXCEPT !.rules = a])
              \/ \E a, b : Receives(n, [Done(tab, n) EXCEPT !.editing = a, !.rules = b])
    BY Zenon DEF ReceiveRule
  <1>2. PICK kind \in {"apply", "drop", "toggle", "save"} :
           /\ Answered(n, kind)
           /\ \/ \E a : Receives(n, [Done(tab, n) EXCEPT !.rules = a])
              \/ \E a, b : Receives(n, [Done(tab, n) EXCEPT !.editing = a, !.rules = b])
    BY <1>1, Zenon
  <1>3. PICK t : /\ Receives(n, t)
                 /\ \/ \E a : t = [Done(tab, n) EXCEPT !.rules = a]
                    \/ \E a, b : t = [Done(tab, n) EXCEPT !.editing = a, !.rules = b]
    BY <1>2, Zenon
  <1>4. Rewritten(Done(tab, n), t)
    BY <1>3, Zenon DEF Rewritten
  <1>5. kind \in Edits
    BY DEF Edits
  <1> QED BY <1>2, <1>3, <1>4, <1>5, ReceivesHomely, Zenon

LEMMA FiredHomely ==
  ASSUME HistOK, Homely, NEW s, Fired(s)
  PROVE  Homely'
  <1>1. UNCHANGED tab /\ hist' = Spend
    BY Zenon DEF Fired
  <1>2. hist'.lapses = hist.lapses
    BY <1>1, Hushed
  <1> QED BY <1>1, <1>2 DEF Homely, Barring

LEMMA ConsoleHomely ==
  ASSUME HistOK, Homely, ConsoleNext
  PROVE  Homely'
  <1>1. ASSUME NEW n \in Calls, ServeChannels(n) \/ ServeRules(n) PROVE Homely'
    <2>1. \E kind \in {"channels", "rules"} : \E permission, data : Asked(n, kind) /\ Reads(n, permission, data)
      BY <1>1, Zenon DEF ServeChannels, ServeRules
    <2> QED BY <2>1, ReadsHomely DEF Loads
  <1> QED BY <1>1, VisitHomely, ClickSwitchHomely, FiredHomely, ClickRefreshHomely, ClickChannelsHomely,
             ClickRulesHomely, SendsHomely, ServeSwitchHomely, ServeMeHomely, ServePutHomely, ServeRuleHomely,
             SwitchedHomely, RefreshedHomely, ReceiveChannelsHomely, ReceivePutHomely, ReceiveRulesHomely,
             ReceiveRuleHomely DEF ConsoleNext

LEMMA DiscreetHomely ==
  ASSUME HistOK, Homely, Discreet
  PROVE  Homely'
  <1>1. UNCHANGED tab /\ hist.lapses \subseteq hist'.lapses /\ hist'.lapses \subseteq hist.lapses \cup Remarks
    BY DiscreetSays
  <1>2. "crossed" \notin Remarks
    BY DEF Remarks
  <1> QED BY <1>1, <1>2 DEF Homely, Barring

LEMMA OpenedAtHome ==
  ASSUME NEW u, NEW s
  PROVE  Home(ConsoleOf(u, s))
  <1> DEFINE t == ConsoleOf(u, s)
  <1>1. DOMAIN t = TabFields /\ t.ready = FALSE /\ t.calls = [n \in Calls |-> NoCall]
    BY DEF ConsoleOf, TabFields
  <1> HIDE DEF t
  <1>2. TabOK(t) /\ \A n \in Calls : t.calls[n] = NoCall
    BY <1>1 DEF TabOK
  <1>3. CallsOK(t) /\ OneClick(t) /\ ~Awaits(t)
    BY <1>2, NotACall DEF CallsOK, OneClick, Awaits
  <1> QED BY <1>1, <1>2, <1>3 DEF Home, Nearly, AwayOK, t

LEMMA HomelyAtFirst ==
  ASSUME Init
  PROVE  Homely
  <1>1. PICK c \in Casts : tab = c.tab /\ hist = [left |-> c.left, faults |-> c.faults, lapses |-> {}, touched |-> {},
                                                  outgrown |-> {}, sent |-> [t \in Thresholds |-> 0]]
    BY Zenon DEF Init, DocumentsInit
  <1>2. c.tab = NoTab \/ \E u \in Users, s \in Spaces : c.tab = ConsoleOf(u, s)
    BY CastsOK, Zenon
  <1>4. tab = NoTab \/ \E u, s : tab = ConsoleOf(u, s)
    BY <1>1, <1>2, Zenon
  <1>3. hist.lapses = {}
    BY <1>1
  <1> QED BY <1>3, <1>4, OpenedAtHome DEF Homely

LEMMA HomelyStays ==
  ASSUME Inv, Homely, [Next]_vars
  PROVE  Homely'
  <1>0. HistOK
    BY DEF Inv, Base
  <1>1. CASE ConsoleNext
    BY <1>0, <1>1, ConsoleHomely
  <1>2. CASE BillingNext \/ CloudAccountsNext \/ TeamNext \/ BudgetsNext
    BY <1>0, <1>2, BillingIsDiscreet, CloudAccountsIsDiscreet, TeamIsDiscreet, BudgetsIsDiscreet, DiscreetHomely
  <1>3. ASSUME NEW w \in Workers, Fails(w) PROVE Homely'
    <2>1. Discreet
      BY <1>3, RemarksMade, Zenon DEF Fails, Discreet, Says
    <2> QED BY <1>0, <2>1, DiscreetHomely
  <1>4. CASE UNCHANGED vars
    BY <1>4 DEF vars, Homely, Barring
  <1> QED BY <1>1, <1>2, <1>3, <1>4, Zenon DEF Next

(* A change clicked while no call was under way is served in the workspace *)
(* it was clicked in, for any users, workspaces, rules and channels and    *)
(* any number of calls, unless a page could not load, or a load outlived   *)
(* its workspace (OrgContext, apiClient's x-org-id header, the guards of   *)
(* the settings and rules pages).                                          *)
THEOREM ClicksAtHome == Spec => []ClicksStayHome
  <1>1. Init => Homely
    BY HomelyAtFirst
  <1>2. Inv /\ Homely /\ [Next]_vars => Homely'
    BY HomelyStays
  <1>3. Homely => ClicksStayHome
    BY DEF Homely, ClicksStayHome, Astray
  <1> QED BY <1>1, <1>2, <1>3, InvHolds, PTL DEF Spec

(************************* the other steps are mild ************************)
(* What accepts, sends and settles invitations, seats and checks a budget  *)
(* deletes no workspace either.                                            *)
Grows == hist.lapses \subseteq hist'.lapses
Soft  == Gentle /\ Grows

LEMMA MildIsSoft ==
  ASSUME PlainStep, Gentle
  PROVE  Soft
  BY DEF PlainStep, Notes, Soft, Grows

LEMMA DiscreetGrows ==
  ASSUME Base, Discreet
  PROVE  Grows
  BY DiscreetSays DEF Base, Grows

LEMMA JobsAreSeqs ==
  ASSUME JobsOK, NEW w \in Workers
  PROVE  IsSeq(job[w])
  <1>1. CASE Plain(job[w]) \/ BudgetJob(job[w])
    BY <1>1 DEF Plain, BudgetJob
  <1>2. CASE SeatJob(job[w])
    <2>1. PICK i : Seats(job[w], i) \/ Settles(job[w], i)
      BY <1>2 DEF SeatJob
    <2> QED BY <2>1, WorkOfOne DEF Seats, Settles
  <1> QED BY <1>1, <1>2 DEF JobsOK

(* Going on with whatever is no deletion. *)
LEMMA GoingOnMildly ==
  ASSUME JobsOK, NEW w \in Workers, NEW d, d \notin OddWork, Doing(w, d),
         NEW more, more = <<>> \/ \E a : a.do \notin OddWork /\ more = <<a>>, Proceed(w, more)
  PROVE  MildJobs /\ \E v \in Workers : job[v] # <<>> /\ Ready(v)
  <1>1. job[w] # <<>> /\ Head(job[w]).do = d
    BY DEF Doing, Idle
  <1>2. Ready(w)
    BY <1>1 DEF Ready
  <1>3. IsSeq(Tail(job[w])) /\ Work(Tail(job[w])) \subseteq Work(job[w])
    BY <1>1, WorkOfRest, JobsAreSeqs
  <1>4. IsSeq(more) /\ Tame(more)
    BY TameIs, WorkOfNone, WorkOfOne
  <1>5. Work(more \o Tail(job[w])) = Work(more) \cup Work(Tail(job[w]))
    BY <1>3, <1>4, WorkJoined
  <1>6. Tame(job[w]) => Tame(more \o Tail(job[w]))
    BY <1>3, <1>4, <1>5 DEF Tame
  <1>7. job' = [job EXCEPT ![w] = more \o Tail(job[w])]
    BY DEF Proceed
  <1>8. MildJobs
    BY <1>2, <1>6, <1>7 DEF MildJobs, JobsOK
  <1> QED BY <1>1, <1>2, <1>8

(* What the budget's handlers and an invitation's status leave alone. *)
LEMMA Aside ==
  ASSUME db'.space = db.space, db'.cloud = db.cloud, db'.cred = db.cred, db'.member = db.member,
         db'.invite = db.invite, db'.active = db.active, db'.keys = db.keys
  PROVE  Unmoved
  BY DEF Unmoved, ShapeOK

LEMMA StatusIsAside ==
  ASSUME DbOK, NEW i, NEW status, db' = [db EXCEPT !.invite[i].status = status]
  PROVE  Unmoved
  <1>1. \A f \in DbFields \ {"invite"} : db'[f] = db[f]
    BY DEF DbOK
  <1>2. db'.invite = [db.invite EXCEPT ![i].status = status]
    BY DEF DbOK, DbFields
  <1>3. \A x \in Invites : db'.invite[x].of = db.invite[x].of
    BY <1>2 DEF DbOK, NoInvite
  <1> QED BY <1>1, <1>3 DEF Unmoved, ShapeOK, DbFields

LEMMA SoftlyAside ==
  ASSUME Unmoved, MildJobs, Grows
  PROVE  Soft
  BY UnmovedIsSteady DEF Soft, Gentle, Heeded

LEMMA AtOnceGoes ==
  ASSUME Base, AtOnce
  PROVE  MildJobs /\ Heeded
  BY AtOnceMildly DEF JobsGo

BudgetWrites ==
    \/ UNCHANGED db
    \/ \E v : db' = [db EXCEPT !.budget = v]
    \/ \E v : db' = [db EXCEPT !.budget.told = v]
    \/ \E v, x : db' = [db EXCEPT !.budget.told = v, !.budget.started = x]
    \/ \E v, x : db' = [db EXCEPT !.budget.at = v, !.budget.on = x]
    \/ \E v, x, y : db' = [db EXCEPT !.period = v, !.spent = x, !.before = y]
LEMMA BudgetWritesAside ==
  ASSUME DbOK, BudgetWrites
  PROVE  Unmoved
  <1> DEFINE Same == /\ db'.space = db.space /\ db'.cloud = db.cloud /\ db'.cred = db.cred
                     /\ db'.member = db.member /\ db'.invite = db.invite /\ db'.active = db.active
                     /\ db'.keys = db.keys
  <1>1. CASE UNCHANGED db
    BY <1>1, StayingPut
  <1>2. ASSUME NEW v, db' = [db EXCEPT !.budget = v] PROVE Same
    BY <1>2 DEF DbOK, DbFields
  <1>3. ASSUME NEW v, db' = [db EXCEPT !.budget.told = v] PROVE Same
    BY <1>3 DEF DbOK, DbFields
  <1>4. ASSUME NEW v, NEW x, db' = [db EXCEPT !.budget.told = v, !.budget.started = x] PROVE Same
    BY <1>4 DEF DbOK, DbFields
  <1>5. ASSUME NEW v, NEW x, db' = [db EXCEPT !.budget.at = v, !.budget.on = x] PROVE Same
    BY <1>5 DEF DbOK, DbFields
  <1>6. ASSUME NEW v, NEW x, NEW y, db' = [db EXCEPT !.period = v, !.spent = x, !.before = y] PROVE Same
    BY <1>6 DEF DbOK, DbFields
  <1>7. UNCHANGED db \/ Same
    BY <1>2, <1>3, <1>4, <1>5, <1>6, Zenon DEF BudgetWrites
  <1> QED BY <1>1, <1>7, Aside

LEMMA BudgetsGoSoftly ==
  ASSUME Base, BudgetsNext
  PROVE  Soft
  <1>0. Grows /\ DbOK /\ JobsOK
    BY BudgetsIsDiscreet, DiscreetGrows DEF Base
  <1>1. ASSUME NEW w \in Workers, NEW u, CheckBudgets(w, u) PROVE Soft
    <2>1. PICK b : UNCHANGED db /\ Begin(w, <<[do |-> "period", budget |-> b]>>)
      BY <1>1, Zenon DEF CheckBudgets
    <2>2. Idle(w) /\ job' = [job EXCEPT ![w] = <<[do |-> "period", budget |-> b]>>]
      BY <2>1, Zenon DEF Begin
    <2>3. Tame(<<[do |-> "period", budget |-> b]>>)
      BY TameIs DEF OddWork
    <2>4. MildJobs
      BY <1>0, <2>2, <2>3 DEF MildJobs, Ready, Idle, JobsOK
    <2> QED BY <1>0, <2>1, <2>4, StayingPut, SoftlyAside
  <1>2. ASSUME NEW w \in Workers, NEW d \in BudgetWork, Doing(w, d),
               NEW more, more = <<>> \/ \E a : a.do \in BudgetWork /\ more = <<a>>, Proceed(w, more), Unmoved
        PROVE  Soft
    <2>1. d \notin OddWork /\ (more = <<>> \/ \E a : a.do \notin OddWork /\ more = <<a>>)
      BY <1>2 DEF BudgetWork, OddWork
    <2> QED BY <1>0, <1>2, <2>1, GoingOnMildly, SoftlyAside
  <1>3. ASSUME NEW w \in Workers, RollPeriod(w) PROVE Soft
    <2>1. /\ Doing(w, "period") /\ \E b : Proceed(w, <<[do |-> "spend", budget |-> b]>>)
          /\ \/ UNCHANGED db
             \/ db' = [db EXCEPT !.budget.told = {}, !.budget.started = db.period]
      BY <1>3, Zenon DEF RollPeriod
    <2>2. Unmoved
      BY <1>0, <2>1, BudgetWritesAside, Zenon DEF BudgetWrites
    <2> QED BY <1>2, <2>1, <2>2 DEF BudgetWork
  <1>4. \A b, spent : Alerting(b, spent) = <<>> \/ \E a : a.do \in BudgetWork /\ Alerting(b, spent) = <<a>>
    BY DEF Alerting, BudgetWork
  <1>5. ASSUME NEW w \in Workers, ReadSpend(w) PROVE Soft
    <2>1. PICK b, spent : Doing(w, "spend") /\ UNCHANGED db /\ Proceed(w, Alerting(b, spent))
      BY <1>5, Zenon DEF ReadSpend
    <2> QED BY <1>2, <1>4, <2>1, StayingPut, Zenon DEF BudgetWork
  <1>6. ASSUME NEW w \in Workers, SendAlert(w) PROVE Soft
    <2>1. PICK b, at, spent : /\ Doing(w, "alert") /\ UNCHANGED db
                              /\ Proceed(w, <<[do |-> "told", budget |-> b, at |-> at, spent |-> spent]>>)
      BY <1>6, Zenon DEF SendAlert
    <2>2. Unmoved
      BY <2>1, StayingPut
    <2> QED BY <1>2, <2>1, <2>2 DEF BudgetWork
  <1>7. ASSUME NEW w \in Workers, MarkTold(w) PROVE Soft
    <2>1. PICK b, spent : /\ Doing(w, "told") /\ Proceed(w, Alerting(b, spent))
                          /\ \/ UNCHANGED db
                             \/ \E v : db' = [db EXCEPT !.budget.told = v]
      BY <1>7, Zenon DEF MarkTold
    <2>2. Unmoved
      BY <1>0, <2>1, BudgetWritesAside, Zenon DEF BudgetWrites
    <2> QED BY <1>2, <1>4, <2>1, <2>2, Zenon DEF BudgetWork
  <1>8. ASSUME NEW u, NEW at, NEW on, CreateBudget(u) \/ PatchBudget(u, at, on) \/ DeleteBudget(u) \/ NewPeriod
        PROVE  Soft
    <2>1. UNCHANGED job
      BY <1>8, Zenon DEF CreateBudget, PatchBudget, DeleteBudget, NewPeriod, AtOnce
    <2>2. \/ \E v : db' = [db EXCEPT !.budget = v]
          \/ \E v, x : db' = [db EXCEPT !.budget.at = v, !.budget.on = x]
          \/ \E v, x, y : db' = [db EXCEPT !.period = v, !.spent = x, !.before = y]
      <3>1. ASSUME CreateBudget(u) PROVE \E v : db' = [db EXCEPT !.budget = v]
        BY <3>1, Zenon DEF CreateBudget
      <3>2. ASSUME PatchBudget(u, at, on) PROVE db' = [db EXCEPT !.budget.at = at, !.budget.on = on]
        BY <3>2, Zenon DEF PatchBudget
      <3>3. ASSUME DeleteBudget(u) PROVE db' = [db EXCEPT !.budget = NoBudget]
        BY <3>3, Zenon DEF DeleteBudget
      <3>4. ASSUME NewPeriod PROVE db' = [db EXCEPT !.period = db.period + 1, !.spent = 0, !.before = db.spent]
        BY <3>4 DEF NewPeriod
      <3> QED BY <1>8, <3>1, <3>2, <3>3, <3>4, Zenon
    <2>3. Unmoved
      BY <1>0, <2>2, BudgetWritesAside, Zenon DEF BudgetWrites
    <2> QED BY <1>0, <2>1, <2>3, JobsStay, SoftlyAside DEF JobsGo
  <1>9. CASE SpendMore
    BY <1>9, SpendMoreIsPlain, MildIsSoft DEF MildStep
  <1> QED BY <1>1, <1>3, <1>5, <1>6, <1>7, <1>8, <1>9, Zenon DEF BudgetsNext

(* Seating somebody, in the workspace of an invitation that stands.        *)
LEMMA Inviting ==
  ASSUME DbOK, NEW i, NEW doc, Calm' => Standing(doc.of), db' = [db EXCEPT !.invite[i] = doc]
  PROVE  Steadies
  <1> SUFFICES ASSUME Calm', ShapeOK, RefsStand PROVE Steadies
    BY DEF Steadies
  <1>1. \A f \in DbFields \ {"invite"} : db'[f] = db[f]
    BY DEF DbOK
  <1>2. db'.invite = [db.invite EXCEPT ![i] = doc]
    BY DEF DbOK, DbFields
  <1>3. /\ db'.cred = db.cred /\ db'.space = db.space /\ db'.member = db.member /\ db'.cloud = db.cloud
        /\ db'.keys = db.keys /\ db'.active = db.active
    BY <1>1 DEF DbFields
  <1>4. ShapeOK'
    BY <1>3 DEF ShapeOK
  <1>5. RefsStand'
    BY <1>2, <1>3 DEF RefsStand, Standing, DbOK
  <1> QED BY <1>3, <1>4, <1>5, Furnishing

LEMMA Sitting ==
  ASSUME DbOK, \A f \in DbFields \ {"member"} : db'[f] = db[f],
         \A x \in db'.member : x \in db.member \/ (Calm' /\ RefsStand => Standing(x.of)),
         \A x \in db.member : \E y \in db'.member : y.of = x.of /\ y.user = x.user
  PROVE  Steadies
  <1> SUFFICES ASSUME Calm', ShapeOK, RefsStand PROVE Steady
    BY DEF Steadies
  <1>1. /\ db'.cred = db.cred /\ db'.space = db.space /\ db'.invite = db.invite /\ db'.cloud = db.cloud
        /\ db'.keys = db.keys /\ db'.active = db.active
    BY DEF DbFields
  <1>2. ShapeOK'
    BY <1>1 DEF ShapeOK
  <1>3. RefsStand'
    BY <1>1 DEF RefsStand, Standing
  <1>4. \A u, s : Enters(u, s) => Enters(u, s)'
    <2> SUFFICES ASSUME NEW u, NEW s, Enters(u, s) PROVE Enters(u, s)'
      OBVIOUS
    <2>1. Live(s)' /\ db'.space[s].owner = db.space[s].owner
      BY <1>1 DEF Enters, Live
    <2> QED BY <2>1 DEF Enters
  <1> QED BY <1>1, <1>2, <1>3, <1>4 DEF Steady

LEMMA TeamGoesSoftly ==
  ASSUME Base, TeamNext
  PROVE  Soft \/ \E w \in Workers : ClearProfile(w) \/ \E u \in Users, m \in db.member : RemoveMember(w, u, m)
  <1>0. Grows /\ DbOK /\ JobsOK
    BY TeamIsDiscreet, DiscreetGrows DEF Base
  <1>1. ASSUME NEW w \in Workers, NEW u, NEW i, Accept(w, u, i) PROVE Soft
    <2>1. PICK steps : Begin(w, steps) /\ UNCHANGED db /\
            \/ steps = <<Settle(i, "expired")>>
            \/ steps = <<[do |-> "seat", user |-> u, inv |-> db.invite[i], from |-> i], Settle(i, "accepted")>>
      BY <1>1, Zenon DEF Accept
    <2>2. Tame(steps)
      BY <2>1, TameIs DEF Settle, OddWork
    <2>3. Idle(w) /\ job' = [job EXCEPT ![w] = steps]
      BY <2>1, Zenon DEF Begin
    <2>4. MildJobs
      BY <1>0, <2>2, <2>3 DEF MildJobs, Ready, Idle, JobsOK
    <2> QED BY <1>0, <2>1, <2>4, StayingPut, SoftlyAside
  <1>2. ASSUME NEW w \in Workers, NEW u \in Users, NEW s, NEW email, NEW role,
               Switch(w, u, s) \/ Invite(w, u, email, role)
        PROVE  Soft
    BY <1>2, SwitchIsPlain, InviteIsPlain, MildIsSoft DEF MildStep
  <1>3. ASSUME NEW i \in Invites, Expires(i) PROVE Soft
    BY <1>3, ExpiresIsPlain, MildIsSoft DEF MildStep
  <1>4. ASSUME NEW u, NEW i, Revoke(u, i) PROVE Soft
    <2>1. db' = [db EXCEPT !.invite[i].status = "revoked"] /\ AtOnce
      BY <1>4, Zenon DEF Revoke
    <2> QED BY <1>0, <2>1, StatusIsAside, AtOnceGoes, SoftlyAside
  <1>5. ASSUME NEW u, NEW m \in db.member, NEW role, SetRole(u, m, role) PROVE Soft
    <2> DEFINE new == [m EXCEPT !.role = role]
    <2>1. db' = [db EXCEPT !.member = (@ \ {m}) \cup {new}] /\ AtOnce
      BY <1>5, Zenon DEF SetRole
    <2>2. new.of = m.of /\ new.user = m.user
      BY <1>0 DEF DbOK
    <2>3. RefsStand => Standing(new.of)
      BY <2>2 DEF RefsStand
    <2> HIDE DEF new
    <2>4. db'.member = (db.member \ {m}) \cup {new} /\ \A f \in DbFields \ {"member"} : db'[f] = db[f]
      BY <1>0, <2>1 DEF DbOK, DbFields
    <2>5. \A x \in db.member : \E y \in db'.member : y.of = x.of /\ y.user = x.user
      BY <2>2, <2>4
    <2>6. \A x \in db'.member : x \in db.member \/ (Calm' /\ RefsStand => Standing(x.of))
      BY <2>3, <2>4
    <2>7. Steadies
      BY <1>0, <2>4, <2>5, <2>6, Sitting, Zenon
    <2> QED BY <1>0, <2>1, <2>7, AtOnceGoes DEF Soft, Gentle
  <1>6. ASSUME NEW w \in Workers, SendInvite(w) PROVE Soft
    <2> DEFINE p == This(w)
               doc == [of |-> p.of, email |-> p.email, role |-> p.role, status |-> "pending", late |-> FALSE]
    <2>1. /\ Doing(w, "invite") /\ Proceed(w, <<>>) /\ With(Stale(~Live(p.of)))
          /\ \E i : db' = [db EXCEPT !.invite[i] = doc]
      BY <1>6, Zenon DEF SendInvite
    <2>2. Calm' => Standing(doc.of)
      BY <2>1 DEF With, Stale, Noting, Calm, Barring, Base, HistOK, HistFields, Live, Kinds, Standing
    <2> HIDE DEF p, doc
    <2>3. Steadies
      BY <1>0, <2>1, <2>2, Inviting
    <2>4. MildJobs /\ Heeded
      BY <1>0, <2>1, GoingOnMildly DEF OddWork, Heeded
    <2> QED BY <1>0, <2>3, <2>4 DEF Soft, Gentle
  <1>7. ASSUME NEW w \in Workers, Seat(w) PROVE Soft
    <2> DEFINE p == This(w)
               m == [user |-> p.user, of |-> p.inv.of, role |-> p.inv.role, email |-> p.inv.email, from |-> p.from]
    <2>0. Doing(w, "seat")
      BY <1>7, Zenon DEF Seat
    <2>1. CASE Throws(w)
      <3>1. UNCHANGED db /\ job' = [job EXCEPT ![w] = <<>>]
        BY <2>1, Zenon DEF Throws
      <3>2. Ready(w)
        BY <2>0 DEF Ready, Doing, OddWork
      <3>3. MildJobs
        BY <1>0, <3>1, <3>2, TameIs DEF MildJobs, JobsOK
      <3> QED BY <1>0, <3>1, <3>3, StayingPut, SoftlyAside
    <2>2. CASE ~Throws(w)
      <3>1. /\ db' = [db EXCEPT !.member = @ \cup {m}]
            /\ With(Stale(db.invite[p.from] # p.inv)) /\ Proceed(w, <<>>)
        BY <1>7, <2>2, Zenon DEF Seat
      <3>2. PICK i \in Invites : Seats(job[w], i)
        <4>1. SeatJob(job[w])
          BY <1>0, <2>0, JobKinds DEF JobsOK, Doing, Idle, SeatWork
        <4>2. PICK i \in Invites : Seats(job[w], i) \/ Settles(job[w], i)
          BY <4>1 DEF SeatJob
        <4>3. ~Settles(job[w], i)
          <5> SUFFICES ASSUME NEW status, job[w] = <<Settlement(i, status)>> PROVE FALSE
            BY DEF Settles
          <5>1. Head(job[w]).do = "settle"
            BY WorkOfOne DEF Settlement
          <5> QED BY <2>0, <5>1 DEF Doing
        <4> QED BY <4>2, <4>3
      <3>3. p.from = i
        <4>1. job[w] # <<>> /\ Head(job[w]) = job[w][1]
          BY <2>0, <3>2, WorkOfRest DEF Seats, Doing, Idle
        <4> QED BY <3>2, <4>1 DEF Seats, This
      <3>4. Calm' => db.invite[p.from] = p.inv
        BY <3>1 DEF With, Stale, Noting, Calm, Barring, Base, HistOK, HistFields
      <3>5. Calm' /\ RefsStand => Standing(m.of)
        BY <3>2, <3>3, <3>4 DEF RefsStand
      <3> HIDE DEF p, m
      <3>6. Steadies
        <4>1. db'.member = db.member \cup {m} /\ \A f \in DbFields \ {"member"} : db'[f] = db[f]
          BY <1>0, <3>1 DEF DbOK, DbFields
        <4>2. \A x \in db.member : \E y \in db'.member : y.of = x.of /\ y.user = x.user
          BY <4>1
        <4>3. \A x \in db'.member : x \in db.member \/ (Calm' /\ RefsStand => Standing(x.of))
          BY <3>5, <4>1
        <4> QED BY <1>0, <4>1, <4>2, <4>3, Sitting, Zenon
      <3>7. MildJobs /\ Heeded
        BY <1>0, <2>0, <3>1, GoingOnMildly DEF OddWork, Heeded
      <3> QED BY <1>0, <3>6, <3>7 DEF Soft, Gentle
    <2> QED BY <2>1, <2>2
  <1>8. ASSUME NEW w \in Workers, SettleInvite(w) PROVE Soft
    <2>1. PICK i, status : Doing(w, "settle") /\ Proceed(w, <<>>) /\ db' = [db EXCEPT !.invite[i].status = status]
      BY <1>8, Zenon DEF SettleInvite
    <2>2. MildJobs
      BY <1>0, <2>1, GoingOnMildly DEF OddWork
    <2> QED BY <1>0, <2>1, <2>2, StatusIsAside, SoftlyAside
  <1> QED BY <1>1, <1>2, <1>3, <1>4, <1>5, <1>6, <1>7, <1>8, Zenon DEF TeamNext

(******************************* deletions *********************************)
OwnerLeft == "owner left" \in hist.lapses
Welcome(u) ==
    \/ db.active[u] = None \/ Enters(u, db.active[u])
    \/ db.active[u] \in Spaces /\ db.space[db.active[u]].type = "gone" /\ OwnerLeft

(* What a handler has yet to delete.                                       *)
Item(x, t) == [what |-> x, of |-> t]
Items(s)   == UNION {x.items : x \in {y \in Work(s) : y.do = "erase"}}
Ends       == {"space", "profile", "accounts"}
Erased(x, t) ==
    /\ x = "clouds"  => \A c \in Clouds : db.cloud[c].of # t
    /\ x = "creds"   => \A k \in Creds : db.cred[k] # t
    /\ x = "keys"    => \A k \in db.keys : k.of # t
    /\ x = "members" => \A m \in db.member : m.of # t
    /\ x = "invites" => \A i \in Invites : db.invite[i].of # t
    /\ x = "actives" => \A u \in Users : db.active[u] # t
(* A workspace goes after all that belongs to it, and whoever loses a seat *)
(* is taken away from it later.                                            *)
Careful(I) ==
    /\ \A i \in I : i = Item(i.what, i.of) /\ i.what \in Cascade \cup Ends \cup {"seats"}
    /\ \A t : Item("space", t) \in I =>
          t \in Spaces /\ \A x \in Cascade : Item(x, t) \in I \/ Erased(x, t)
    /\ \A o : Item("accounts", o) \in I =>
          /\ OwnerLeft
          /\ \A t \in Owned(o), x \in OwnedCascade \cup {"invites"} : Item(x, t) \in I \/ Erased(x, t)
    /\ \A o : Item("seats", o) \in I => Item("profile", o) \in I
    /\ \A t : Item("members", t) \in I =>
          Item("space", t) \in I \/ \E o : Item("accounts", o) \in I /\ t \in Owned(o)
InTurn(s) == \A n \in 1 .. Len(s) :
    /\ s[n].do \in {"erase", "cancel"}
    /\ s[n].do = "erase" => ~s[n].broke /\ \A i \in s[n].items : i.what \in Ends <=> n = Len(s)
Erases(s) == s # <<>> /\ InTurn(s) /\ Careful(Items(s))
Clears(s) == Len(s) = 1 /\ s[1].do = "clear"
Leaving(I, u) ==        \* the user is about to be taken away, or the workspace
    \/ Item("actives", db.active[u]) \in I \/ Item("profile", u) \in I
    \/ \E o : Item("accounts", o) \in I /\ db.active[u] \in Owned(o)
Clearing(s, u) == Clears(s) /\ s[1].user = u /\ s[1].of = db.active[u]

Serial == Calm =>
    /\ ShapeOK /\ RefsStand
    /\ \A w \in Workers : Tame(job[w]) \/ Erases(job[w]) \/ Clears(job[w])
    /\ \A u \in Users : Welcome(u) \/ \E w \in Workers : Leaving(Items(job[w]), u) \/ Clearing(job[w], u)

(* What deleting one thing does, whichever it is.                          *)
Losing(x, t, s) == (x = "space" /\ s = t) \/ (x = "accounts" /\ s \in Owned(t))
Removed(x, t) ==
    /\ ShapeOK'
    /\ \A s \in Spaces : db'.space[s].owner = db.space[s].owner
    /\ \A s \in Spaces : db'.space[s].type = IF Losing(x, t, s) THEN "gone" ELSE db.space[s].type
    /\ \A c \in Clouds : db'.cloud[c].of = IF x = "clouds" /\ db.cloud[c].of = t THEN Gone ELSE db.cloud[c].of
    /\ \A k \in Creds : db'.cred[k] = IF x = "creds" /\ db.cred[k] = t THEN Gone ELSE db.cred[k]
    /\ \A i \in Invites : db'.invite[i].of = IF x = "invites" /\ db.invite[i].of = t THEN Gone ELSE db.invite[i].of
    /\ \A u \in Users : db'.active[u] = IF (x = "actives" /\ db.active[u] = t) \/ (x = "profile" /\ u = t)
                                        THEN None ELSE db.active[u]
    /\ db'.keys = {k \in db.keys : ~(x = "keys" /\ k.of = t)}
    /\ db'.member = {m \in db.member : ~(x = "members" /\ m.of = t) /\ ~(x = "seats" /\ m.user = t)}

LEMMA WithoutRemoves ==
  ASSUME DbOK, ShapeOK, NEW x \in Cascade \cup Ends \cup {"seats"}, NEW t, db' = Without(Item(x, t))
  PROVE  Removed(x, t)
  <1>0. Item(x, t).what = x /\ Item(x, t).of = t
    BY DEF Item
  <1>1. CASE x = "clouds"
    <2>1. db' = [db EXCEPT !.cloud = [c \in Clouds |-> IF @[c].of = t THEN Buried(@[c]) ELSE @[c]]]
      BY <1>0, <1>1 DEF Without
    <2>2. db'.cloud = [c \in Clouds |-> IF db.cloud[c].of = t THEN Buried(db.cloud[c]) ELSE db.cloud[c]]
      BY <2>1 DEF DbOK, DbFields
    <2>3. /\ db'.space = db.space /\ db'.cred = db.cred /\ db'.invite = db.invite /\ db'.active = db.active
          /\ db'.keys = db.keys /\ db'.member = db.member
      BY <2>1 DEF DbOK, DbFields
    <2>4. ShapeOK'
      BY <2>2, <2>3 DEF ShapeOK, Buried
    <2>5. \A c \in Clouds : db'.cloud[c].of = IF db.cloud[c].of = t THEN Gone ELSE db.cloud[c].of
      BY <2>2 DEF ShapeOK, Buried, NoCloud
    <2> QED BY <1>1, <2>3, <2>4, <2>5 DEF Removed, Losing
  <1>2. CASE x = "creds"
    <2>1. db' = [db EXCEPT !.cred = [k \in Creds |-> IF @[k] = t THEN Gone ELSE @[k]]]
      BY <1>0, <1>2 DEF Without
    <2>2. db'.cred = [k \in Creds |-> IF db.cred[k] = t THEN Gone ELSE db.cred[k]]
      BY <2>1 DEF DbOK, DbFields
    <2>3. /\ db'.space = db.space /\ db'.cloud = db.cloud /\ db'.invite = db.invite /\ db'.active = db.active
          /\ db'.keys = db.keys /\ db'.member = db.member
      BY <2>1 DEF DbOK, DbFields
    <2> QED BY <1>2, <2>2, <2>3 DEF Removed, Losing, ShapeOK
  <1>3. CASE x = "keys"
    <2>1. db' = [db EXCEPT !.keys = {k \in db.keys : k.of # t}]
      BY <1>0, <1>3 DEF Without
    <2>2. db'.keys = {k \in db.keys : k.of # t}
      BY <2>1 DEF DbOK, DbFields
    <2>3. /\ db'.space = db.space /\ db'.cloud = db.cloud /\ db'.invite = db.invite /\ db'.active = db.active
          /\ db'.cred = db.cred /\ db'.member = db.member
      BY <2>1 DEF DbOK, DbFields
    <2> QED BY <1>3, <2>2, <2>3 DEF Removed, Losing, ShapeOK
  <1>4. CASE x = "members" \/ x = "seats"
    <2>1. db' = [db EXCEPT !.member = {m \in db.member : IF x = "members" THEN m.of # t ELSE m.user # t}]
      BY <1>0, <1>4 DEF Without
    <2>2. db'.member = {m \in db.member : IF x = "members" THEN m.of # t ELSE m.user # t}
      BY <2>1 DEF DbOK, DbFields
    <2>3. /\ db'.space = db.space /\ db'.cloud = db.cloud /\ db'.invite = db.invite /\ db'.active = db.active
          /\ db'.cred = db.cred /\ db'.keys = db.keys
      BY <2>1 DEF DbOK, DbFields
    <2> QED BY <1>4, <2>2, <2>3 DEF Removed, Losing, ShapeOK
  <1>5. CASE x = "invites"
    <2>1. db' = [db EXCEPT !.invite = [i \in Invites |-> IF @[i].of = t THEN Buried(@[i]) ELSE @[i]]]
      BY <1>0, <1>5 DEF Without
    <2>2. db'.invite = [i \in Invites |-> IF db.invite[i].of = t THEN Buried(db.invite[i]) ELSE db.invite[i]]
      BY <2>1 DEF DbOK, DbFields
    <2>3. /\ db'.space = db.space /\ db'.cred = db.cred /\ db'.cloud = db.cloud /\ db'.active = db.active
          /\ db'.keys = db.keys /\ db'.member = db.member
      BY <2>1 DEF DbOK, DbFields
    <2>4. \A i \in Invites : db'.invite[i].of = IF db.invite[i].of = t THEN Gone ELSE db.invite[i].of
      BY <2>2 DEF DbOK, Buried, NoInvite
    <2> QED BY <1>5, <2>3, <2>4 DEF Removed, Losing, ShapeOK
  <1>6. CASE x = "actives"
    <2>1. db' = [db EXCEPT !.active = [u \in Users |-> IF @[u] = t THEN None ELSE @[u]]]
      BY <1>0, <1>6 DEF Without
    <2>2. db'.active = [u \in Users |-> IF db.active[u] = t THEN None ELSE db.active[u]]
      BY <2>1 DEF DbOK, DbFields
    <2>3. /\ db'.space = db.space /\ db'.cloud = db.cloud /\ db'.invite = db.invite /\ db'.cred = db.cred
          /\ db'.keys = db.keys /\ db'.member = db.member
      BY <2>1 DEF DbOK, DbFields
    <2> QED BY <1>6, <2>2, <2>3 DEF Removed, Losing, ShapeOK
  <1>7. CASE x = "profile"
    <2>1. db' = [db EXCEPT !.active[t] = None]
      BY <1>0, <1>7 DEF Without
    <2>2. db'.active = [db.active EXCEPT ![t] = None]
      BY <2>1 DEF DbOK, DbFields
    <2>3. /\ db'.space = db.space /\ db'.cloud = db.cloud /\ db'.invite = db.invite /\ db'.cred = db.cred
          /\ db'.keys = db.keys /\ db'.member = db.member
      BY <2>1 DEF DbOK, DbFields
    <2> QED BY <1>7, <2>2, <2>3 DEF Removed, Losing, ShapeOK
  <1>8. CASE x = "space"
    <2>1. db' = [db EXCEPT !.space[t].type = "gone"]
      BY <1>0, <1>8 DEF Without
    <2>2. db'.space = [db.space EXCEPT ![t].type = "gone"]
      BY <2>1 DEF DbOK, DbFields
    <2>3. /\ db'.active = db.active /\ db'.cloud = db.cloud /\ db'.invite = db.invite /\ db'.cred = db.cred
          /\ db'.keys = db.keys /\ db'.member = db.member
      BY <2>1 DEF DbOK, DbFields
    <2>4. ShapeOK'
      BY <2>2, <2>3 DEF ShapeOK
    <2>5. \A s \in Spaces : /\ db'.space[s].owner = db.space[s].owner
                            /\ db'.space[s].type = IF s = t THEN "gone" ELSE db.space[s].type
      BY <2>2 DEF ShapeOK, NoSpace
    <2> QED BY <1>8, <2>3, <2>4, <2>5 DEF Removed, Losing
  <1>9. CASE x = "accounts"
    <2>1. db' = [db EXCEPT !.space = [s \in Spaces |-> IF s \in Owned(t) THEN [@[s] EXCEPT !.type = "gone"] ELSE @[s]]]
      BY <1>0, <1>9 DEF Without
    <2>2. db'.space = [s \in Spaces |-> IF s \in Owned(t) THEN [db.space[s] EXCEPT !.type = "gone"] ELSE db.space[s]]
      BY <2>1 DEF DbOK, DbFields
    <2>3. /\ db'.active = db.active /\ db'.cloud = db.cloud /\ db'.invite = db.invite /\ db'.cred = db.cred
          /\ db'.keys = db.keys /\ db'.member = db.member
      BY <2>1 DEF DbOK, DbFields
    <2>4. ShapeOK'
      BY <2>2, <2>3 DEF ShapeOK
    <2>5. \A s \in Spaces : /\ db'.space[s].owner = db.space[s].owner
                            /\ db'.space[s].type = IF s \in Owned(t) THEN "gone" ELSE db.space[s].type
      BY <2>2 DEF ShapeOK, NoSpace
    <2> QED BY <1>9, <2>3, <2>4, <2>5 DEF Removed, Losing
  <1> QED BY <1>1, <1>2, <1>3, <1>4, <1>5, <1>6, <1>7, <1>8, <1>9 DEF Cascade, Ends

LEMMA OwnerStaysAway == OwnerLeft /\ Grows => OwnerLeft'
  BY Zenon DEF OwnerLeft, Grows

LEMMA NoSpaceIsNobody == \A s \in Spaces : s # None /\ s # Gone
  BY DocumentsOK DEF None, Gone

LEMMA StillErased ==
  ASSUME NEW x, NEW t, Removed(x, t), NEW y, NEW s \in Spaces, Erased(y, s)
  PROVE  Erased(y, s)'
  BY NoSpaceIsNobody DEF Removed, Erased

LEMMA NowErased ==
  ASSUME NEW x, NEW t \in Spaces, Removed(x, t)
  PROVE  Erased(x, t)'
  BY NoSpaceIsNobody DEF Removed, Erased

LEMMA OwnedLess ==
  ASSUME NEW x, NEW t, Removed(x, t), NEW o
  PROVE  /\ Owned(o)' \subseteq Owned(o)
         /\ \A s \in Owned(o) : Losing(x, t, s) \/ s \in Owned(o)'
  BY DEF Removed, Owned, Live, Kinds

LEMMA ItemIs ==
  ASSUME NEW x, NEW t
  PROVE  /\ Item(x, t).what = x /\ Item(x, t).of = t
         /\ \A y, s : Item(y, s) = Item(x, t) => y = x /\ s = t
  BY DEF Item

(* The steps of a deletion come in turn: workspaces and users last.        *)
Final(I, x) == x \in Ends => \A i \in I : i.what \in Ends

LEMMA NothingOf ==
  ASSUME NEW I, Careful(I), NEW x, NEW t, Item(x, t) \in I, Final(I, x), NEW s \in Spaces, Losing(x, t, s)
  PROVE  /\ \A y \in OwnedCascade \cup {"invites"} : Erased(y, s)
         /\ x = "space" => Erased("actives", s)
         /\ x = "accounts" => OwnerLeft
  <1>1. \A y \in Cascade : Item(y, s) \notin I
    BY ItemIs DEF Losing, Final, Cascade, Ends
  <1>2. OwnedCascade \cup {"invites"} \subseteq Cascade /\ "actives" \in Cascade
    BY DEF OwnedCascade, Cascade
  <1>3. CASE x = "space"
    BY <1>1, <1>2, <1>3 DEF Losing, Careful
  <1>4. CASE x = "accounts"
    BY <1>1, <1>2, <1>4 DEF Losing, Careful
  <1> QED BY <1>3, <1>4 DEF Losing

LEMMA RefsStay ==
  ASSUME RefsStand, NEW I, Careful(I), NEW x, NEW t, Item(x, t) \in I, Final(I, x), Removed(x, t)
  PROVE  RefsStand'
  <1>1. \A s \in Spaces : db'.space[s].type = "gone" => db.space[s].type = "gone" \/ Losing(x, t, s)
    BY DEF Removed
  <1>2. ASSUME NEW s \in Spaces, Losing(x, t, s)
        PROVE  /\ Erased("clouds", s) /\ Erased("creds", s) /\ Erased("keys", s)
               /\ Erased("members", s) /\ Erased("invites", s)
    BY <1>2, NothingOf DEF OwnedCascade
  <1>3. \A c \in Clouds : Standing(db.cloud[c].of)'
    BY <1>1, <1>2, NoSpaceIsNobody DEF Removed, Erased, RefsStand, Standing
  <1>4. \A k \in Creds : Standing(db.cred[k])'
    BY <1>1, <1>2, NoSpaceIsNobody DEF Removed, Erased, RefsStand, Standing
  <1>5. \A m \in db'.member : Standing(m.of)'
    BY <1>1, <1>2 DEF Removed, Erased, RefsStand, Standing
  <1>6. \A i \in Invites : Standing(db.invite[i].of)'
    BY <1>1, <1>2, NoSpaceIsNobody DEF Removed, Erased, RefsStand, Standing
  <1>7. \A k \in db'.keys : Standing(k.of)'
    BY <1>1, <1>2 DEF Removed, Erased, RefsStand, Standing
  <1> QED BY <1>3, <1>4, <1>5, <1>6, <1>7 DEF RefsStand

Rest(I, J, x, t) == J \subseteq I /\ \A i \in I : i \in J \/ i = Item(x, t)

LEMMA CarefulStays ==
  ASSUME NEW I, Careful(I), NEW x, NEW t, Item(x, t) \in I, Final(I, x), Removed(x, t), Grows,
         NEW J, Rest(I, J, x, t)
  PROVE  Careful(J)'
  <1>1. \A i \in J : i = Item(i.what, i.of) /\ i.what \in Cascade \cup Ends \cup {"seats"}
    BY DEF Rest, Careful
  <1>2. ASSUME NEW y, NEW s \in Spaces, Item(y, s) \in I \/ Erased(y, s)
        PROVE  Item(y, s) \in J \/ Erased(y, s)'
    <2>1. CASE Erased(y, s)
      BY <2>1, StillErased
    <2>2. CASE Item(y, s) = Item(x, t)
      BY <2>2, ItemIs, NowErased
    <2> QED BY <1>2, <2>1, <2>2 DEF Rest
  <1>3. ASSUME NEW s, Item("space", s) \in J
        PROVE  s \in Spaces /\ \A y \in Cascade : Item(y, s) \in J \/ Erased(y, s)'
    <2>1. s \in Spaces /\ \A y \in Cascade : Item(y, s) \in I \/ Erased(y, s)
      BY <1>3 DEF Rest, Careful
    <2> QED BY <1>2, <2>1
  <1>4. ASSUME NEW o, Item("accounts", o) \in J
        PROVE  /\ OwnerLeft'
               /\ \A s \in Owned(o)', y \in OwnedCascade \cup {"invites"} : Item(y, s) \in J \/ Erased(y, s)'
    <2>1. /\ OwnerLeft
          /\ \A s \in Owned(o), y \in OwnedCascade \cup {"invites"} : Item(y, s) \in I \/ Erased(y, s)
      BY <1>4 DEF Rest, Careful
    <2>2. Owned(o)' \subseteq Owned(o) /\ Owned(o) \subseteq Spaces
      BY OwnedLess DEF Owned
    <2> QED BY <1>2, <2>1, <2>2, OwnerStaysAway
  <1>5. ASSUME NEW o, Item("seats", o) \in J
        PROVE  Item("profile", o) \in J
    <2>1. Item("seats", o) \in I /\ Item("profile", o) \in I
      BY <1>5 DEF Rest, Careful
    <2>2. x # "profile"
      BY <2>1, ItemIs DEF Final, Ends
    <2> QED BY <2>1, <2>2, ItemIs DEF Rest
  <1>6. ASSUME NEW s, Item("members", s) \in J
        PROVE  Item("space", s) \in J \/ \E o : Item("accounts", o) \in J /\ s \in Owned(o)'
    <2>1. Item("members", s) \in I
      BY <1>6 DEF Rest
    <2>2. x \notin Ends
      BY <2>1, ItemIs DEF Final, Ends
    <2>3. \A y, o : Item(y, o) \in I /\ y \in Ends => Item(y, o) \in J
      BY <2>2, ItemIs DEF Rest
    <2>4. \A o : Owned(o) \subseteq Owned(o)'
      BY <2>2, OwnedLess DEF Losing, Ends
    <2> QED BY <2>1, <2>3, <2>4 DEF Careful, Ends
  <1> QED BY <1>1, <1>3, <1>4, <1>5, <1>6 DEF Careful

LEMMA EveryoneStays ==
  ASSUME NEW I, Careful(I), NEW x, NEW t, Item(x, t) \in I, Final(I, x), Removed(x, t), Grows,
         NEW J, Rest(I, J, x, t), NEW u \in Users, Welcome(u) \/ Leaving(I, u)
  PROVE  Welcome(u)' \/ Leaving(J, u)'
  <1> DEFINE a == db.active[u]
  <1>1. CASE db'.active[u] = None
    BY <1>1 DEF Welcome
  <1>2. CASE db'.active[u] # None
    <2>1. db'.active[u] = a
      BY <1>2 DEF Removed
    <2>2. x = "profile" => t # u
      BY <1>2 DEF Removed
    <2>3. x = "actives" => t # a
      BY <1>2 DEF Removed
    <2>4. CASE a \in Spaces /\ Losing(x, t, a)
      <3>1. ~Erased("actives", a)
        BY DEF Erased
      <3>2. x = "accounts" /\ OwnerLeft
        BY <2>4, <3>1, NothingOf DEF Losing
      <3>3. db'.space[a].type = "gone"
        BY <2>4 DEF Removed
      <3> QED BY <2>1, <2>4, <3>2, <3>3, OwnerStaysAway DEF Welcome
    <2>5. CASE ~(a \in Spaces /\ Losing(x, t, a))
      <3>1. Item("actives", a) \in I => Leaving(J, u)'
        BY <2>1, <2>3, ItemIs DEF Rest, Leaving
      <3>2. Item("profile", u) \in I => Leaving(J, u)'
        BY <2>2, ItemIs DEF Rest, Leaving
      <3>3. ASSUME NEW o, Item("accounts", o) \in I, a \in Owned(o) PROVE Leaving(J, u)'
        <4>1. a \in Spaces
          BY <3>3 DEF Owned
        <4>2. Item("accounts", o) # Item(x, t)
          BY <2>5, <3>3, <4>1, ItemIs DEF Losing
        <4>3. Item("accounts", o) \in J /\ a \in Owned(o)'
          BY <2>5, <3>3, <4>1, <4>2, OwnedLess DEF Rest
        <4> QED BY <2>1, <4>3 DEF Leaving
      <3>4. CASE Leaving(I, u)
        BY <3>1, <3>2, <3>3, <3>4 DEF Leaving
      <3>5. CASE a \in Spaces /\ db.space[a].type = "gone" /\ OwnerLeft
        BY <2>1, <2>5, <3>5, OwnerStaysAway DEF Welcome, Removed
      <3>6. CASE Enters(u, a)
        <4>1. a \in Spaces /\ Live(a)' /\ db'.space[a].owner = db.space[a].owner
          <5>1. Live(a)
            BY <3>6 DEF Enters
          <5>2. a \in Spaces /\ db'.space[a].type = db.space[a].type /\ db'.space[a].owner = db.space[a].owner
            BY <2>5, <5>1 DEF Live, Removed
          <5> QED BY <2>1, <5>1, <5>2 DEF Live
        <4>2. CASE db.space[a].owner = u
          BY <2>1, <4>1, <4>2 DEF Welcome, Enters
        <4>3. ASSUME NEW m \in db.member, m.of = a, m.user = u PROVE Welcome(u)' \/ Leaving(J, u)'
          <5>1. CASE m \in db'.member
            <6>1. Enters(u, a)'
              BY <2>1, <4>1, <4>3, <5>1 DEF Enters
            <6> QED BY <2>1, <6>1 DEF Welcome
          <5>2. CASE x = "seats" /\ t = u
            BY <3>2, <5>2 DEF Careful
          <5>3. CASE x = "members" /\ t = a
            <6>1. Item("space", a) \in I \/ \E o : Item("accounts", o) \in I /\ a \in Owned(o)
              BY <5>3 DEF Careful
            <6>2. Item("space", a) \in I => Item("actives", a) \in I \/ Erased("actives", a)
              BY DEF Careful, Cascade
            <6>3. ~Erased("actives", a)
              BY DEF Erased
            <6> QED BY <3>1, <3>3, <6>1, <6>2, <6>3
          <5> QED BY <4>3, <5>1, <5>2, <5>3 DEF Removed
        <4> QED BY <3>6, <4>2, <4>3 DEF Enters
      <3>7. CASE a = None
        BY <1>2, <2>1, <3>7
      <3> QED BY <3>4, <3>5, <3>6, <3>7 DEF Welcome
    <2> QED BY <2>4, <2>5
  <1> QED BY <1>1, <1>2

(* The steps of a deletion as a sequence.                                  *)
Sooner(s) == \A y \in Work(s) : y.do \in {"erase", "cancel"}
                               /\ (y.do = "erase" => ~y.broke /\ \A i \in y.items : i.what \notin Ends)

LEMMA ItemsIs ==
  /\ Items(<<>>) = {} /\ Tame(<<>>) /\ ~Clears(<<>>)
  /\ \A s, t : IsSeq(s) /\ IsSeq(t) => Items(s \o t) = Items(s) \cup Items(t)
  /\ \A e : Items(<<e>>) = IF e.do = "erase" THEN e.items ELSE {}
  /\ \A s : Tame(s) => Items(s) = {}
  <1>1. \A s, t : IsSeq(s) /\ IsSeq(t) => Items(s \o t) = Items(s) \cup Items(t)
    BY WorkJoined DEF Items
  <1>2. ASSUME NEW e PROVE Items(<<e>>) = IF e.do = "erase" THEN e.items ELSE {}
    <2>1. Work(<<e>>) = {e}
      BY WorkOfOne
    <2>2. {y \in Work(<<e>>) : y.do = "erase"} = IF e.do = "erase" THEN {e} ELSE {}
      BY <2>1
    <2> QED BY <2>2 DEF Items
  <1>3. \A s : Tame(s) => Items(s) = {}
    BY DEF Items, Tame, OddWork
  <1>4. Items(<<>>) = {} /\ Tame(<<>>)
    BY <1>3, TameIs
  <1>5. ~Clears(<<>>)
    BY DEF Clears
  <1> QED BY <1>1, <1>2, <1>3, <1>4, <1>5

LEMMA TurnJoined ==
  ASSUME NEW s, NEW t, IsSeq(s), IsSeq(t), Sooner(s), InTurn(t), t # <<>>
  PROVE  InTurn(s \o t)
  <1>1. s \in Seq(Work(s) \cup Work(t)) /\ t \in Seq(Work(s) \cup Work(t))
    BY DEF IsSeq
  <1>2. Len(s \o t) = Len(s) + Len(t) /\ Len(s) \in Nat /\ Len(t) \in Nat /\ Len(t) > 0
    BY <1>1
  <1>3. \A n \in 1 .. Len(s) + Len(t) : (s \o t)[n] = IF n <= Len(s) THEN s[n] ELSE t[n - Len(s)]
    BY <1>1
  <1> SUFFICES ASSUME NEW n \in 1 .. Len(s) + Len(t)
               PROVE  /\ (s \o t)[n].do \in {"erase", "cancel"}
                      /\ (s \o t)[n].do = "erase" =>
                            ~(s \o t)[n].broke /\ \A i \in (s \o t)[n].items : i.what \in Ends <=> n = Len(s) + Len(t)
    BY <1>2 DEF InTurn
  <1>4. CASE n <= Len(s)
    <2>1. n \in 1 .. Len(s) /\ n # Len(s) + Len(t)
      BY <1>2, <1>4
    <2>2. s[n] \in Work(s) /\ (s \o t)[n] = s[n]
      BY <1>3, <1>4, <2>1 DEF Work
    <2> QED BY <2>1, <2>2 DEF Sooner
  <1>5. CASE ~(n <= Len(s))
    <2> DEFINE k == n - Len(s)
    <2>1. k \in 1 .. Len(t) /\ (s \o t)[n] = t[k] /\ (n = Len(s) + Len(t) <=> k = Len(t))
      BY <1>2, <1>3, <1>5
    <2> HIDE DEF k
    <2> QED BY <2>1 DEF InTurn
  <1> QED BY <1>4, <1>5

LEMMA TurnOfOne ==
  ASSUME NEW e, e.do = "erase", ~e.broke, \A i \in e.items : i.what \in Ends
  PROVE  InTurn(<<e>>)
  <1>1. Len(<<e>>) = 1 /\ <<e>>[1] = e
    BY WorkOfOne
  <1> HIDE DEF Ends
  <1> QED BY <1>1 DEF InTurn

(* The first step of what is left, and the rest.                           *)
LEMMA TurnGoes ==
  ASSUME NEW s, IsSeq(s), s # <<>>, InTurn(s)
  PROVE  /\ Items(s) = Items(<<Head(s)>>) \cup Items(Tail(s))
         /\ Tail(s) # <<>> => InTurn(Tail(s)) /\ Sooner(<<Head(s)>>)
         /\ Head(s).do = "erase" => ~Head(s).broke /\ (\A i \in Head(s).items : i.what \in Ends <=> Tail(s) = <<>>)
         /\ Work(s) = {Head(s)} \cup Work(Tail(s))
  <1>1. s \in Seq(Work(s))
    BY DEF IsSeq
  <1>2. /\ IsSeq(Tail(s)) /\ Head(s) = s[1] /\ Head(s) \in Work(s) /\ Work(Tail(s)) \subseteq Work(s)
        /\ Len(s) \in Nat /\ Len(s) > 0 /\ Len(Tail(s)) = Len(s) - 1
    BY WorkOfRest
  <1>3. \A i \in 1 .. Len(s) - 1 : Tail(s)[i] = s[i + 1]
    BY <1>1
  <1>4. Tail(s) = <<>> <=> Len(s) = 1
    <2>1. Len(s) = 1 => Tail(s) = <<>>
      BY WorkOfRest
    <2>2. Tail(s) \in Seq(Work(Tail(s)))
      BY <1>2 DEF IsSeq
    <2>3. Tail(s) = <<>> <=> Len(Tail(s)) = 0
      BY <2>2, EmptySeq
    <2> QED BY <1>2, <2>1, <2>3
  <1>5. Work(s) = {Head(s)} \cup Work(Tail(s))
    <2> SUFFICES ASSUME NEW n \in 1 .. Len(s), n # 1 PROVE s[n] \in Work(Tail(s))
      BY <1>2 DEF Work
    <2>1. n - 1 \in 1 .. Len(s) - 1 /\ Tail(s)[n - 1] = s[n]
      BY <1>2, <1>3
    <2> QED BY <1>2, <2>1 DEF Work
  <1>6. Items(s) = Items(<<Head(s)>>) \cup Items(Tail(s))
    BY <1>5, WorkOfOne DEF Items
  <1>7. /\ Head(s).do \in {"erase", "cancel"}
        /\ Head(s).do = "erase" => ~Head(s).broke /\ \A i \in Head(s).items : i.what \in Ends <=> 1 = Len(s)
    <2>1. 1 \in 1 .. Len(s)
      BY <1>2
    <2> QED BY <1>2, <2>1, Zenon DEF InTurn
  <1>8. Tail(s) # <<>> => InTurn(Tail(s))
    <2> SUFFICES ASSUME NEW n \in 1 .. Len(s) - 1
                 PROVE  /\ Tail(s)[n].do \in {"erase", "cancel"}
                        /\ Tail(s)[n].do = "erase" =>
                             ~Tail(s)[n].broke /\ \A i \in Tail(s)[n].items : i.what \in Ends <=> n = Len(s) - 1
      BY <1>2, Zenon DEF InTurn
    <2>1. Tail(s)[n] = s[n + 1] /\ n + 1 \in 1 .. Len(s) /\ (n = Len(s) - 1 <=> n + 1 = Len(s))
      BY <1>2, <1>3
    <2> QED BY <2>1 DEF InTurn
  <1>9. Tail(s) # <<>> => Sooner(<<Head(s)>>)
    BY <1>4, <1>7, WorkOfOne DEF Sooner
  <1> QED BY <1>4, <1>5, <1>6, <1>7, <1>8, <1>9

(* One handler at a time: what is said of every worker is said of the one. *)
Only(w) == \A v \in Workers : v # w => job[v] = <<>>
Bound(w) ==
    /\ ShapeOK /\ RefsStand
    /\ Tame(job[w]) \/ Erases(job[w]) \/ Clears(job[w])
    /\ \A u \in Users : Welcome(u) \/ Leaving(Items(job[w]), u) \/ Clearing(job[w], u)

LEMMA NobodyLeaves == \A u : ~Leaving({}, u)
  BY DEF Leaving

LEMMA SerialBinds ==
  ASSUME NEW w \in Workers, Only(w), Serial, Calm
  PROVE  Bound(w)
  <1>1. \A u : \A v \in Workers : v # w => ~Leaving(Items(job[v]), u) /\ ~Clearing(job[v], u)
    BY ItemsIs, NobodyLeaves DEF Only, Clearing
  <1> QED BY <1>1 DEF Serial, Bound

LEMMA BoundIsSerial ==
  ASSUME NEW w \in Workers, Only(w)', Calm' => Bound(w)'
  PROVE  Serial'
  <1>1. \A v \in Workers : v # w => Tame(job'[v])
    BY ItemsIs DEF Only
  <1> QED BY <1>1 DEF Serial, Bound

LEMMA CalmAlone ==
  ASSUME Inv, Calm
  PROVE  \A w \in Workers : job[w] # <<>> => Only(w)
  <1>1. OneAtATime
    BY DEF Inv, BudgetInv, Calm, Barring
  <1> QED BY <1>1 DEF OneAtATime, Busy, Only

LEMMA CalmBefore == Calm' /\ Grows => Calm
  BY DEF Calm, Barring, Grows

(* A request that is alone when it comes. *)
LEMMA CalmStart ==
  ASSUME HistOK, Calm', Crowded \subseteq hist'.lapses
  PROVE  AllIdle
  <1>1. ~AllIdle => "overlap" \in hist'.lapses
    BY Zenon DEF Crowded
  <1> QED BY <1>1 DEF Calm, Barring

LEMMA StartedAlone ==
  ASSUME JobsOK, NEW w \in Workers, NEW steps, AllIdle, job' = [job EXCEPT ![w] = steps]
  PROVE  Only(w)' /\ Only(w) /\ job[w] = <<>> /\ job'[w] = steps
  BY DEF AllIdle, Idle, Only, JobsOK

LEMMA WentAlone ==
  ASSUME JobsOK, NEW w \in Workers, NEW steps, Only(w), job' = [job EXCEPT ![w] = steps]
  PROVE  Only(w)' /\ job'[w] = steps
  BY DEF Only, JobsOK

LEMMA AllWelcome ==
  ASSUME Serial, Calm, AllIdle
  PROVE  ShapeOK /\ RefsStand /\ \A u \in Users : Welcome(u)
  <1>1. \A u : \A v \in Workers : ~Leaving(Items(job[v]), u) /\ ~Clearing(job[v], u)
    BY ItemsIs, NobodyLeaves DEF AllIdle, Idle, Clearing
  <1> QED BY <1>1 DEF Serial

(* A mild step keeps what a deletion still has to do, and starts none.     *)
LEMMA SoftKeepsSerial ==
  ASSUME Inv, Inv', Serial, Soft
  PROVE  Serial'
  <1> SUFFICES ASSUME Calm' PROVE Serial'
    BY DEF Serial
  <1>0. Calm /\ Grows /\ MildJobs /\ Heeded /\ Steadies
    BY CalmBefore DEF Soft, Gentle
  <1>1. ShapeOK /\ RefsStand /\ Steady
    BY <1>0 DEF Serial, Steadies
  <1>2. \A u \in Users : Welcome(u) => db'.active[u] = db.active[u] \/ Welcome(u)'
    BY <1>1 DEF Steady, Welcome
  <1>3. ASSUME NEW u \in Users, Welcome(u) PROVE Welcome(u)'
    <2>1. CASE db'.active[u] = None
      BY <2>1 DEF Welcome
    <2>2. CASE db'.active[u] # None
      <3> DEFINE a == db.active[u]
      <3>1. db'.active[u] = a \/ Enters(u, db.active[u])'
        BY <1>1, <2>2 DEF Steady
      <3>2. CASE Enters(u, db.active[u])'
        BY <3>2 DEF Welcome
      <3>3. CASE db'.active[u] = a
        <4>1. CASE Enters(u, a)
          <5>1. \A x, s : Enters(x, s) => Enters(x, s)'
            BY <1>1 DEF Steady
          <5>2. PICK s : s = a
            OBVIOUS
          <5>3. Enters(u, s)'
            BY <4>1, <5>1, <5>2
          <5>4. s = db'.active[u]
            BY <3>3, <5>2
          <5> QED BY <5>3, <5>4 DEF Welcome, Enters, Live
        <4>2. CASE a \in Spaces /\ db.space[a].type = "gone" /\ OwnerLeft
          BY <1>0, <1>1, <3>3, <4>2, OwnerStaysAway DEF Steady, Welcome
        <4> QED BY <1>3, <2>2, <3>3, <4>1, <4>2 DEF Welcome
      <3> QED BY <3>1, <3>2, <3>3
    <2> QED BY <2>1, <2>2
  <1>4. \A v \in Workers : job[v] # <<>> /\ Ready(v) => Tame(job[v])
    <2> SUFFICES ASSUME NEW v \in Workers, job[v] # <<>>, Ready(v), ~Tame(job[v]) PROVE FALSE
      OBVIOUS
    <2>1. IsSeq(job[v])
      BY JobsAreSeqs DEF Inv, Base
    <2>2. Head(job[v]) = job[v][1] /\ Len(job[v]) \in Nat /\ Len(job[v]) > 0 /\ Head(job[v]).do \notin OddWork
      BY <2>1, WorkOfRest DEF Ready
    <2>3. ~Clears(job[v])
      BY <2>2 DEF Clears, OddWork
    <2>4. ~Erases(job[v])
      BY <2>2 DEF Erases, InTurn, OddWork
    <2> QED BY <1>0, <2>3, <2>4 DEF Serial
  <1>5. \A v \in Workers : job'[v] = job[v] \/ (Tame(job[v]) /\ Tame(job'[v]))
    BY <1>0, <1>4, ItemsIs DEF MildJobs
  <1>6. CASE \A v \in Workers : Tame(job[v])
    <2>1. \A u : \A v \in Workers : ~Leaving(Items(job[v]), u) /\ ~Clearing(job[v], u)
      <3> SUFFICES ASSUME NEW v \in Workers, Clears(job[v]) PROVE FALSE
        BY <1>6, ItemsIs, NobodyLeaves DEF Clearing
      <3>1. job[v][1] \in Work(job[v]) /\ job[v][1].do = "clear"
        BY DEF Clears, Work
      <3> QED BY <1>6, <3>1 DEF Tame, OddWork
    <2>2. \A u \in Users : Welcome(u)'
      BY <1>0, <1>3, <2>1 DEF Serial
    <2> QED BY <1>1, <1>5, <1>6, <2>2 DEF Serial, Steady
  <1>7. CASE ~\A v \in Workers : Tame(job[v])
    <2>1. Unmoved
      <3>1. ~(Crowded \subseteq hist'.lapses)
        <4> SUFFICES ASSUME AllIdle PROVE FALSE
          BY CalmStart DEF Inv, Base
        <4> QED BY <1>7, ItemsIs DEF AllIdle, Idle
      <3>2. ~\E v \in Workers : job[v] # <<>> /\ Ready(v)
        <4> SUFFICES ASSUME NEW v \in Workers, job[v] # <<>>, Ready(v) PROVE FALSE
          OBVIOUS
        <4>1. Tame(job[v]) /\ Only(v)
          BY <1>0, <1>4, CalmAlone
        <4> QED BY <1>7, <4>1, ItemsIs DEF Only
      <3> QED BY <1>0, <3>1, <3>2 DEF Heeded
    <2>2. \A o : Owned(o)' = Owned(o)
      BY <1>1, <2>1 DEF Unmoved, Owned, Live
    <2>3. \A x, t : Erased(x, t) => Erased(x, t)'
      BY <1>1, <2>1 DEF Unmoved, Erased
    <2>4. db'.active = db.active
      BY <1>1, <2>1 DEF Unmoved
    <2>5. ASSUME NEW v \in Workers, job'[v] = job[v], Erases(job[v]) PROVE Erases(job[v])'
      <3> DEFINE s == job[v]
                 I == Items(job[v])
      <3>1. Careful(I)
        BY <2>5 DEF Erases
      <3>2. PICK K : K = I
        OBVIOUS
      <3>3. Careful(K)
        BY <3>1, <3>2
      <3>4. Careful(K)'
        BY <1>0, <2>2, <2>3, <3>3, OwnerStaysAway DEF Careful
      <3>5. K = Items(job'[v])
        BY <2>5, <3>2
      <3>6. Careful(Items(job[v]))'
        BY <3>4, <3>5 DEF Careful
      <3> QED BY <2>5, <3>6 DEF Erases
    <2>6. ASSUME NEW v \in Workers, NEW u \in Users, Leaving(Items(job[v]), u) \/ Clearing(job[v], u)
          PROVE  (Leaving(Items(job[v]), u) \/ Clearing(job[v], u))'
      <3>1. job'[v] = job[v]
        <4>1. CASE Tame(job[v])
          <5>1. Clears(job[v])
            BY <2>6, <4>1, ItemsIs, NobodyLeaves DEF Clearing
          <5>2. job[v][1] \in Work(job[v]) /\ job[v][1].do = "clear"
            BY <5>1 DEF Clears, Work
          <5> QED BY <4>1, <5>2 DEF Tame, OddWork
        <4> QED BY <1>5, <4>1
      <3> QED BY <2>2, <2>4, <2>6, <3>1 DEF Leaving, Clearing
    <2>7. \A v \in Workers : (Tame(job[v]) \/ Erases(job[v]) \/ Clears(job[v]))'
      <3> SUFFICES ASSUME NEW v \in Workers, job'[v] = job[v] PROVE (Tame(job[v]) \/ Erases(job[v]) \/ Clears(job[v]))'
        BY <1>5
      <3>1. Tame(job[v]) \/ Erases(job[v]) \/ Clears(job[v])
        BY <1>0 DEF Serial
      <3>2. Tame(job[v]) => Tame(job[v])'
        BY DEF Tame
      <3>3. Clears(job[v]) => Clears(job[v])'
        BY DEF Clears
      <3> QED BY <2>5, <3>1, <3>2, <3>3
    <2>8. \A u \in Users : (Welcome(u) \/ \E v \in Workers : Leaving(Items(job[v]), u) \/ Clearing(job[v], u))'
      BY <1>0, <1>3, <2>6 DEF Serial
    <2> QED BY <1>1, <2>7, <2>8 DEF Serial, Steady
  <1> QED BY <1>6, <1>7

(* The deletions themselves, each handler in turn. *)
LEMMA RemoveMemberSerial ==
  ASSUME Inv, Serial, Grows, NEW w \in Workers, NEW u, NEW m, RemoveMember(w, u, m)
  PROVE  Serial'
  <1> DEFINE e == [do |-> "clear", user |-> m.user, of |-> m.of]
  <1> SUFFICES ASSUME Calm' PROVE Serial'
    BY DEF Serial
  <1>1. Begin(w, <<e>>) /\ db' = [db EXCEPT !.member = @ \ {m}]
    BY Zenon DEF RemoveMember
  <1>2. e.do = "clear" /\ e.user = m.user /\ e.of = m.of
    OBVIOUS
  <1> HIDE DEF e
  <1>3. AllIdle /\ job' = [job EXCEPT ![w] = <<e>>]
    <2>1. hist' = Noting(Spend, Crowded)
      BY <1>1, Zenon DEF Begin
    <2>2. Crowded \subseteq hist'.lapses
      BY <2>1, NotingMore DEF Inv, Base
    <2> QED BY <1>1, <2>2, CalmStart DEF Begin, Inv, Base
  <1>4. Only(w)' /\ job'[w] = <<e>>
    BY <1>3, StartedAlone DEF Inv, Base
  <1>5. ShapeOK /\ RefsStand /\ \A v \in Users : Welcome(v)
    BY <1>3, AllWelcome, CalmBefore
  <1>6. db'.member = db.member \ {m} /\ \A f \in DbFields \ {"member"} : db'[f] = db[f]
    BY <1>1 DEF Inv, Base, DbOK, DbFields
  <1>7. /\ db'.space = db.space /\ db'.cloud = db.cloud /\ db'.cred = db.cred /\ db'.invite = db.invite
        /\ db'.keys = db.keys /\ db'.active = db.active
    BY <1>6 DEF DbFields
  <1>8. ShapeOK' /\ RefsStand'
    BY <1>5, <1>6, <1>7 DEF ShapeOK, RefsStand, Standing
  <1>9. Clears(job[w])'
    BY <1>2, <1>4, WorkOfOne DEF Clears
  <1>10. ASSUME NEW v \in Users PROVE Welcome(v)' \/ Clearing(job[w], v)'
    <2>1. CASE Enters(v, db.active[v])
      <3>1. CASE Enters(v, db.active[v])'
        BY <3>1 DEF Welcome
      <3>2. CASE m.user = v /\ m.of = db.active[v]
        BY <1>2, <1>4, <1>7, <1>9, <3>2, WorkOfOne DEF Clearing
      <3> QED BY <1>6, <1>7, <2>1, <3>1, <3>2 DEF Enters, Live
    <2>2. CASE db.active[v] = None
      BY <1>7, <2>2 DEF Welcome
    <2>3. CASE db.active[v] \in Spaces /\ db.space[db.active[v]].type = "gone" /\ OwnerLeft
      BY <1>7, <2>3, OwnerStaysAway DEF Welcome
    <2> QED BY <1>5, <2>1, <2>2, <2>3 DEF Welcome
  <1>11. Bound(w)'
    BY <1>8, <1>9, <1>10 DEF Bound
  <1> QED BY <1>4, <1>11, BoundIsSerial

LEMMA ClearProfileSerial ==
  ASSUME Inv, Serial, Grows, NEW w \in Workers, ClearProfile(w)
  PROVE  Serial'
  <1> DEFINE p == This(w)
  <1> SUFFICES ASSUME Calm' PROVE Serial'
    BY DEF Serial
  <1>1. Doing(w, "clear") /\ Proceed(w, <<>>)
    BY Zenon DEF ClearProfile
  <1>2. db' = [db EXCEPT !.active[p.user] = IF @ = p.of THEN None ELSE @]
    <2>1. \/ db' = [db EXCEPT !.active[p.user] = IF @ = p.of THEN None ELSE @]
          \/ \E f : hist' = [Noting(hist, {"swallowed"}) EXCEPT !.faults = f]
      BY Zenon DEF ClearProfile
    <2>2. ASSUME NEW f, hist' = [Noting(hist, {"swallowed"}) EXCEPT !.faults = f] PROVE FALSE
      BY <2>2 DEF Noting, Inv, Base, HistOK, HistFields, Calm, Barring
    <2> QED BY <2>1, <2>2, Zenon
  <1>3. job[w] # <<>> /\ Head(job[w]).do = "clear" /\ p = Head(job[w])
    BY <1>1 DEF Doing, Idle, This
  <1>4. Only(w) /\ Bound(w)
    BY <1>3, CalmBefore, CalmAlone, SerialBinds
  <1>5. IsSeq(job[w])
    BY JobsAreSeqs DEF Inv, Base
  <1>6. Clears(job[w]) /\ Tail(job[w]) = <<>> /\ p = job[w][1]
    <2>1. /\ Head(job[w]) = job[w][1] /\ Head(job[w]) \in Work(job[w]) /\ Len(job[w]) \in Nat /\ Len(job[w]) > 0
          /\ Len(job[w]) = 1 => Tail(job[w]) = <<>>
      BY <1>3, <1>5, WorkOfRest
    <2>2. ~Tame(job[w])
      BY <1>3, <2>1 DEF Tame, OddWork
    <2>3. ~Erases(job[w])
      BY <1>3, <2>1 DEF Erases, InTurn
    <2> QED BY <1>3, <1>4, <2>1, <2>2, <2>3 DEF Bound, Clears
  <1> HIDE DEF p
  <1>7. job' = [job EXCEPT ![w] = <<>>]
    <2>1. job' = [job EXCEPT ![w] = <<>> \o Tail(job[w])]
      BY <1>1 DEF Proceed
    <2>2. <<>> \o Tail(job[w]) = <<>>
      BY <1>6, WorkOfNone, WorkJoined
    <2> QED BY <2>1, <2>2
  <1>8. Only(w)' /\ job'[w] = <<>>
    BY <1>4, <1>7, WentAlone DEF Inv, Base
  <1>9. \A f \in DbFields \ {"active"} : db'[f] = db[f]
    BY <1>2 DEF Inv, Base, DbOK, DbFields
  <1>10. db'.active = [db.active EXCEPT ![p.user] = IF @ = p.of THEN None ELSE @]
    BY <1>2 DEF Inv, Base, DbOK, DbFields
  <1>11. /\ db'.space = db.space /\ db'.cloud = db.cloud /\ db'.cred = db.cred /\ db'.invite = db.invite
         /\ db'.keys = db.keys /\ db'.member = db.member
    BY <1>9 DEF DbFields
  <1>12. ShapeOK' /\ RefsStand'
    BY <1>4, <1>10, <1>11 DEF Bound, ShapeOK, RefsStand, Standing
  <1>13. \A v \in Users : db'.active[v] = IF v = p.user /\ db.active[v] = p.of THEN None ELSE db.active[v]
    BY <1>4, <1>10 DEF Bound, ShapeOK
  <1>14. ASSUME NEW v \in Users PROVE Welcome(v)'
    <2>1. CASE v = p.user /\ db.active[v] = p.of
      BY <1>13, <2>1 DEF Welcome
    <2>2. CASE ~(v = p.user /\ db.active[v] = p.of)
      <3>1. db'.active[v] = db.active[v]
        BY <1>13, <2>2
      <3>2. ~Leaving(Items(job[w]), v)
        <4>1. Items(job[w]) = {}
          <5>1. \A y \in Work(job[w]) : y = job[w][1]
            BY <1>6 DEF Work, Clears
          <5> QED BY <1>3, <1>6, <5>1 DEF Items
        <4> QED BY <4>1, NobodyLeaves
      <3>3. Welcome(v)
        BY <1>4, <1>6, <2>2, <3>2 DEF Bound, Clearing
      <3> QED BY <1>11, <3>1, <3>3, OwnerStaysAway DEF Welcome, Enters, Live
    <2> QED BY <2>1, <2>2
  <1>15. Bound(w)'
    BY <1>8, <1>12, <1>14, ItemsIs DEF Bound
  <1> QED BY <1>8, <1>15, BoundIsSerial

(* A deletion is started whole: everything of what it deletes is on it.    *)
LEMMA StartsErasing ==
  ASSUME Inv, Serial, Calm', Grows, NEW w \in Workers, AllIdle, UNCHANGED db, NEW steps,
         job' = [job EXCEPT ![w] = steps], steps # <<>>, InTurn(steps), NEW I, I = Items(steps), Careful(I)'
  PROVE  Serial'
  <1>1. Only(w)' /\ job'[w] = steps
    BY StartedAlone DEF Inv, Base
  <1>2. ShapeOK /\ RefsStand /\ \A v \in Users : Welcome(v)
    BY AllWelcome, CalmBefore
  <1>3. ShapeOK' /\ RefsStand' /\ \A v \in Users : Welcome(v)'
    BY <1>2, OwnerStaysAway DEF ShapeOK, RefsStand, Standing, Welcome, Enters, Live
  <1>4. Careful(Items(job[w]))'
    BY <1>1 DEF Careful
  <1>5. Erases(job[w])'
    BY <1>1, <1>4 DEF Erases
  <1>6. Bound(w)'
    BY <1>3, <1>5 DEF Bound
  <1> QED BY <1>1, <1>6, BoundIsSerial

LEMMA OfIs ==
  ASSUME NEW items, NEW s
  PROVE  \A i : i \in Of(items, s) <=> \E x \in items : i = Item(x, s)
  BY DEF Of, Item

LEMMA EraseIs ==
  ASSUME NEW items
  PROVE  Erase(items).do = "erase" /\ Erase(items).items = items /\ Erase(items).broke = FALSE
  BY DEF Erase

LEMMA EraseAgain ==
  ASSUME NEW items
  PROVE  [Erase(items) EXCEPT !.broke = FALSE] = Erase(items)
  <1> DEFINE e == Erase(items)
  <1>1. e = [do |-> "erase", items |-> items, broke |-> e.broke]
    BY EraseIs, Zenon DEF Erase
  <1>2. e.broke = FALSE
    BY EraseIs, Zenon
  <1> HIDE DEF e
  <1>3. [e EXCEPT !.broke = e.broke] = e
    BY <1>1
  <1> QED BY <1>2, <1>3, Zenon DEF e

LEMMA DeleteOrgSerial ==
  ASSUME Inv, Serial, Grows, NEW w \in Workers, NEW u, DeleteOrg(w, u)
  PROVE  Serial'
  <1> SUFFICES ASSUME Calm' PROVE Serial'
    BY DEF Serial
  <1>1. PICK s : s \in Spaces /\ Begin(w, <<Erase(Of(Cascade, s)), Erase(Of({"space"}, s))>>) /\ UNCHANGED db
    BY Zenon DEF DeleteOrg, Live
  <1> DEFINE a == Erase(Of(Cascade, s))
             b == Erase(Of({"space"}, s))
             I == Of(Cascade, s) \cup Of({"space"}, s)
  <1>2. AllIdle /\ job' = [job EXCEPT ![w] = <<a, b>>]
    <2>1. hist' = Noting(Spend, Crowded)
      BY <1>1, Zenon DEF Begin
    <2>2. Crowded \subseteq hist'.lapses
      BY <2>1, NotingMore DEF Inv, Base
    <2> QED BY <1>1, <2>2, CalmStart DEF Begin, Inv, Base
  <1>3. /\ a.do = "erase" /\ a.items = Of(Cascade, s) /\ ~a.broke
        /\ b.do = "erase" /\ b.items = Of({"space"}, s) /\ ~b.broke
    BY EraseIs
  <1>4. \A i : i \in I <=> i = Item("space", s) \/ \E x \in Cascade : i = Item(x, s)
    BY OfIs
  <1>5. (\A i \in a.items : i.what \notin Ends) /\ \A i \in b.items : i.what \in Ends
    BY <1>3, OfIs, ItemIs DEF Cascade, Ends
  <1> HIDE DEF a, b, I
  <1>6. <<a, b>> # <<>> /\ InTurn(<<a, b>>)
    <2>1. Len(<<a, b>>) = 2 /\ <<a, b>>[1] = a /\ <<a, b>>[2] = b /\ <<a, b>> # <<>>
      BY WorkOfTwo
    <2> HIDE DEF Ends
    <2> QED BY <1>3, <1>5, <2>1 DEF InTurn
  <1>7. I = Items(<<a, b>>)
    BY <1>3, WorkOfTwo DEF Items, I
  <1>8. \A K : K = I => Careful(K)'
    <2> SUFFICES ASSUME NEW K, K = I PROVE Careful(K)'
      OBVIOUS
    <2>1. \A y, t : Item(y, t) \in K => t = s /\ (y = "space" \/ y \in Cascade)
      BY <1>4, ItemIs
    <2>2. \A y \in Cascade : Item(y, s) \in K
      BY <1>4
    <2>3. Item("space", s) \in K
      BY <1>4
    <2>4. \A i \in K : i = Item(i.what, i.of) /\ i.what \in Cascade \cup Ends \cup {"seats"}
      BY <1>4, ItemIs DEF Ends
    <2>5. ~(\E t : Item("seats", t) \in K \/ Item("accounts", t) \in K)
      BY <2>1 DEF Cascade
    <2> QED BY <1>1, <2>1, <2>2, <2>3, <2>4, <2>5 DEF Careful
  <1> QED BY <1>1, <1>2, <1>6, <1>7, <1>8, StartsErasing

LEMMA DeleteMeSerial ==
  ASSUME Inv, Serial, Grows, NEW w \in Workers, NEW u, DeleteMe(w, u)
  PROVE  Serial'
  <1> DEFINE mine == Owned(u)
             paid == {db.space[s].sub : s \in mine} \ {None}
             All(items) == UNION {Of(items, s) : s \in mine}
             first  == IF paid = {} THEN <<>> ELSE <<[do |-> "cancel", subs |-> paid]>>
             second == IF mine = {} THEN <<>> ELSE <<Erase(All(OwnedCascade)), Erase(All({"invites"}))>>
             seats  == Erase({[what |-> "seats", of |-> u]})
             last   == Erase({[what |-> "profile", of |-> u], [what |-> "accounts", of |-> u]})
             I == {Item("seats", u), Item("profile", u), Item("accounts", u)}
                    \cup All(OwnedCascade) \cup All({"invites"})
  <1> SUFFICES ASSUME Calm' PROVE Serial'
    BY DEF Serial
  <1>1. /\ hist' = Noting(Spend, Crowded \cup {"owner left"}) /\ UNCHANGED db
        /\ job' = [job EXCEPT ![w] = first \o second \o <<seats, last>>]
    BY Zenon DEF DeleteMe
  <1>2. AllIdle /\ OwnerLeft'
    <2>1. hist'.lapses = hist.lapses \cup (Crowded \cup {"owner left"})
      BY <1>1, NotingMore, Zenon DEF Inv, Base
    <2>2. Crowded \subseteq hist'.lapses /\ OwnerLeft'
      BY <2>1, Zenon DEF OwnerLeft
    <2> QED BY <2>2, CalmStart DEF Inv, Base
  <1>16. UNCHANGED db /\ job' = [job EXCEPT ![w] = first \o second \o <<seats, last>>]
    BY <1>1, Zenon
  <1>3. \A items, i : i \in All(items) <=> \E s \in mine, x \in items : i = Item(x, s)
    BY OfIs
  <1>4. IsSeq(first) /\ Sooner(first) /\ Items(first) = {}
    <2>1. CASE paid = {}
      BY <2>1, WorkOfNone, ItemsIs DEF Sooner
    <2>2. CASE paid # {}
      <3> DEFINE e == [do |-> "cancel", subs |-> paid]
      <3>1. e.do = "cancel" /\ first = <<e>>
        BY <2>2
      <3> HIDE DEF e, first, paid
      <3> QED BY <3>1, WorkOfOne, ItemsIs DEF Sooner
    <2> QED BY <2>1, <2>2
  <1>5. IsSeq(second) /\ Sooner(second) /\ Items(second) = All(OwnedCascade) \cup All({"invites"})
    <2>1. CASE mine = {}
      BY <2>1, WorkOfNone, ItemsIs DEF Sooner
    <2>2. CASE mine # {}
      <3> DEFINE a == Erase(All(OwnedCascade))
                 b == Erase(All({"invites"}))
      <3>1. second = <<a, b>>
        BY <2>2
      <3>2. /\ a.do = "erase" /\ a.items = All(OwnedCascade) /\ ~a.broke
            /\ b.do = "erase" /\ b.items = All({"invites"}) /\ ~b.broke
        BY EraseIs
      <3>3. (\A i \in a.items : i.what \notin Ends) /\ \A i \in b.items : i.what \notin Ends
        BY <1>3, <3>2, ItemIs DEF OwnedCascade, Ends
      <3> HIDE DEF a, b, second, All
      <3> QED BY <3>1, <3>2, <3>3, WorkOfTwo DEF Items, Sooner
    <2> QED BY <2>1, <2>2
  <1>6. /\ IsSeq(<<seats, last>>) /\ <<seats, last>> # <<>> /\ InTurn(<<seats, last>>)
        /\ Items(<<seats, last>>) = {Item("seats", u), Item("profile", u), Item("accounts", u)}
    <2>1. /\ seats.do = "erase" /\ seats.items = {Item("seats", u)} /\ ~seats.broke
          /\ last.do = "erase" /\ last.items = {Item("profile", u), Item("accounts", u)} /\ ~last.broke
      BY EraseIs DEF Item
    <2> HIDE DEF seats, last
    <2>4. Item("seats", u).what = "seats" /\ Item("profile", u).what = "profile" /\ Item("accounts", u).what = "accounts"
      BY ItemIs
    <2>5. \A i \in seats.items : i.what \notin Ends
      BY <2>1, <2>4 DEF Ends
    <2>2. (\A i \in seats.items : i.what \notin Ends) /\ \A i \in last.items : i.what \in Ends
      BY <2>1, <2>4, <2>5 DEF Ends
    <2> HIDE DEF Ends
    <2>3. /\ Len(<<seats, last>>) = 2 /\ <<seats, last>>[1] = seats /\ <<seats, last>>[2] = last
          /\ <<seats, last>> # <<>> /\ IsSeq(<<seats, last>>) /\ Work(<<seats, last>>) = {seats, last}
      BY WorkOfTwo
    <2>6. InTurn(<<seats, last>>)
      BY <2>1, <2>2, <2>3 DEF InTurn
    <2> QED BY <2>1, <2>3, <2>6 DEF Items
  <1> DEFINE both  == first \o second
             steps == both \o <<seats, last>>
  <1> HIDE DEF first, second, seats, last, All, mine, paid
  <1>7. IsSeq(both) /\ Sooner(both) /\ Items(both) = All(OwnedCascade) \cup All({"invites"})
    BY <1>4, <1>5, WorkJoined, ItemsIs DEF Sooner
  <1> HIDE DEF both
  <1>8. InTurn(steps) /\ I = Items(steps) /\ Work(steps) # {}
    <2>1. InTurn(steps)
      BY <1>6, <1>7, TurnJoined
    <2>2. Items(steps) = Items(both) \cup Items(<<seats, last>>)
      BY <1>6, <1>7, ItemsIs
    <2>3. Work(steps) = Work(both) \cup Work(<<seats, last>>)
      BY <1>6, <1>7, WorkJoined
    <2> QED BY <1>6, <1>7, <2>1, <2>2, <2>3, WorkOfTwo
  <1>9. steps # <<>>
    BY <1>8, WorkOfNone
  <1>10. \A K : K = I => Careful(K)'
    <2> SUFFICES ASSUME NEW K, K = I PROVE Careful(K)'
      OBVIOUS
    <2>1. \A i : i \in K <=> \/ i = Item("seats", u) \/ i = Item("profile", u) \/ i = Item("accounts", u)
                             \/ \E s \in mine, x \in OwnedCascade \cup {"invites"} : i = Item(x, s)
      BY <1>3
    <2>2. mine = Owned(u) /\ \A o : Owned(o)' = Owned(o)
      <3>1. mine = Owned(u)
        BY DEF mine
      <3>2. \A o : Owned(o)' = Owned(o)
        BY <1>16 DEF Owned, Live
      <3> QED BY <3>1, <3>2
    <2>3. \A i \in K : i = Item(i.what, i.of) /\ i.what \in Cascade \cup Ends \cup {"seats"}
      BY <2>1, ItemIs DEF Ends, OwnedCascade, Cascade
    <2>4. \A t : Item("space", t) \notin K
      BY <2>1, ItemIs DEF OwnedCascade
    <2>5. \A o : Item("accounts", o) \in K => o = u
      BY <2>1, ItemIs DEF OwnedCascade
    <2>6. \A o : Item("seats", o) \in K => o = u
      BY <2>1, ItemIs DEF OwnedCascade
    <2>7. \A t : Item("members", t) \in K => t \in Owned(u)
      BY <2>1, <2>2, ItemIs
    <2>8. /\ Item("profile", u) \in K /\ Item("accounts", u) \in K
          /\ \A s \in Owned(u), x \in OwnedCascade \cup {"invites"} : Item(x, s) \in K
      BY <2>1, <2>2
    <2> QED BY <1>2, <2>2, <2>3, <2>4, <2>5, <2>6, <2>7, <2>8 DEF Careful
  <1>11. job' = [job EXCEPT ![w] = steps]
    BY <1>16 DEF both
  <1> HIDE DEF steps, I
  <1>12. AllIdle /\ UNCHANGED db /\ steps # <<>> /\ InTurn(steps) /\ I = Items(steps)
    BY <1>2, <1>8, <1>9, <1>16
  <1>13. PICK K : K = I
    OBVIOUS
  <1>14. Careful(K)' /\ K = Items(steps)
    BY <1>10, <1>12, <1>13
  <1>15. PICK done : done = steps
    OBVIOUS
  <1>17. /\ job' = [job EXCEPT ![w] = done] /\ done # <<>> /\ InTurn(done) /\ K = Items(done)
    BY <1>11, <1>12, <1>14, <1>15
  <1> QED BY <1>12, <1>14, <1>17, StartsErasing

LEMMA CancelAllSerial ==
  ASSUME Inv, Serial, Grows, NEW w \in Workers, CancelAll(w)
  PROVE  Serial'
  <1> SUFFICES ASSUME Calm' PROVE Serial'
    BY DEF Serial
  <1>1. Doing(w, "cancel") /\ Proceed(w, <<>>) /\ UNCHANGED db
    BY Zenon DEF CancelAll
  <1>2. job[w] # <<>> /\ Head(job[w]).do = "cancel" /\ IsSeq(job[w])
    BY <1>1, JobsAreSeqs DEF Doing, Idle, Inv, Base
  <1>3. Only(w) /\ Bound(w)
    BY <1>2, CalmBefore, CalmAlone, SerialBinds
  <1>4. Head(job[w]) = job[w][1] /\ Head(job[w]) \in Work(job[w]) /\ IsSeq(Tail(job[w]))
    BY <1>2, WorkOfRest
  <1>5. Erases(job[w])
    <2>1. ~Tame(job[w]) /\ ~Clears(job[w])
      BY <1>2, <1>4 DEF Tame, OddWork, Clears
    <2> QED BY <1>3, <2>1 DEF Bound
  <1>6. Items(job[w]) = Items(Tail(job[w])) /\ (Tail(job[w]) # <<>> => InTurn(Tail(job[w])))
    <2>1. InTurn(job[w])
      BY <1>5 DEF Erases
    <2>2. /\ Items(job[w]) = Items(<<Head(job[w])>>) \cup Items(Tail(job[w]))
          /\ Tail(job[w]) # <<>> => InTurn(Tail(job[w]))
      BY <1>2, <2>1, TurnGoes
    <2>3. Items(<<Head(job[w])>>) = {}
      BY <1>2, ItemsIs
    <2> QED BY <2>2, <2>3
  <1>7. job' = [job EXCEPT ![w] = Tail(job[w])]
    <2>1. job' = [job EXCEPT ![w] = <<>> \o Tail(job[w])]
      BY <1>1 DEF Proceed
    <2>2. <<>> \o Tail(job[w]) = Tail(job[w])
      BY <1>4, WorkOfNone, WorkJoined
    <2> QED BY <2>1, <2>2
  <1>8. Only(w)' /\ job'[w] = Tail(job[w])
    BY <1>3, <1>7, WentAlone DEF Inv, Base
  <1>9. PICK I : I = Items(job[w])
    OBVIOUS
  <1>10. I = Items(job'[w]) /\ Careful(I)
    BY <1>5, <1>6, <1>8, <1>9 DEF Erases
  <1>11. (\A o : Owned(o)' = Owned(o)) /\ (\A x, t : Erased(x, t)' <=> Erased(x, t)) /\ db'.active = db.active
    BY <1>1 DEF Owned, Live, Erased
  <1>12. Careful(I)'
    BY <1>10, <1>11, OwnerStaysAway DEF Careful
  <1>13. Careful(Items(job[w]))'
    BY <1>10, <1>12 DEF Careful
  <1>14. Tame(job[w])' \/ Erases(job[w])'
    BY <1>6, <1>8, <1>13, ItemsIs DEF Erases
  <1>15. ASSUME NEW v \in Users PROVE (Welcome(v) \/ Leaving(Items(job[w]), v))'
    <2>1. ~Clearing(job[w], v)
      BY <1>2, <1>4 DEF Clearing, Clears
    <2>2. Welcome(v) => Welcome(v)'
      BY <1>1, OwnerStaysAway DEF Welcome, Enters, Live
    <2>3. Leaving(I, v) => Leaving(I, v)'
      BY <1>11 DEF Leaving
    <2>4. Welcome(v) \/ Leaving(I, v)
      BY <1>3, <1>9, <2>1 DEF Bound
    <2>5. Leaving(I, v)' => Leaving(Items(job[w]), v)'
      BY <1>10 DEF Leaving
    <2> QED BY <2>2, <2>3, <2>4, <2>5
  <1>16. ShapeOK' /\ RefsStand'
    BY <1>1, <1>3 DEF Bound, ShapeOK, RefsStand, Standing
  <1>17. Bound(w)'
    BY <1>14, <1>15, <1>16 DEF Bound
  <1> QED BY <1>8, <1>17, BoundIsSerial

LEMMA EraseOneSerial ==
  ASSUME Inv, Serial, Grows, NEW w \in Workers, EraseOne(w)
  PROVE  Serial'
  <1> DEFINE p == This(w)
             s == job[w]
  <1> SUFFICES ASSUME Calm' PROVE Serial'
    BY DEF Serial
  <1>1. PICK item \in p.items, ok \in (IF hist.faults > 0 THEN BOOLEAN ELSE {TRUE}) :
          LET rest  == p.items \ {item}
              broke == p.broke \/ (~ok /\ item.what \notin BestEffort)
          IN /\ db' = IF ok THEN Without(item) ELSE db
             /\ hist' = [Noting(hist, IF ok THEN {} ELSE IF item.what \in BestEffort THEN {"swallowed"} ELSE {"failed"})
                           EXCEPT !.faults = IF ok THEN @ ELSE @ - 1]
             /\ IF rest # {} THEN Proceed(w, <<[Erase(rest) EXCEPT !.broke = broke]>>)
                ELSE IF broke THEN job' = [job EXCEPT ![w] = <<>>] ELSE Proceed(w, <<>>)
    BY Zenon DEF EraseOne
  <1>2. ok = TRUE
    <2> SUFFICES ASSUME ok # TRUE PROVE FALSE
      OBVIOUS
    <2>1. ok = FALSE
      BY <1>1
    <2>2. PICK f : hist' = [Noting(hist, IF item.what \in BestEffort THEN {"swallowed"} ELSE {"failed"}) EXCEPT !.faults = f]
      BY <1>1, <2>1, Zenon
    <2> QED BY <2>2 DEF Noting, Inv, Base, HistOK, HistFields, Calm, Barring
  <1>3. Doing(w, "erase")
    BY Zenon DEF EraseOne
  <1>4. s # <<>> /\ p.do = "erase" /\ IsSeq(s) /\ p = Head(s)
    BY <1>3, JobsAreSeqs DEF Doing, Idle, Inv, Base, This
  <1>5. Only(w) /\ Bound(w)
    BY <1>4, CalmBefore, CalmAlone, SerialBinds
  <1>6. Head(s) = s[1] /\ Head(s) \in Work(s) /\ IsSeq(Tail(s))
    BY <1>4, WorkOfRest
  <1>7. Erases(s)
    <2>1. ~Tame(s) /\ ~Clears(s)
      BY <1>4, <1>6 DEF Tame, OddWork, Clears
    <2> QED BY <1>5, <2>1 DEF Bound
  <1>8. /\ Items(s) = p.items \cup Items(Tail(s))
        /\ Tail(s) # <<>> => InTurn(Tail(s))
        /\ ~p.broke /\ \A i \in p.items : i.what \in Ends <=> Tail(s) = <<>>
    <2> HIDE DEF p, s
    <2>1. InTurn(s)
      BY <1>7 DEF Erases
    <2>2. /\ Items(s) = Items(<<p>>) \cup Items(Tail(s))
          /\ Tail(s) # <<>> => InTurn(Tail(s))
          /\ ~p.broke /\ \A i \in p.items : i.what \in Ends <=> Tail(s) = <<>>
      BY <1>4, <2>1, TurnGoes
    <2>3. Items(<<p>>) = p.items
      BY <1>4, ItemsIs
    <2> QED BY <2>2, <2>3
  <1>9. db' = Without(item)
    BY <1>1, <1>2, Zenon
  <1>10. PICK rest : /\ rest = p.items \ {item}
                     /\ \/ rest # {} /\ Proceed(w, <<Erase(rest)>>)
                        \/ rest = {} /\ Proceed(w, <<>>)
    <2> DEFINE left == p.items \ {item}
    <2>1. \/ left # {} /\ Proceed(w, <<[Erase(left) EXCEPT !.broke = p.broke \/ (~ok /\ item.what \notin BestEffort)]>>)
          \/ left = {} /\ (~(p.broke \/ (~ok /\ item.what \notin BestEffort)) => Proceed(w, <<>>))
      BY <1>1, Zenon
    <2>2. (p.broke \/ (~ok /\ item.what \notin BestEffort)) = FALSE
      BY <1>2, <1>8, Zenon
    <2>3. [Erase(left) EXCEPT !.broke = FALSE] = Erase(left)
      BY EraseAgain
    <2> QED BY <2>1, <2>2, <2>3, Zenon
  <1> HIDE DEF p, s
  <1>11. PICK more : /\ IsSeq(more) /\ Proceed(w, more) /\ Items(more) = rest
                     /\ more = <<>> \/ more = <<Erase(rest)>>
    <2>1. CASE rest # {} /\ Proceed(w, <<Erase(rest)>>)
      <3>1. IsSeq(<<Erase(rest)>>) /\ Items(<<Erase(rest)>>) = rest
        <4> DEFINE e == Erase(rest)
        <4>1. e.do = "erase" /\ e.items = rest
          BY EraseIs
        <4> HIDE DEF e
        <4>2. Items(<<e>>) = rest /\ IsSeq(<<e>>)
          BY <4>1, ItemsIs, WorkOfOne
        <4> QED BY <4>2 DEF e
      <3> QED BY <2>1, <3>1
    <2>2. CASE rest = {} /\ Proceed(w, <<>>)
      BY <2>2, ItemsIs, WorkOfNone
    <2> QED BY <1>10, <2>1, <2>2
  <1> DEFINE steps == more \o Tail(s)
  <1>12. job' = [job EXCEPT ![w] = steps]
    BY <1>11 DEF Proceed, s
  <1>13. Items(steps) = rest \cup Items(Tail(s)) /\ IsSeq(steps)
    BY <1>6, <1>11, ItemsIs, WorkJoined
  <1>14. steps = <<>> \/ InTurn(steps)
    <2>1. CASE more = <<>>
      BY <1>6, <1>8, <2>1, WorkOfNone, WorkJoined
    <2>2. CASE more = <<Erase(rest)>>
      <3> DEFINE e == Erase(rest)
      <3>1. e.do = "erase" /\ ~e.broke /\ e.items = rest
        BY EraseIs
      <3> HIDE DEF e
      <3>2. CASE Tail(s) = <<>>
        <4>1. steps = <<e>>
          BY <1>11, <2>2, <3>2, ConcatEmptySeq DEF IsSeq, e
        <4>2. \A i \in e.items : i.what \in Ends
          BY <1>8, <1>10, <3>1, <3>2
        <4> QED BY <3>1, <4>1, <4>2, TurnOfOne
      <3>3. CASE Tail(s) # <<>>
        <4>1. Sooner(more)
          <5>1. more = <<e>> /\ Work(more) = {e}
            BY <2>2, WorkOfOne DEF e
          <5>2. \A i \in e.items : i.what \notin Ends
            BY <1>8, <1>10, <3>1, <3>3
          <5> QED BY <3>1, <5>1, <5>2 DEF Sooner
        <4> QED BY <1>6, <1>8, <1>11, <3>3, <4>1, TurnJoined
      <3> QED BY <3>2, <3>3
    <2> QED BY <1>11, <2>1, <2>2
  <1> HIDE DEF steps
  <1>15. Only(w)' /\ job'[w] = steps
    BY <1>5, <1>12, WentAlone DEF Inv, Base
  <1>16. PICK I : I = Items(s)
    OBVIOUS
  <1>17. PICK J : J = Items(steps)
    OBVIOUS
  <1>18. PICK x, t : x = item.what /\ t = item.of
    OBVIOUS
  <1>19. Careful(I) /\ item \in I /\ item = Item(x, t) /\ x \in Cascade \cup Ends \cup {"seats"}
    BY <1>7, <1>8, <1>16, <1>18 DEF Erases, Careful
  <1>20. Final(I, x)
    <2> SUFFICES ASSUME x \in Ends, NEW i \in I PROVE i.what \in Ends
      BY DEF Final
    <2>1. Tail(s) = <<>>
      BY <1>8, <1>18
    <2> QED BY <1>8, <1>16, <2>1, ItemsIs
  <1>21. Rest(I, J, x, t)
    BY <1>8, <1>10, <1>13, <1>16, <1>17, <1>19 DEF Rest
  <1>22. Removed(x, t)
    BY <1>5, <1>9, <1>19, WithoutRemoves DEF Bound, Inv, Base
  <1>23. Careful(J)' /\ RefsStand' /\ ShapeOK'
    BY <1>5, <1>19, <1>20, <1>21, <1>22, CarefulStays, RefsStay DEF Bound, Removed
  <1>24. J = Items(job'[w])
    BY <1>15, <1>17
  <1>25. Careful(Items(job[w]))'
    BY <1>23, <1>24 DEF Careful
  <1>26. Tame(job[w])' \/ Erases(job[w])'
    BY <1>14, <1>15, <1>25, ItemsIs DEF Erases
  <1>27. ASSUME NEW v \in Users PROVE (Welcome(v) \/ Leaving(Items(job[w]), v))'
    <2>1. ~Clearing(job[w], v)
      BY <1>4, <1>6 DEF Clearing, Clears, s
    <2>2. Welcome(v) \/ Leaving(I, v)
      BY <1>5, <1>16, <2>1 DEF Bound, s
    <2>3. Welcome(v)' \/ Leaving(J, v)'
      BY <1>19, <1>20, <1>21, <1>22, <2>2, EveryoneStays
    <2>4. Leaving(J, v)' => Leaving(Items(job[w]), v)'
      BY <1>24 DEF Leaving
    <2> QED BY <2>3, <2>4
  <1>28. Bound(w)'
    BY <1>23, <1>26, <1>27 DEF Bound
  <1> QED BY <1>15, <1>28, BoundIsSerial

(* Every step, then, leaves deletions that end with nothing left behind.   *)
LEMMA SerialAtFirst == Init => Serial
  <1> SUFFICES ASSUME Init PROVE Serial
    OBVIOUS
  <1>1. PICK c \in Casts : db = c.db /\ job = [w \in Workers |-> <<>>]
    BY Zenon DEF Init, DocumentsInit
  <1>2. ShapeOK
    BY <1>1, CastsOK, Zenon DEF ShapeOK
  <1>3. RefsStand
    <2>1. \A x \in Clouds : Standing(db.cloud[x].of)
      BY <1>1, CastsOK, Zenon DEF Standing
    <2>2. \A k \in Creds : Standing(db.cred[k])
      BY <1>1, CastsOK, Zenon DEF Standing
    <2>3. \A m \in db.member : Standing(m.of)
      BY <1>1, CastsOK, Zenon DEF Standing
    <2>4. \A i \in Invites : Standing(db.invite[i].of)
      <3>1. \A i \in Invites : c.db.invite[i].of \in Spaces => c.db.space[c.db.invite[i].of].type # "gone"
        BY <1>1, CastsOK, Zenon
      <3> QED BY <1>1, <3>1, Zenon DEF Standing
    <2>5. \A k \in db.keys : Standing(k.of)
      <3>1. \A k \in c.db.keys : k.of \in Spaces => c.db.space[k.of].type # "gone"
        BY <1>1, CastsOK, Zenon
      <3> QED BY <1>1, <3>1, Zenon DEF Standing
    <2> QED BY <2>1, <2>2, <2>3, <2>4, <2>5, Zenon DEF RefsStand
  <1>4. \A u \in Users : Welcome(u)
    <2> SUFFICES ASSUME NEW u \in Users, db.active[u] # None PROVE Enters(u, db.active[u])
      BY DEF Welcome
    <2>1. /\ db.active[u] \in Spaces /\ db.space[db.active[u]].type \in Kinds
          /\ \/ db.space[db.active[u]].owner = u
             \/ \E m \in db.member : m.of = db.active[u] /\ m.user = u
      <3>1. \A v \in Users : c.db.active[v] # None =>
              /\ c.db.active[v] \in Spaces /\ c.db.space[c.db.active[v]].type \in Kinds
              /\ \/ c.db.space[c.db.active[v]].owner = v
                 \/ \E m \in c.db.member : m.of = c.db.active[v] /\ m.user = v
        BY CastsOK, Zenon
      <3> QED BY <1>1, <3>1, Zenon
    <2> QED BY <2>1, Zenon DEF Enters, Live
  <1>5. \A w \in Workers : Tame(job[w])
    BY <1>1, ItemsIs
  <1> QED BY <1>2, <1>3, <1>4, <1>5 DEF Serial

LEMMA DeletingKeepsSerial ==
  ASSUME Inv, Serial, Grows, NEW w \in Workers, Deletes(w)
  PROVE  Serial'
  <1>1. CASE EraseOne(w)
    BY <1>1, EraseOneSerial
  <1>2. CASE CancelAll(w)
    BY <1>2, CancelAllSerial
  <1>3. ASSUME NEW u \in Users, DeleteOrg(w, u) PROVE Serial'
    BY <1>3, DeleteOrgSerial
  <1>4. ASSUME NEW u \in Users, DeleteMe(w, u) PROVE Serial'
    BY <1>4, DeleteMeSerial
  <1> QED BY <1>1, <1>2, <1>3, <1>4, Zenon DEF Deletes

LEMMA SerialStays ==
  ASSUME Inv, Serial, [Next]_vars
  PROVE  Serial'
  <1>0. Inv' /\ Base
    BY InvStays DEF Inv
  <1>1. CASE BillingNext \/ ConsoleNext
    <2>1. Soft
      BY <1>0, <1>1, BillingIsPlain, ConsoleIsPlain, MildIsSoft DEF MildStep
    <2> QED BY <1>0, <2>1, SoftKeepsSerial
  <1>2. CASE BudgetsNext
    BY <1>0, <1>2, BudgetsGoSoftly, SoftKeepsSerial
  <1>3. CASE CloudAccountsNext
    <2>1. CASE Gentle
      <3>1. Soft
        BY <1>0, <1>3, <2>1, CloudAccountsArePlain, MildIsSoft
      <3> QED BY <1>0, <3>1, SoftKeepsSerial
    <2>2. CASE \E w \in Workers : Deletes(w)
      BY <1>0, <1>3, <2>2, CloudAccountsIsDiscreet, DiscreetGrows, DeletingKeepsSerial
    <2> QED BY <1>0, <1>3, <2>1, <2>2, CloudAccountsArePlain
  <1>4. CASE TeamNext
    <2>1. Grows
      BY <1>0, <1>4, TeamIsDiscreet, DiscreetGrows
    <2>2. CASE Soft
      BY <1>0, <2>2, SoftKeepsSerial
    <2>3. ASSUME NEW w \in Workers, ClearProfile(w) PROVE Serial'
      BY <2>1, <2>3, ClearProfileSerial
    <2>4. ASSUME NEW w \in Workers, NEW u \in Users, NEW m \in db.member, RemoveMember(w, u, m) PROVE Serial'
      BY <2>1, <2>4, RemoveMemberSerial
    <2> QED BY <1>0, <1>4, <2>2, <2>3, <2>4, TeamGoesSoftly
  <1>5. CASE \E w \in Workers : Fails(w)
    <2>1. PICK f : hist' = [Noting(hist, {"failed"}) EXCEPT !.faults = f]
      BY <1>5, Zenon DEF Fails
    <2>2. ~Calm'
      BY <1>0, <2>1 DEF Noting, Base, HistOK, HistFields, Calm, Barring
    <2> QED BY <2>2 DEF Serial
  <1>6. CASE UNCHANGED vars
    <2>1. Soft
      <3>1. UNCHANGED <<db, job, hist>>
        BY <1>6 DEF vars
      <3>2. Unmoved /\ MildJobs /\ Grows
        BY <3>1 DEF Unmoved, MildJobs, Grows, ShapeOK
      <3> QED BY <3>2, SoftlyAside
    <2> QED BY <1>0, <2>1, SoftKeepsSerial
  <1> QED BY <1>1, <1>2, <1>3, <1>4, <1>5, <1>6, Zenon DEF Next

LEMMA SerialHolds == Spec => []Serial
  BY SerialAtFirst, SerialStays, InvHolds, PTL DEF Spec

LEMMA EntersBy ==
  ASSUME NEW u, NEW s, Enters(u, s)
  PROVE  RoleIn(u, s) # {}
  <1>1. CASE db.space[s].owner = u
    BY <1>1 DEF Enters, RoleIn
  <1>2. CASE db.space[s].owner # u
    <2>1. PICK m \in db.member : m.of = s /\ m.user = u
      BY <1>2 DEF Enters
    <2>2. m \in {x \in SeatsOf(s) : x.user = u}
      BY <2>1 DEF SeatsOf
    <2>3. m.role \in RoleIn(u, s)
      BY <1>2, <2>2 DEF Enters, RoleIn
    <2> QED BY <2>3
  <1> QED BY <1>1, <1>2

(* Between requests nothing belongs to a deleted workspace, for any users, *)
(* workspaces, cloud accounts, credentials and invitations, unless a step  *)
(* failed, requests overlapped or one answered on what it had read before  *)
(* (DELETE /orgs/:orgId, DELETE /accounts/me and what they cascade to).    *)
THEOREM NothingStays == Spec => []NothingLeftBehind
  <1>1. Serial => NothingLeftBehind
    <2> SUFFICES ASSUME Serial, AllIdle, Calm, NEW s \in Spaces, db.space[s].type = "gone"
                 PROVE  /\ CloudsOf(s) = {} /\ SeatsOf(s) = {} /\ Invited(s) = {}
                        /\ \A k \in Creds : db.cred[k] # s
                        /\ \A key \in db.keys : key.of # s
      BY Zenon DEF NothingLeftBehind, Calm
    <2>1. RefsStand
      BY AllWelcome
    <2> QED BY <2>1 DEF RefsStand, Standing, CloudsOf, SeatsOf, Invited
  <1> QED BY <1>1, SerialHolds, PTL

(* The workspace a user is taken to next is one where the user still has a *)
(* role, for any users, workspaces, members and workers, under the same    *)
(* conditions: losing a seat, or the workspace, clears it (DELETE          *)
(* /team/members/:userId, DELETE /orgs/:orgId, resolveOrg).  Only who was  *)
(* in the workspace of an owner who left is sent nowhere.                  *)
THEOREM ActiveIsMine == Spec => []ActiveOrgIsMine
  <1>1. Serial => ActiveOrgIsMine
    <2> SUFFICES ASSUME Serial, AllIdle, Calm, NEW u \in Users, db.active[u] # None
                 PROVE  \/ RoleIn(u, db.active[u]) # {}
                        \/ db.space[db.active[u]].type = "gone" /\ OwnerLeft
      BY Zenon DEF ActiveOrgIsMine, Calm, OwnerLeft
    <2>1. Welcome(u)
      BY AllWelcome
    <2> QED BY <2>1, EntersBy DEF Welcome
  <1> QED BY <1>1, SerialHolds, PTL
===============================================================================
