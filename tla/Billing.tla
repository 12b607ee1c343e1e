------------------------------- MODULE Billing -------------------------------
(***************************************************************************)
(* routes/billing with routes/orgs' creation: checkouts, Stripe's events,  *)
(* the self-heal of GET /billing/status and what a downgrade pauses.       *)
(* External: Stripe, which keeps subscriptions and delivers events until   *)
(* one delivery is acknowledged, in any order, sometimes twice.  The       *)
(* check interval, the status and the period that are only shown are left  *)
(* out, and with them invoice.payment_failed, which sets nothing else.     *)
(***************************************************************************)
EXTENDS Documents

(* What Stripe says of a subscription, and what the code does then. *)
ClassifySubscriptionStatus == [active |-> "apply", past_due |-> "grace", dead |-> "downgrade"]
Backs(k) == k # None /\ ClassifySubscriptionStatus[stripe.sub[k].state] # "downgrade"

Event(kind, k, of, sub) ==
    [id |-> stripe.sent + 1, kind |-> kind, sub |-> k, plan |-> sub.plan, state |-> sub.state, of |-> of]
(* Stripe changes a subscription and owes the API an event about it. *)
Tells(kind, k, sub, open) ==
    stripe' = [stripe EXCEPT !.sub[k] = sub, !.open = open, !.sent = @ + 1,
                             !.mail = @ \cup {Event(kind, k, sub.of, sub)}]

(****************************** checkout ***********************************)
Checkout(u, plan) ==
    May("checkout") /\ \E s \in Reach(u, "billing_manage") :
      /\ Live(s) /\ AtOnce
      /\ db' = [db EXCEPT !.space[s].cust = TRUE]
      /\ stripe' = [stripe EXCEPT !.open = @ \cup {[of |-> s, plan |-> plan]}]
      /\ UNCHANGED <<tab, cast>>

(* External: the customer pays, on Stripe's page. *)
Pay(c) ==
    LET fresh == {k \in Subs : stripe.sub[k].state = "none"} IN
    /\ fresh # {}
    /\ Tells("completed", Least(fresh), [plan |-> c.plan, state |-> "active", of |-> c.of],
             stripe.open \ {c})
    /\ UNCHANGED <<db, job, tab, cast, hist>>

(* The customer changes the plan or cancels on the portal's page. *)
Portal(u, k, change) ==
    May("portal") /\ \E s \in Reach(u, "billing_manage") :
      /\ Live(s) /\ db.space[s].cust
      /\ stripe.sub[k].of = s /\ stripe.sub[k].state = "active" /\ change # stripe.sub[k].plan
      /\ IF change = "cancel"
         THEN Tells("deleted", k, [stripe.sub[k] EXCEPT !.state = "dead"], stripe.open)
         ELSE Tells("updated", k, [stripe.sub[k] EXCEPT !.plan = change], stripe.open)
      /\ AtOnce /\ UNCHANGED <<db, tab, cast>>

(* External: a payment fails, and in the end Stripe gives up. *)
Dunning(k) ==
    /\ May("dunning") /\ stripe.sub[k].state \in {"active", "past_due"}
    /\ Tells("updated", k,
             [stripe.sub[k] EXCEPT !.state = IF @ = "active" THEN "past_due" ELSE "dead"], stripe.open)
    /\ hist' = Spend /\ UNCHANGED <<db, job, tab, cast>>

(****************************** webhook ************************************)
InHand(e) == \E w \in Workers : ~Idle(w) /\ job[w][Len(job[w])] = [do |-> "mark", ev |-> e]
Early(e)  == \E f \in stripe.mail : f.sub = e.sub /\ f.id < e.id /\ f.id \notin stripe.done
Handling(e) == <<[do |-> e.kind, ev |-> e], [do |-> "mark", ev |-> e]>>

Deliver(w, e) ==
    /\ Idle(w) /\ e \in stripe.mail
    /\ IF e.id \in stripe.done
       THEN stripe' = [stripe EXCEPT !.mail = @ \ {e}] /\ UNCHANGED <<job, hist>>
       ELSE /\ job' = [job EXCEPT ![w] = Handling(e)]
            /\ With(Crowded \cup (IF InHand(e) THEN {"twice"} ELSE {})
                            \cup (IF Early(e) THEN {"disorder"} ELSE {}))
            /\ UNCHANGED stripe
    /\ UNCHANGED <<db, tab, cast>>

(* checkout.session.completed: the plan is the one Stripe now gives, or    *)
(* the session's when Stripe cannot be asked.                              *)
Completed(w) ==
    /\ Doing(w, "completed")
    /\ \E tier \in {stripe.sub[This(w).ev.sub].plan, This(w).ev.plan} :
         Proceed(w, <<[do |-> "upgrade", ev |-> This(w).ev, tier |-> tier]>>)
    /\ Clean /\ UNCHANGED <<db, stripe, tab, cast>>

(* History: the organisations whose plan is bigger than the one a workspace *)
(* of their owner's now gets, which these handlers leave as they are.      *)
Outgrown(h, s, tier) ==
    IF ~Live(s) \/ tier \notin SelfServe THEN h
    ELSE [h EXCEPT !.outgrown = @ \cup {o \in Owned(db.space[s].owner) :
            db.space[o].type = "organization" /\ TierRank[tier] < TierRank[db.space[o].tier]}]
Upgrade(w) ==
    LET e == This(w).ev IN
    /\ Doing(w, "upgrade") /\ Proceed(w, <<>>) /\ hist' = Outgrown(hist, e.of, This(w).tier)
    /\ db' = IF ~Live(e.of) THEN db
             ELSE [db EXCEPT !.space[e.of].tier = This(w).tier, !.space[e.of].sub = e.sub,
                             !.space[e.of].cust = TRUE]
    /\ UNCHANGED <<stripe, tab, cast>>

SaveOf(s, tier, sub) == [do |-> "save", of |-> s, was |-> db.space[s], tier |-> tier, sub |-> sub]
Reconciling(s) == [do |-> "reconcile", of |-> s]
Subscriber(k) == {s \in Spaces : Live(s) /\ db.space[s].sub = k}

(* customer.subscription.updated *)
Updated(w) ==
    LET e      == This(w).ev
        action == ClassifySubscriptionStatus[e.state]
        Steps(s) ==
            LET tier == CASE action = "apply" -> e.plan [] action = "downgrade" -> "free"
                          [] OTHER -> db.space[s].tier
            IN <<SaveOf(s, tier, e.sub)>>
               \o (IF tier = "free" THEN <<Reconciling(s)>> ELSE <<>>)
               \o (IF action = "downgrade" THEN <<[do |-> "orgs", owner |-> db.space[s].owner]>> ELSE <<>>)
    IN /\ Doing(w, "updated")
       /\ Proceed(w, IF Subscriber(e.sub) = {} THEN <<>> ELSE Steps(Least(Subscriber(e.sub))))
       /\ Clean /\ UNCHANGED <<db, stripe, tab, cast>>

(* Mutant: organisations keep the tier of a subscription that ended. *)
DeletedAlone(w) ==
    LET e == This(w).ev
        Steps(s) == <<SaveOf(s, "free", None), Reconciling(s)>>
    IN /\ Doing(w, "deleted")
       /\ Proceed(w, IF Subscriber(e.sub) = {} THEN <<>> ELSE Steps(Least(Subscriber(e.sub))))
       /\ Clean /\ UNCHANGED <<db, stripe, tab, cast>>

(* customer.subscription.deleted *)
Deleted(w) ==
    LET e == This(w).ev
        Steps(s) == <<SaveOf(s, "free", None), Reconciling(s),
                      [do |-> "orgs", owner |-> db.space[s].owner]>>
    IN /\ Doing(w, "deleted")
       /\ Proceed(w, IF Subscriber(e.sub) = {} THEN <<>> ELSE Steps(Least(Subscriber(e.sub))))
       /\ Clean /\ UNCHANGED <<db, stripe, tab, cast>>

(* account.save() writes the fields that changed since it was loaded, and  *)
(* throws when the document has gone.                                      *)
Save(w) ==
    LET p == This(w) IN
    /\ Doing(w, "save")
    /\ IF ~Live(p.of) THEN Throws(w)
       ELSE /\ db' = [db EXCEPT !.space[p.of].tier = IF p.tier = p.was.tier THEN @ ELSE p.tier,
                                !.space[p.of].sub  = IF p.sub = p.was.sub THEN @ ELSE p.sub]
            /\ hist' = Outgrown(Noting(hist, Stale(p.was # db.space[p.of])), p.of, p.tier)
            /\ Proceed(w, <<>>) /\ UNCHANGED <<stripe, tab, cast>>

(* The oldest of some documents, as many as a limit allows. *)
Oldest(docs, limit) == {c \in docs : Cardinality({d \in docs : d < c}) < limit}

(* Mutant: the newest are kept, as if sorted the other way. *)
ReconcileKeepingNewest(w) ==
    LET s      == This(w).of
        excess == ActiveOf(s) \ {c \in ActiveOf(s) : Cardinality({d \in ActiveOf(s) : d > c}) < CloudLimit["free"]}
    IN /\ Doing(w, "reconcile")
       /\ Proceed(w, IF excess = {} THEN <<>> ELSE <<[do |-> "pause", clouds |-> excess]>>)
       /\ Clean /\ UNCHANGED <<db, stripe, tab, cast>>
ReconcileTierDowngrade(w) ==
    LET s      == This(w).of
        excess == ActiveOf(s) \ Oldest(ActiveOf(s), CloudLimit["free"])
    IN /\ Doing(w, "reconcile")
       /\ Proceed(w, IF excess = {} THEN <<>> ELSE <<[do |-> "pause", clouds |-> excess]>>)
       /\ Clean /\ UNCHANGED <<db, stripe, tab, cast>>
Pause(w) ==
    LET c    == Least(This(w).clouds)
        rest == This(w).clouds \ {c}
    IN /\ Doing(w, "pause")
       /\ IF ~IsCloud(c) THEN Throws(w)
          ELSE /\ db' = [db EXCEPT !.cloud[c].active = FALSE]
               /\ Proceed(w, IF rest = {} THEN <<>> ELSE <<[do |-> "pause", clouds |-> rest]>>)
               /\ Clean /\ UNCHANGED <<stripe, tab, cast>>

(* downgradeOwnedOrganizations: those with a self-serve tier, one by one,  *)
(* as they were loaded.                                                    *)
DowngradeOwnedOrganizations(w) ==
    LET o     == This(w).owner
        stale == {s \in Owned(o) : db.space[s].type = "organization" /\ db.space[s].tier \in SelfServe}
        Nth(k) == CHOOSE s \in stale : Cardinality({d \in stale : d <= s}) = k
        Steps  == [k \in 1 .. 2 * Cardinality(stale) |->
                     LET s == Nth((k + 1) \div 2)
                     IN IF k % 2 = 1 THEN SaveOf(s, "free", db.space[s].sub) ELSE Reconciling(s)]
    IN /\ Doing(w, "orgs") /\ Proceed(w, Steps)
       /\ Clean /\ UNCHANGED <<db, stripe, tab, cast>>

(* The ledger of events (best effort), then the answer, which may be lost. *)
Mark(w) ==
    LET e == This(w).ev IN
    /\ Doing(w, "mark") /\ Proceed(w, <<>>)
    /\ \E kept \in (IF "unmarked" \in hist.lapses \/ hist.faults = 0 THEN {TRUE} ELSE BOOLEAN),
          heard \in (IF hist.faults = 0 THEN {TRUE} ELSE BOOLEAN) :
         /\ stripe' = [stripe EXCEPT !.done = IF kept THEN @ \cup {e.id} ELSE @,
                                     !.mail = IF heard THEN @ \ {e} ELSE @]
         /\ hist' = [Noting(hist, IF kept THEN {} ELSE {"unmarked"})
                       EXCEPT !.faults = IF heard THEN @ ELSE @ - 1]
    /\ UNCHANGED <<db, tab, cast>>

(****************************** status *************************************)
(* GET /billing/status: the account is loaded, then Stripe is asked.       *)
StatusAsked(w, u) ==
    May("status") /\ \E s \in Reach(u, "billing_read") :
      /\ Live(s)
      /\ Begin(w, <<[do |-> "look", of |-> s, was |-> db.space[s]]>>)
      /\ UNCHANGED <<db, stripe, tab, cast>>

(* Mutant: any live subscription of the owner's covers an organisation. *)
TierIsBackedByAny(doc, reach) ==
    LET p == Personal(doc.owner)
        k == IF p = {} THEN None ELSE db.space[Least(p)].sub
    IN IF doc.type # "organization"
       THEN doc.sub # None /\ (~reach.own \/ Backs(doc.sub))
       ELSE k # None /\ (~reach.owner \/ Backs(k))

(* A personal workspace stands on its own subscription, an organisation on *)
(* that of its owner's personal one; reach: which retrievals get through.  *)
TierIsBacked(doc, reach) ==
    LET p == Personal(doc.owner)
        k == IF p = {} THEN None ELSE db.space[Least(p)].sub
    IN IF doc.type # "organization"
       THEN doc.sub # None /\ (~reach.own \/ Backs(doc.sub))
       ELSE k # None /\ (~reach.owner \/ (Backs(k) /\ TierRank[stripe.sub[k].plan] >= TierRank[doc.tier]))

(* History: an organisation that has been compared is no longer outgrown.  *)
Look(w) ==
    LET s == This(w).of
        doc == This(w).was
    IN /\ Doing(w, "look")
       /\ \E reach \in [own : BOOLEAN, owner : BOOLEAN] :
            LET got == doc.sub # None /\ reach.own IN
            /\ Proceed(w, IF doc.tier \notin SelfServe \/ TierIsBacked(doc, reach) THEN <<>>
                          ELSE <<[do |-> "save", of |-> s, was |-> doc, tier |-> "free",
                                  sub |-> IF got THEN doc.sub ELSE None], Reconciling(s)>>)
            /\ hist' = IF doc.type = "organization" /\ reach.owner
                       THEN [hist EXCEPT !.outgrown = @ \ {s}] ELSE hist
       /\ UNCHANGED <<db, stripe, tab, cast>>

(*************************** organisations *********************************)
(* POST /orgs: the new one inherits the tier the personal workspace had.   *)
CreateOrg(w, u) ==
    May("create org") /\ \E s \in Personal(u) :
      /\ db.space[s].tier \in {"team", "enterprise"} /\ Unborn # {}
      /\ Begin(w, <<[do |-> "insert", owner |-> u, from |-> s, tier |-> db.space[s].tier]>>)
      /\ UNCHANGED <<db, stripe, tab, cast>>
InsertOrg(w) ==
    LET p == This(w) IN
    /\ Doing(w, "insert") /\ Unborn # {}
    /\ db' = [db EXCEPT !.space[Least(Unborn)] =
                [NoSpace EXCEPT !.type = "organization", !.owner = p.owner, !.tier = p.tier]]
    /\ With(Stale(db.space[p.from].tier # p.tier \/ ~Live(p.from)))
    /\ Proceed(w, <<>>) /\ UNCHANGED <<stripe, tab, cast>>

(* POST /orgs/convert-personal *)
ConvertPersonal(u) ==
    May("convert") /\ \E s \in Personal(u) :
      /\ db.space[s].tier \in {"team", "enterprise"} /\ AtOnce
      /\ db' = [db EXCEPT !.space[s].type = "organization"]
      /\ UNCHANGED <<stripe, tab, cast>>

BillingNext ==
    \/ \E u \in Users :
         \/ \E plan \in SelfServe : Checkout(u, plan)
         \/ \E k \in Subs, change \in SelfServe \cup {"cancel"} : Portal(u, k, change)
         \/ \E w \in Workers : StatusAsked(w, u)
    \/ \E c \in stripe.open : Pay(c)
    \/ \E k \in Subs : Dunning(k)
    \/ \E u \in Users : ConvertPersonal(u)
    \/ \E w \in Workers :
         \/ \E e \in stripe.mail : Deliver(w, e)
         \/ Completed(w) \/ Upgrade(w) \/ Updated(w) \/ Deleted(w) \/ Save(w) \/ Mark(w)
         \/ ReconcileTierDowngrade(w) \/ Pause(w) \/ DowngradeOwnedOrganizations(w)
         \/ Look(w) \/ InsertOrg(w) \/ \E u \in Users : CreateOrg(w, u)
===============================================================================
