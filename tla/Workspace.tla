------------------------------- MODULE Workspace -------------------------------
(***************************************************************************)
(* The API's workspaces as a whole: billing, cloud accounts, teams and     *)
(* budgets over the same documents, with a console open on them.  What may *)
(* happen together in one behaviour is its cast.                           *)
(***************************************************************************)
EXTENDS Billing, CloudAccounts, Team, Budgets, Console

(* A behaviour starts between requests, in a world that requests could     *)
(* have made: documents have the fields of their schemas, who sits by an   *)
(* invitation had it accepted, nothing belongs to a workspace that was     *)
(* deleted, users were last in a workspace they may enter, and the page of *)
(* an open console is blank.                                               *)
ASSUME CastsOK == \A c \in Casts :
    /\ DOMAIN c.db = DOMAIN EmptyDb /\ DOMAIN c.stripe = DOMAIN EmptyStripe
    /\ DOMAIN c.db.invite = Invites /\ \A i \in Invites : DOMAIN c.db.invite[i] = DOMAIN NoInvite
    /\ \A m \in c.db.member :
          /\ DOMAIN m = {"user", "of", "role", "email", "from"}
          /\ m.from # None => m.from \in Invites /\ c.db.invite[m.from].status = "accepted"
                              /\ \A x \in c.db.member : x.from = m.from => x = m
    /\ DOMAIN c.db.space = Spaces /\ \A s \in Spaces : DOMAIN c.db.space[s] = DOMAIN NoSpace
    /\ DOMAIN c.db.cloud = Clouds /\ \A x \in Clouds : DOMAIN c.db.cloud[x] = DOMAIN NoCloud
    /\ DOMAIN c.db.cred = Creds /\ DOMAIN c.db.active = Users
    /\ LET Lasts(s) == s \in Spaces => c.db.space[s].type # "gone" IN
          /\ \A x \in Clouds : Lasts(c.db.cloud[x].of)
          /\ \A k \in Creds : Lasts(c.db.cred[k])
          /\ \A m \in c.db.member : Lasts(m.of)
          /\ \A i \in Invites : Lasts(c.db.invite[i].of)
          /\ \A k \in c.db.keys : Lasts(k.of)
    /\ \A u \in Users : LET s == c.db.active[u] IN s # None =>
          /\ s \in Spaces /\ c.db.space[s].type \in Kinds
          /\ c.db.space[s].owner = u \/ \E m \in c.db.member : m.of = s /\ m.user = u
    /\ c.db.budget \in [of : Spaces \cup {None}, on : BOOLEAN, at : SUBSET Thresholds,
                        told : SUBSET Thresholds, started : Nat]
    /\ c.db.period \in Nat
    /\ \A e \in c.stripe.mail : e.kind \in {"completed", "updated", "deleted"}
    /\ c.tab = NoTab \/ \E u \in Users, s \in Spaces : c.tab = ConsoleOf(u, s)

(* ... and billed as Stripe and the handlers would have it: nothing that is *)
(* sold is the free plan, and a free workspace has active no more than its *)
(* plan lets it keep.                                                      *)
ASSUME PlansOK == \A c \in Casts :
    /\ DOMAIN c.stripe.sub = Subs /\ \A k \in Subs : DOMAIN c.stripe.sub[k] = {"plan", "state", "of"}
    /\ LET Sold == {k \in Subs : c.stripe.sub[k].plan # "free"} IN
          /\ \A k \in Subs : c.stripe.sub[k].state \in {"active", "past_due"} => k \in Sold
          /\ \A o \in c.stripe.open : o.plan # "free"
          /\ \A e \in c.stripe.mail : e.kind # "deleted" => e.plan # "free" /\ e.sub \in Sold
    /\ \A x \in Clouds : LET s == c.db.cloud[x].of IN s \in Spaces => c.db.space[s].type # "unborn"
    /\ \A s \in Spaces : LET all    == {x \in Clouds : c.db.cloud[x].of = s}
                             active == {x \in all : c.db.cloud[x].active} IN
          \/ active = Oldest(all, CloudLimit["free"])
          \/ active = all /\ ~(c.db.space[s].type \in Kinds /\ c.db.space[s].tier = "free")

(* ... with a credential for each cloud account of a workspace, its own and *)
(* of that workspace, and a cloud account for each credential of one.      *)
ASSUME CredsOK == \A c \in Casts :
    /\ \A x \in Clouds : LET s == c.db.cloud[x].of
                              k == c.db.cloud[x].cred IN
          /\ s \in Spaces => k \in Creds /\ c.db.cred[k] = s
          /\ k \in Creds => c.db.cred[k] # None /\ \A y \in Clouds : c.db.cloud[y].cred = k => y = x
    /\ \A k \in Creds : LET s == c.db.cred[k] IN s \in Spaces =>
          /\ c.db.space[s].type # "unborn"
          /\ \E x \in Clouds : c.db.cloud[x].cred = k /\ c.db.cloud[x].of = s

Init == DocumentsInit
Next ==
    \/ BillingNext
    \/ CloudAccountsNext
    \/ TeamNext
    \/ BudgetsNext
    \/ ConsoleNext
    \/ \E w \in Workers : Fails(w)
Spec == Init /\ [][Next]_vars
-------------------------------------------------------------------------------
Barring(lapses) == hist.lapses \cap lapses = {}
Settling == {"failed", "stale", "disorder", "twice", "unmarked"}
QuietNow == AllIdle /\ stripe.mail = {}

(* Billing.  Once every event has been handled, a self-serve plan is held  *)
(* only by a personal workspace whose own subscription lives, and then it  *)
(* is the plan subscribed to, or by an organisation "while the owner has a *)
(* live sub whose tier covers it": what the webhook, the self-heal of GET  *)
(* /billing/status and the downgrade of owned organisations are for.  Two  *)
(* things the code leaves to the next time an organisation's own status is *)
(* asked: a plan its owner has since made smaller, and the end of a        *)
(* converted workspace that paid, or of the subscription's id it had.      *)
TierFollowsSubscription ==
    LET Plan(p) == stripe.sub[db.space[p].sub].plan
        PaidBy(p, s) == Backs(db.space[p].sub) /\ TierRank[Plan(p)] >= TierRank[db.space[s].tier]
        Owner(s) == db.space[s].owner
        Shrunk(s) == s \in hist.outgrown /\ \E p \in Owned(Owner(s)) : Backs(db.space[p].sub)
        Orphaned(s) == \E p \in Spaces : LET doc == db.space[p] IN
            /\ doc.owner = Owner(s) /\ doc.cust
            /\ doc.type = "gone" \/ (doc.type = "organization" /\ doc.sub = None)
    IN (QuietNow /\ Barring(Settling)) =>
       \A s \in Spaces : (Live(s) /\ db.space[s].tier \in SelfServe) =>
          IF db.space[s].type = "personal"
          THEN /\ Backs(db.space[s].sub)
               /\ stripe.sub[db.space[s].sub].state = "active" => db.space[s].tier = Plan(s)
          ELSE (\E p \in Owned(Owner(s)) : PaidBy(p, s)) \/ Shrunk(s) \/ Orphaned(s)

(* A downgrade to free pauses all but the oldest cloud accounts the free   *)
(* plan allows, and only those (reconcileTierDowngrade).                   *)
DowngradeKeepsOldest ==
    (QuietNow /\ Barring(Settling \cup {"overlap"})) =>
       \A s \in Spaces \ hist.touched :
          (Live(s) /\ db.space[s].tier = "free") =>
             ActiveOf(s) = Oldest(CloudsOf(s), CloudLimit["free"])

(* Between requests each cloud account of a workspace has its credential,  *)
(* and no credential is kept that no cloud account of its workspace uses.  *)
CredentialsMatch ==
    (AllIdle /\ Barring({"failed", "stale", "swallowed"})) =>
       /\ \A c \in Clouds : Live(db.cloud[c].of) => db.cred[db.cloud[c].cred] = db.cloud[c].of
       /\ \A k \in Creds : Live(db.cred[k]) =>
             \E c \in Clouds : db.cloud[c].cred = k /\ db.cloud[c].of = db.cred[k]

(* A deleted workspace leaves no cloud account, credential, key, seat or   *)
(* invitation behind (DELETE /orgs/:orgId, DELETE /accounts/me).           *)
NothingLeftBehind ==
    (AllIdle /\ Barring({"failed", "stale", "swallowed", "overlap"})) =>
       \A s \in Spaces : db.space[s].type = "gone" =>
          /\ CloudsOf(s) = {} /\ SeatsOf(s) = {} /\ Invited(s) = {}
          /\ \A k \in Creds : db.cred[k] # s
          /\ \A key \in db.keys : key.of # s

(* One accepted invitation seats one person, and only one that was still   *)
(* open: an answer races a revocation and another answer.                  *)
SeatsAreInvited ==
    (AllIdle /\ Barring({"failed", "stale"})) =>
       \A m \in db.member : m.from # None =>
          /\ db.invite[m.from].status = "accepted"
          /\ ~\E x \in db.member \ {m} : x.from = m.from

(* The workspace a user is taken to is one the user may enter: losing a    *)
(* seat, or the workspace itself, clears it.  An owner who leaves takes    *)
(* the workspaces along and clears nobody else's.                          *)
ActiveOrgIsMine ==
    (AllIdle /\ Barring({"failed", "stale", "swallowed", "overlap"})) =>
       \A u \in Users : db.active[u] # None =>
          \/ RoleIn(u, db.active[u]) # {}
          \/ db.space[db.active[u]].type = "gone" /\ "owner left" \in hist.lapses

(* A budget's threshold alerts at most once a period (UserBudget's         *)
(* alertedThresholds), as long as checks do not overlap and none fails     *)
(* between the alert and the mark.                                         *)
BudgetAlertsOnce ==
    Barring({"failed", "overlap"}) => \A t \in Thresholds : hist.sent[t] <= 1

(* What is clicked in a tab with no call under way changes the workspace   *)
(* the page shows, whichever workspace other tabs have moved to: as long   *)
(* as the page could load and no load outlived its workspace.              *)
ClicksStayHome ==
    Barring({"hasty", "unplaced", "outrun", "failed"}) => "crossed" \notin hist.lapses

(* alerts/index.ts:47: "Never return raw secrets - callers must re-submit  *)
(* secrets on PUT".  What is stored stays a secret an alert can use.       *)
SecretsStayWhole ==
    \A s \in Spaces : \A c \in db.space[s].channels : c.secret = "whole"
===============================================================================
