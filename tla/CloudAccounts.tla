---------------------------- MODULE CloudAccounts ----------------------------
(***************************************************************************)
(* routes/cloud-accounts, routes/auth's API keys, and the ends of a        *)
(* workspace and of a user: DELETE /orgs/:orgId and DELETE /accounts/me.   *)
(* A deletion in parallel (Promise.all) is a set of items done in any      *)
(* order; when one throws, the others are still done.  Activity logs, the  *)
(* Clerk user, rules, budgets and databases are not among the items: the   *)
(* first two are not modelled, the others are left behind by the code.     *)
(***************************************************************************)
EXTENDS Documents

(************************** cloud accounts *********************************)
WithinLimit(s) == Cardinality(CloudsOf(s)) < CloudLimit[db.space[s].tier]   \* enforceTierLimits

(* POST /cloud-accounts: the limit, then (external) valid credentials.     *)
Connect(w, u) ==
    May("connect") /\ \E s \in Reach(u, "cloud_accounts_write") :
      /\ Live(s) /\ WithinLimit(s)
      /\ Begin(w, <<[do |-> "store", of |-> s, cloud |-> None, was |-> None]>>)
      /\ UNCHANGED <<db, stripe, tab, cast>>

StoreCredential(w) ==
    LET p    == This(w)
        free == Unused(db.cred, None)
    IN /\ Doing(w, "store") /\ free # {}
       /\ db' = [db EXCEPT !.cred[Least(free)] = p.of]
       /\ Proceed(w, <<IF p.cloud = None
                       THEN [do |-> "create", of |-> p.of, cred |-> Least(free)]
                       ELSE [do |-> "rewire", cloud |-> p.cloud, cred |-> Least(free), was |-> p.was]>>)
       /\ With(Stale(~Live(p.of))) /\ UNCHANGED <<stripe, tab, cast>>
CreateCloud(w) ==
    LET p    == This(w)
        free == Unused(db.cloud, NoCloud)
    IN /\ Doing(w, "create") /\ free # {}
       /\ db' = [db EXCEPT !.cloud[Least(free)] = [of |-> p.of, active |-> TRUE, cred |-> p.cred]]
       /\ hist' = [Noting(hist, Stale(~Live(p.of))) EXCEPT !.touched = @ \cup {p.of}]
       /\ Proceed(w, <<>>) /\ UNCHANGED <<stripe, tab, cast>>

(* PUT /cloud-accounts/:id, of which only the status matters here. *)
SetStatus(u, c, active) ==
    May("set status") /\ \E s \in Reach(u, "cloud_accounts_write") :
      /\ db.cloud[c].of = s /\ db.cloud[c].active # active
      /\ db' = [db EXCEPT !.cloud[c].active = active]
      /\ hist' = [Noting(Spend, Crowded) EXCEPT !.touched = @ \cup {s}]
      /\ UNCHANGED <<job, stripe, tab, cast>>

Dropping(c) == [do |-> "drop_cred", cred |-> db.cloud[c].cred]
DropCredential(w) ==        \* deleteCredential: nothing, when it is already gone
    LET k == This(w).cred IN
    /\ Doing(w, "drop_cred") /\ Proceed(w, <<>>) /\ Clean
    /\ db' = [db EXCEPT !.cred[k] = IF @ = None THEN None ELSE Gone]
    /\ UNCHANGED <<stripe, tab, cast>>

(* DELETE /cloud-accounts/:id *)
Disconnect(w, u, c) ==
    May("disconnect") /\ \E s \in Reach(u, "cloud_accounts_delete") :
      /\ db.cloud[c].of = s
      /\ Begin(w, <<Dropping(c), [do |-> "drop_cloud", cloud |-> c, was |-> db.cloud[c].cred]>>)
      /\ UNCHANGED <<db, stripe, tab, cast>>
Buried(doc) == [doc EXCEPT !.of = Gone]
DropCloud(w) ==
    LET p == This(w) IN
    /\ Doing(w, "drop_cloud") /\ Proceed(w, <<>>)
    /\ IF IsCloud(p.cloud)
       THEN /\ db' = [db EXCEPT !.cloud[p.cloud] = Buried(@)]
            /\ hist' = [Noting(hist, Stale(db.cloud[p.cloud].cred # p.was))
                          EXCEPT !.touched = @ \cup {db.cloud[p.cloud].of}]
       ELSE UNCHANGED db /\ With({"stale"})
    /\ UNCHANGED <<stripe, tab, cast>>

(* PATCH /cloud-accounts/:id/credentials: the old one goes first.          *)
(* Mutant: it stays. *)
RotateKeeping(w, u, c) ==
    May("rotate") /\ \E s \in Reach(u, "cloud_accounts_write") :
      /\ db.cloud[c].of = s
      /\ Begin(w, <<[do |-> "store", of |-> s, cloud |-> c, was |-> db.cloud[c].cred]>>)
      /\ UNCHANGED <<db, stripe, tab, cast>>
Rotate(w, u, c) ==
    May("rotate") /\ \E s \in Reach(u, "cloud_accounts_write") :
      /\ db.cloud[c].of = s
      /\ Begin(w, <<Dropping(c), [do |-> "store", of |-> s, cloud |-> c, was |-> db.cloud[c].cred]>>)
      /\ UNCHANGED <<db, stripe, tab, cast>>
Rewire(w) ==
    LET p == This(w) IN
    /\ Doing(w, "rewire") /\ Proceed(w, <<>>)
    /\ db' = IF ~IsCloud(p.cloud) THEN db
             ELSE [db EXCEPT !.cloud[p.cloud].cred = p.cred, !.cloud[p.cloud].active = TRUE]
    /\ hist' = [Noting(hist, Stale(~IsCloud(p.cloud) \/ db.cloud[p.cloud].cred # p.was))
                  EXCEPT !.touched = @ \cup {db.cloud[p.cloud].of}]
    /\ UNCHANGED <<stripe, tab, cast>>

(***************************** API keys ************************************)
Key(n, s) == [n |-> n, of |-> s]
CreateKey(u) ==
    May("keys") /\ \E s \in Reach(u, "api_keys_manage") :
      /\ AtOnce
      /\ db' = [db EXCEPT !.keys = @ \cup {Key(db.keyed + 1, s)}, !.keyed = @ + 1]
      /\ UNCHANGED <<stripe, tab, cast>>
RevokeKey(u, k) ==
    /\ May("keys") /\ k.of \in Reach(u, "api_keys_manage") /\ AtOnce
    /\ db' = [db EXCEPT !.keys = @ \ {k}] /\ UNCHANGED <<stripe, tab, cast>>
(* POST /auth/api-keys/:id/roll: a new key, then the old one is revoked.   *)
RollKey(w, u, k) ==
    /\ May("keys") /\ k.of \in Reach(u, "api_keys_manage")
    /\ Begin(w, <<[do |-> "revoke", key |-> k]>>)
    /\ db' = [db EXCEPT !.keys = @ \cup {Key(db.keyed + 1, k.of)}, !.keyed = @ + 1]
    /\ UNCHANGED <<stripe, tab, cast>>
RevokeRolled(w) ==
    /\ Doing(w, "revoke") /\ Proceed(w, <<>>) /\ With(Stale(This(w).key \notin db.keys))
    /\ db' = [db EXCEPT !.keys = @ \ {This(w).key}] /\ UNCHANGED <<stripe, tab, cast>>

(****************************** deletions **********************************)
Of(items, s) == {[what |-> x, of |-> s] : x \in items}
Without(item) ==
    LET s == item.of IN
    CASE item.what = "clouds"  -> [db EXCEPT !.cloud = [c \in Clouds |-> IF @[c].of = s THEN Buried(@[c]) ELSE @[c]]]
      [] item.what = "creds"   -> [db EXCEPT !.cred = [k \in Creds |-> IF @[k] = s THEN Gone ELSE @[k]]]
      [] item.what = "keys"    -> [db EXCEPT !.keys = {k \in @ : k.of # s}]
      [] item.what = "members" -> [db EXCEPT !.member = {m \in @ : m.of # s}]
      [] item.what = "invites" -> [db EXCEPT !.invite = [i \in Invites |-> IF @[i].of = s THEN Buried(@[i]) ELSE @[i]]]
      [] item.what = "actives" -> [db EXCEPT !.active = [u \in Users |-> IF @[u] = s THEN None ELSE @[u]]]
      [] item.what = "space"   -> [db EXCEPT !.space[s].type = "gone"]
      [] item.what = "seats"   -> [db EXCEPT !.member = {m \in @ : m.user # s}]
      [] item.what = "profile" -> [db EXCEPT !.active[s] = None]
      [] OTHER                 -> [db EXCEPT !.space = [x \in Spaces |-> IF x \in Owned(s)
                                                          THEN [@[x] EXCEPT !.type = "gone"] ELSE @[x]]]

Erase(items) == [do |-> "erase", items |-> items, broke |-> FALSE]
BestEffort == {"creds", "keys"}           \* .catch(() => {})
EraseOne(w) ==
    LET p == This(w) IN
    /\ Doing(w, "erase")
    /\ \E item \in p.items, ok \in (IF hist.faults > 0 THEN BOOLEAN ELSE {TRUE}) :
         LET rest  == p.items \ {item}
             broke == p.broke \/ (~ok /\ item.what \notin BestEffort)
         IN /\ db' = IF ok THEN Without(item) ELSE db
            /\ hist' = [Noting(hist, IF ok THEN {} ELSE IF item.what \in BestEffort THEN {"swallowed"} ELSE {"failed"})
                          EXCEPT !.faults = IF ok THEN @ ELSE @ - 1]
            /\ IF rest # {} THEN Proceed(w, <<[Erase(rest) EXCEPT !.broke = broke]>>)
               ELSE IF broke THEN job' = [job EXCEPT ![w] = <<>>] ELSE Proceed(w, <<>>)
    /\ UNCHANGED <<stripe, tab, cast>>

(* DELETE /orgs/:orgId *)
Cascade == {"members", "invites", "clouds", "creds", "keys", "actives"}
DeleteOrg(w, u) ==
    May("delete org") /\ \E s \in Reach(u, "org_delete") :
      /\ Live(s) /\ db.space[s].type = "organization"
      /\ Begin(w, <<Erase(Of(Cascade, s)), Erase(Of({"space"}, s))>>)
      /\ UNCHANGED <<db, stripe, tab, cast>>

(* DELETE /accounts/me: of all the workspaces the user owned at first. *)
(* Mutant: the credentials of deleted workspaces are left behind. *)
OwnedCascadeForgetful == {"clouds", "members", "keys"}
OwnedCascade == {"clouds", "members", "creds", "keys"}
DeleteMe(w, u) ==
    LET mine == Owned(u)
        paid == {db.space[s].sub : s \in mine} \ {None}
        All(items) == UNION {Of(items, s) : s \in mine}
    IN /\ May("delete me") /\ Idle(w)
       /\ hist' = Noting(Spend, Crowded \cup {"owner left"})
       /\ job' = [job EXCEPT ![w] =
                     (IF paid = {} THEN <<>> ELSE <<[do |-> "cancel", subs |-> paid]>>)
                     \o (IF mine = {} THEN <<>> ELSE <<Erase(All(OwnedCascade)), Erase(All({"invites"}))>>)
                     \o <<Erase({[what |-> "seats", of |-> u]}),
                          Erase({[what |-> "profile", of |-> u], [what |-> "accounts", of |-> u]})>>]
       /\ UNCHANGED <<db, stripe, tab, cast>>
(* Stripe is asked to cancel each subscription; a refusal is swallowed.    *)
CancelAll(w) ==
    /\ Doing(w, "cancel") /\ Proceed(w, <<>>)
    /\ \E went \in SUBSET This(w).subs :
         LET dead == {k \in went : stripe.sub[k].state # "dead"} IN
         /\ Cardinality(This(w).subs \ went) <= hist.faults
         /\ stripe' = [stripe EXCEPT
              !.sub  = [k \in Subs |-> IF k \in dead THEN [@[k] EXCEPT !.state = "dead"] ELSE @[k]],
              !.sent = @ + Cardinality(dead),
              !.mail = @ \cup {[id |-> stripe.sent + Cardinality({j \in dead : j <= k}), kind |-> "deleted",
                                sub |-> k, plan |-> stripe.sub[k].plan, state |-> "dead",
                                of |-> stripe.sub[k].of] : k \in dead}]
         /\ hist' = [Noting(hist, IF went = This(w).subs THEN {} ELSE {"swallowed"})
                       EXCEPT !.faults = @ - Cardinality(This(w).subs \ went)]
    /\ UNCHANGED <<db, tab, cast>>

(**************************** first workspace ******************************)
NewPersonal(u) == [NoSpace EXCEPT !.type = "personal", !.owner = u]
(* resolveOrg's last resort, an upsert, then the profile. *)
Provision(w, u) ==
    /\ May("arrive") /\ ResolveOrg(u, None) = {} /\ Unborn # {}
    /\ Begin(w, <<[do |-> "profile", user |-> u, of |-> Least(Unborn)]>>)
    /\ db' = [db EXCEPT !.space[Least(Unborn)] = NewPersonal(u)]
    /\ UNCHANGED <<stripe, tab, cast>>
SetProfile(w) ==
    /\ Doing(w, "profile") /\ Proceed(w, <<>>)
    /\ With(Stale(RoleIn(This(w).user, This(w).of) = {}))
    /\ db' = [db EXCEPT !.active[This(w).user] = This(w).of]
    /\ UNCHANGED <<stripe, tab, cast>>
(* POST /accounts: looks for a personal workspace, then creates one.       *)
CreateAccount(w, u) ==
    /\ May("create account") /\ Personal(u) = {} /\ Unborn # {}
    /\ Begin(w, <<[do |-> "personal", user |-> u]>>) /\ UNCHANGED <<db, stripe, tab, cast>>
InsertPersonal(w) ==
    LET u == This(w).user IN
    /\ Doing(w, "personal") /\ Unborn # {} /\ Proceed(w, <<>>) /\ With(Stale(Personal(u) # {}))
    /\ db' = [db EXCEPT !.space[Least(Unborn)] = NewPersonal(u)]
    /\ UNCHANGED <<stripe, tab, cast>>

CloudAccountsNext ==
    \E w \in Workers :
       \/ \E u \in Users :
            \/ Connect(w, u) \/ DeleteOrg(w, u)
            \/ \E c \in Clouds : \/ Disconnect(w, u, c) \/ Rotate(w, u, c)
                                 \/ \E on \in BOOLEAN : SetStatus(u, c, on)
            \/ CreateKey(u)
            \/ \E k \in db.keys : RevokeKey(u, k) \/ RollKey(w, u, k)
       \/ \E u \in Users : DeleteMe(w, u) \/ Provision(w, u) \/ CreateAccount(w, u)
       \/ StoreCredential(w) \/ CreateCloud(w) \/ DropCredential(w) \/ DropCloud(w) \/ Rewire(w)
       \/ RevokeRolled(w) \/ EraseOne(w) \/ CancelAll(w) \/ SetProfile(w) \/ InsertPersonal(w)
===============================================================================
