--------------------------------- MODULE Team ---------------------------------
(***************************************************************************)
(* routes/team and the switch of routes/orgs: invitations, seats, roles,   *)
(* and the workspace a user last used (UserProfile.activeOrgId).  Whoever  *)
(* holds an invitation's link may accept it.                               *)
(***************************************************************************)
EXTENDS Documents

Roles    == {"admin", "member", "viewer"}
TeamPlan == {"team", "enterprise"}
(* A request to manage the team, on a tier that has one. *)
Manages(u) == {s \in Reach(u, "team_manage") : OnTier(s, TeamPlan)}
Invited(s) == {i \in Invites : db.invite[i].of = s}
Pending(i) == db.invite[i].status = "pending"

(* POST /team/invite: no seat and no pending invitation for this address,  *)
(* and room for one more member; invitations under way are not counted.    *)
Invite(w, u, email, role) ==
    May("invite") /\ \E s \in Manages(u) :
      /\ ~\E m \in SeatsOf(s) : m.email = email
      /\ ~\E i \in Invited(s) : db.invite[i].email = email /\ Pending(i) /\ ~db.invite[i].late
      /\ Cardinality(SeatsOf(s)) < SeatLimit[db.space[s].tier]
      /\ Begin(w, <<[do |-> "invite", of |-> s, email |-> email, role |-> role]>>)
      /\ UNCHANGED <<db, stripe, tab, cast>>
SendInvite(w) ==
    LET p    == This(w)
        free == Unused(db.invite, NoInvite)
    IN /\ Doing(w, "invite") /\ free # {} /\ Proceed(w, <<>>) /\ With(Stale(~Live(p.of)))
       /\ db' = [db EXCEPT !.invite[Least(free)] =
                   [of |-> p.of, email |-> p.email, role |-> p.role, status |-> "pending", late |-> FALSE]]
       /\ UNCHANGED <<stripe, tab, cast>>

(* Seven days pass. *)
Expires(i) ==
    /\ May("expiry") /\ Pending(i) /\ ~db.invite[i].late /\ db.invite[i].of \in Spaces
    /\ hist' = Spend /\ db' = [db EXCEPT !.invite[i].late = TRUE]
    /\ UNCHANGED <<job, stripe, tab, cast>>

Settle(i, status) == [do |-> "settle", invite |-> i, status |-> status, was |-> db.invite[i].status]
(* POST /team/invite/accept, which resolves the caller's workspace first.  *)
(* Mutant: an invitation may be answered whatever became of it. *)
AcceptAny(w, u, i) ==
    LET inv == db.invite[i] IN
    /\ May("accept") /\ inv.of \in Spaces /\ ResolveOrg(u, None) # {}
    /\ ~\E m \in SeatsOf(inv.of) : m.user = u
    /\ Begin(w, <<[do |-> "seat", user |-> u, inv |-> inv, from |-> i], Settle(i, "accepted")>>)
    /\ UNCHANGED <<db, stripe, tab, cast>>
Accept(w, u, i) ==
    LET inv == db.invite[i] IN
    /\ May("accept") /\ Pending(i) /\ inv.of \in Spaces /\ ResolveOrg(u, None) # {}
    /\ inv.late \/ ~\E m \in SeatsOf(inv.of) : m.user = u
    /\ Begin(w, IF inv.late THEN <<Settle(i, "expired")>>
                ELSE <<[do |-> "seat", user |-> u, inv |-> inv, from |-> i], Settle(i, "accepted")>>)
    /\ UNCHANGED <<db, stripe, tab, cast>>
Seat(w) ==                  \* the index on (user, workspace) is unique
    LET p == This(w) IN
    /\ Doing(w, "seat")
    /\ IF \E m \in SeatsOf(p.inv.of) : m.user = p.user THEN Throws(w)
       ELSE /\ db' = [db EXCEPT !.member = @ \cup {[user |-> p.user, of |-> p.inv.of, role |-> p.inv.role,
                                                    email |-> p.inv.email, from |-> p.from]}]
            /\ With(Stale(db.invite[p.from] # p.inv))
            /\ Proceed(w, <<>>) /\ UNCHANGED <<stripe, tab, cast>>
SettleInvite(w) ==
    LET p == This(w) IN
    /\ Doing(w, "settle") /\ Proceed(w, <<>>)
    /\ With(Stale(db.invite[p.invite].status # p.was))
    /\ db' = [db EXCEPT !.invite[p.invite].status = p.status]
    /\ UNCHANGED <<stripe, tab, cast>>

(* DELETE /team/invitations/:invitationId *)
Revoke(u, i) ==
    /\ May("revoke") /\ db.invite[i].of \in Manages(u) /\ Pending(i) /\ AtOnce
    /\ db' = [db EXCEPT !.invite[i].status = "revoked"]
    /\ UNCHANGED <<stripe, tab, cast>>

(* PATCH /team/members/:memberId *)
SetRole(u, m, role) ==
    /\ May("role") /\ m.of \in Manages(u) /\ m.role # role /\ AtOnce
    /\ db' = [db EXCEPT !.member = (@ \ {m}) \cup {[m EXCEPT !.role = role]}]
    /\ UNCHANGED <<stripe, tab, cast>>

(* DELETE /team/members/:memberId; clearing the profile is best effort.    *)
(* Mutant: the profile is left as it is. *)
RemoveOnly(w, u, m) ==
    /\ May("remove") /\ m.of \in Manages(u)
    /\ Idle(w) /\ AtOnce
    /\ db' = [db EXCEPT !.member = @ \ {m}] /\ UNCHANGED <<stripe, tab, cast>>
RemoveMember(w, u, m) ==
    /\ May("remove") /\ m.of \in Manages(u)
    /\ Begin(w, <<[do |-> "clear", user |-> m.user, of |-> m.of]>>)
    /\ db' = [db EXCEPT !.member = @ \ {m}] /\ UNCHANGED <<stripe, tab, cast>>
ClearProfile(w) ==
    LET p == This(w) IN
    /\ Doing(w, "clear") /\ Proceed(w, <<>>)
    /\ \/ /\ db' = [db EXCEPT !.active[p.user] = IF @ = p.of THEN None ELSE @] /\ Clean
       \/ /\ hist.faults > 0 /\ UNCHANGED db
          /\ hist' = [Noting(hist, {"swallowed"}) EXCEPT !.faults = @ - 1]
    /\ UNCHANGED <<stripe, tab, cast>>

(* POST /orgs/:orgId/switch *)
Switch(w, u, s) ==
    /\ May("switch") /\ ResolveOrg(u, None) # {} /\ RoleIn(u, s) # {} /\ db.active[u] # s
    /\ Begin(w, <<[do |-> "profile", user |-> u, of |-> s]>>)
    /\ UNCHANGED <<db, stripe, tab, cast>>

TeamNext ==
    \/ \E w \in Workers, u \in Users :
         \/ \E i \in Invites : Accept(w, u, i)
         \/ \E s \in Spaces : Switch(w, u, s)
         \/ \E email \in Users, role \in Roles : Invite(w, u, email, role)
         \/ \E m \in db.member : RemoveMember(w, u, m)
    \/ \E u \in Users :
         \/ \E i \in Invites : Revoke(u, i)
         \/ \E m \in db.member, role \in Roles : SetRole(u, m, role)
    \/ \E i \in Invites : Expires(i)
    \/ \E w \in Workers : SendInvite(w) \/ Seat(w) \/ SettleInvite(w) \/ ClearProfile(w)
===============================================================================
