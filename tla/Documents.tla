------------------------------ MODULE Documents ------------------------------
(***************************************************************************)
(* What the API (packages/api) keeps in Mongo for its workspaces, and how  *)
(* its handlers run.  db holds the collections, one value per document.    *)
(* A handler is a sequence of steps, one per await that changes something; *)
(* handlers interleave between steps.  The reads a request makes before    *)
(* its first write (authentication, permissions, limits, lookups) are one  *)
(* step, which carries what was read into the steps that use it.           *)
(***************************************************************************)
EXTENDS Integers, Sequences, FiniteSets

CONSTANTS
    Users,
    Spaces,         \* workspaces (GuardianAccount), numbered as they are created
    Clouds,         \* cloud accounts, numbered as they are created
    Creds,          \* encrypted credentials, numbered as they are stored
    Invites,        \* invitations, numbered as they are sent
    Subs,           \* Stripe subscriptions, numbered as they start
    Workers,        \* handlers that may be running at once
    CloudLimit,     \* TIER_LIMITS[tier].cloudAccounts, scaled down
    SeatLimit,      \* TIER_LIMITS[tier].teamMembers
    ChannelLimit,   \* TIER_LIMITS[tier].alertChannels
    Thresholds,     \* a budget's thresholdPcts
    Casts           \* what may happen together: [ops, pages, left, faults, db, stripe, tab]

None  == 0
Gone  == -1         \* of a document that has been deleted
Tiers == {"free", "pro", "team", "enterprise"}
SelfServe == {"pro", "team"}                          \* SELF_SERVE_PAID_TIERS
TierRank  == [free |-> 0, pro |-> 1, team |-> 2, enterprise |-> 3]

ASSUME DocumentsOK ==
    /\ Spaces \subseteq Nat \ {0} /\ Clouds \subseteq Nat \ {0} /\ Creds \subseteq Nat \ {0}
    /\ Invites \subseteq Nat \ {0} /\ Subs \subseteq Nat \ {0}
    /\ CloudLimit \in [Tiers -> Nat] /\ SeatLimit \in [Tiers -> Nat]
    /\ ChannelLimit \in [Tiers -> Nat]
    /\ Thresholds \subseteq Nat /\ IsFiniteSet(Spaces)
-------------------------------------------------------------------------------
VARIABLES
    db,             \* the collections
    stripe,         \* external: subscriptions, checkouts and undelivered events
    job,            \* what each worker still has to do
    tab,            \* a user's open console
    cast,           \* what may happen in this behaviour
    hist            \* [left, faults]: bounds; [lapses, touched, outgrown, sent]: history

vars == <<db, stripe, job, tab, cast, hist>>

NoSpace  == [type |-> "unborn", owner |-> None, tier |-> "free", sub |-> None, cust |-> FALSE,
             channels |-> {}]
NoCloud  == [of |-> None, active |-> FALSE, cred |-> None]
NoInvite == [of |-> None, email |-> None, role |-> "viewer", status |-> "unsent", late |-> FALSE]
NoBudget == [of |-> None, on |-> FALSE, at |-> {}, told |-> {}, started |-> 0]
NoTab    == [user |-> None]
EmptyDb  == [space  |-> [s \in Spaces |-> NoSpace],  cloud  |-> [c \in Clouds |-> NoCloud],
             cred   |-> [k \in Creds |-> None],      member |-> {},
             invite |-> [i \in Invites |-> NoInvite], active |-> [u \in Users |-> None],
             rules  |-> [s \in Spaces |-> {}],
             keys   |-> {}, keyed |-> 0, budget |-> NoBudget, spent |-> 0, before |-> 0, period |-> 0]
EmptyStripe == [sub  |-> [k \in Subs |-> [plan |-> "free", state |-> "none", of |-> None]],
                open |-> {}, mail |-> {}, done |-> {}, sent |-> 0]

DocumentsInit == \E c \in Casts :
    /\ cast = [ops |-> c.ops, pages |-> c.pages]
    /\ db = c.db /\ stripe = c.stripe /\ tab = c.tab
    /\ job = [w \in Workers |-> <<>>]
    /\ hist = [left |-> c.left, faults |-> c.faults, lapses |-> {}, touched |-> {},
               outgrown |-> {}, sent |-> [t \in Thresholds |-> 0]]

(****************************** lookups ************************************)
Kinds     == {"personal", "organization"}
Live(s)   == s \in Spaces /\ db.space[s].type \in Kinds
Unborn    == {s \in Spaces : db.space[s].type = "unborn"}
Least(S)  == CHOOSE n \in S : \A m \in S : n <= m
Owned(u)  == {s \in Spaces : Live(s) /\ db.space[s].owner = u}
Personal(u)  == {s \in Owned(u) : db.space[s].type = "personal"}
CloudsOf(s)  == {c \in Clouds : db.cloud[c].of = s}
ActiveOf(s)  == {c \in CloudsOf(s) : db.cloud[c].active}
SeatsOf(s)   == {m \in db.member : m.of = s}
Unused(docs, blank) == {d \in DOMAIN docs : docs[d] = blank}
IsCloud(c)   == db.cloud[c].of \in Spaces

(* The last step of resolving: who one is in a workspace. *)
RoleIn(u, s) ==
    IF ~Live(s) THEN {}
    ELSE IF db.space[s].owner = u THEN {"owner"} ELSE {m.role : m \in {x \in SeatsOf(s) : x.user = u}}

(* resolveOrg: the X-Org-Id header, the last workspace used, one's own,    *)
(* one as a member.  Nothing: the request is refused, or Provision.        *)
In(s, roles) == {[of |-> s, role |-> r] : r \in roles}
ResolveOrg(u, header) ==
    LET last == db.active[u]
        seat == {m \in db.member : m.user = u}
    IN IF header # None THEN In(header, RoleIn(u, header))
       ELSE IF RoleIn(u, last) # {} THEN In(last, RoleIn(u, last))
       ELSE IF Personal(u) # {} THEN {[of |-> s, role |-> "owner"] : s \in Personal(u)}
       ELSE {[of |-> m.of, role |-> m.role] : m \in seat}

Everyone == {"owner", "admin", "member", "viewer"}
Editors  == {"owner", "admin", "member"}
Managers == {"owner", "admin"}
PermissionMatrix == [
    cloud_accounts_write |-> Editors,  cloud_accounts_delete |-> Editors,
    alerts_read  |-> Everyone,         alerts_write  |-> Managers,
    team_manage  |-> Managers,         settings_write |-> Managers,
    billing_read |-> Everyone,         billing_manage |-> {"owner"},
    api_keys_manage |-> Editors,       org_delete    |-> {"owner"},
    check_trigger |-> Editors,         settings_read |-> Everyone,
    rules_read |-> Everyone,           rules_write |-> Editors,
    rules_delete |-> Editors]

(* The workspaces a request of u may resolve to and in which u may do this *)
(* (requirePermission), with a given header and with any.                  *)
Allowed(u, header, permission) ==
    {r.of : r \in {x \in ResolveOrg(u, header) : x.role \in PermissionMatrix[permission]}}
Reach(u, permission) == UNION {Allowed(u, header, permission) : header \in Spaces \cup {None}}
OnTier(s, tiers) == Live(s) /\ db.space[s].tier \in tiers      \* requireTier

(****************************** handlers ***********************************)
Idle(w)     == job[w] = <<>>
AllIdle     == \A w \in Workers : Idle(w)
May(op)     == op \in cast.ops /\ hist.left > 0
Doing(w, d) == ~Idle(w) /\ Head(job[w]).do = d
This(w)     == Head(job[w])

Spend == [hist EXCEPT !.left = @ - 1]
Noting(h, lapses) == [h EXCEPT !.lapses = @ \cup lapses]
Crowded == IF AllIdle THEN {} ELSE {"overlap"}
Stale(changed) == IF changed THEN {"stale"} ELSE {}

(* A worker takes a request that has steps to make. *)
Begin(w, steps) ==
    /\ Idle(w)
    /\ job' = [job EXCEPT ![w] = steps]
    /\ hist' = Noting(Spend, Crowded)
(* One that is done in a single write. *)
AtOnce == hist' = Noting(Spend, Crowded) /\ UNCHANGED job

Proceed(w, more) == job' = [job EXCEPT ![w] = more \o Tail(@)]
Clean == UNCHANGED hist
With(lapses) == hist' = Noting(hist, lapses)

(* A step throws: the handler answers 500 and what it has done stays. *)
Throws(w) ==
    /\ job' = [job EXCEPT ![w] = <<>>]
    /\ With({"failed"})
    /\ UNCHANGED <<db, stripe, tab, cast>>
CannotThrow == {"erase", "clear", "cancel", "mark", "alert"}   \* they have faults of their own, or none
Fails(w) ==
    /\ ~Idle(w) /\ Head(job[w]).do \notin CannotThrow /\ hist.faults > 0
    /\ job' = [job EXCEPT ![w] = <<>>]
    /\ hist' = [Noting(hist, {"failed"}) EXCEPT !.faults = @ - 1]
    /\ UNCHANGED <<db, stripe, tab, cast>>
===============================================================================
