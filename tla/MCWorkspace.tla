------------------------------ MODULE MCWorkspace ------------------------------
(* Workspace in the worlds its casts start from. *)
EXTENDS Workspace

CONSTANTS ann, bob

MCCloudLimit   == [free |-> 1, pro |-> 2, team |-> 3, enterprise |-> 4]
MCSeatLimit    == [free |-> 0, pro |-> 0, team |-> 1, enterprise |-> 2]
MCChannelLimit == [free |-> 1, pro |-> 2, team |-> 2, enterprise |-> 2]

A(type, owner, tier, sub) ==
    [NoSpace EXCEPT !.type = type, !.owner = owner, !.tier = tier, !.sub = sub, !.cust = sub # None]
Active(plan, of) == [plan |-> plan, state |-> "active", of |-> of]
Member(u, s, role) == [user |-> u, of |-> s, role |-> role, email |-> u, from |-> None]
Linked(db0, clouds) ==      \* cloud accounts of workspaces, each with its credential
    [db0 EXCEPT !.cloud = [c \in Clouds |-> IF c \in DOMAIN clouds
                             THEN [of |-> clouds[c], active |-> TRUE, cred |-> c] ELSE @[c]],
                !.cred  = [k \in Creds |-> IF k \in DOMAIN clouds THEN clouds[k] ELSE @[k]]]

(* ann is new. *)
Newcomer == [EmptyDb EXCEPT !.space[1] = A("personal", ann, "free", None), !.active[ann] = 1]
(* ann has the team plan, an organisation and bob in it. *)
Company  == [EmptyDb EXCEPT !.space[1] = A("personal", ann, "team", 1),
                            !.space[2] = A("organization", ann, "team", None),
                            !.member = {Member(bob, 2, "admin")},
                            !.active[ann] = 2, !.active[bob] = 2]
Paying(plan, s) == [EmptyStripe EXCEPT !.sub[1] = Active(plan, s)]
Channel(n) == [name |-> n, on |-> TRUE, secret |-> "whole"]
Heard    == [Company EXCEPT !.space[1].channels = {Channel(1)}]
Guarded  == [Company EXCEPT !.rules[1] = {[on |-> TRUE, fired |-> 0]},
                            !.rules[2] = {[on |-> FALSE, fired |-> 1]}]

Play(ops, left, faults, db0, stripe0) ==
    [ops |-> ops, left |-> left, faults |-> faults, db |-> db0, stripe |-> stripe0, tab |-> NoTab,
     pages |-> {}]
AtConsole(cast0, s, pages) == [cast0 EXCEPT !.tab = ConsoleOf(ann, s), !.pages = pages]

UpgradeCast   == Play({"checkout", "portal"}, 3, 0, Linked(Newcomer, <<1>>), EmptyStripe)
OrgsCast      == Play({"portal", "status", "create org"}, 3, 0, Linked(Company, <<1, 1, 2, 2>>), Paying("team", 1))
DunningCast   == Play({"dunning", "status"}, 3, 0, Linked(Company, <<1, 1, 2, 2>>), Paying("team", 1))
DowngradeCast == Play({"portal", "set status", "connect", "convert"}, 3, 0, Linked(Company, <<1, 1, 2>>), Paying("team", 1))
OrphanCast    == Play({"convert", "delete org", "dunning", "status"}, 4, 0, Linked(Company, <<1, 2>>), Paying("team", 1))
CloudsCast    == Play({"connect", "set status", "disconnect", "rotate"}, 3, 1, Linked(Company, <<1, 2>>),
                      Paying("team", 1))
KeysCast      == Play({"keys", "delete org", "connect"}, 2, 1, Linked(Company, <<1, 2>>), Paying("team", 1))
LeavingCast   == Play({"delete me", "arrive", "create account", "accept"}, 2, 0,
                      [Linked(Newcomer, <<1>>) EXCEPT !.space[1] = A("personal", ann, "team", 1),
                         !.space[2] = A("personal", bob, "free", None), !.active[bob] = 2, !.invite[1] =
                         [of |-> 1, email |-> bob, role |-> "viewer", status |-> "pending", late |-> FALSE]],
                      Paying("team", 1))
LeaverCast    == Play({"delete me"}, 1, 0, Linked(Company, <<1, 2>>), Paying("team", 1))
OrgInvite(email) == [of |-> 2, email |-> email, role |-> "viewer", status |-> "pending", late |-> FALSE]
(* bob has a workspace of his own, and is not in the organisation yet. *)
Alone         == [Company EXCEPT !.member = {}, !.space[3] = A("personal", bob, "free", None), !.active[bob] = 3]
Awaited       == [Alone EXCEPT !.invite[1] = OrgInvite(bob)]
TeamCast      == Play({"invite", "accept", "revoke", "remove"}, 3, 0, Awaited, Paying("team", 1))
SeatCast      == Play({"remove", "switch", "accept", "invite"}, 3, 1, Company, Paying("team", 1))
InviteCast    == Play({"invite", "accept", "expiry", "role"}, 3, 1, Alone, Paying("team", 1))
BudgetCast    == Play({"check budgets", "edit budget", "spend", "period"}, 5, 1, Company, Paying("team", 1))
ChannelsCast  == AtConsole(Play({"visit", "refresh", "channels", "switch"}, 4, 0, Heard, Paying("team", 1)),
                           1, {"home", "settings"})
SwitchCast    == AtConsole(Play({"visit", "click switch", "channels"}, 3, 1, Heard, Paying("team", 1)),
                           1, {"home", "settings"})
RulesCast     == AtConsole(Play({"visit", "rules", "fire"}, 5, 0, Guarded, Paying("team", 1)),
                           1, {"home", "rules"})

MCCasts == {UpgradeCast, OrgsCast, DunningCast, DowngradeCast, OrphanCast, CloudsCast, KeysCast, LeavingCast, LeaverCast,
            TeamCast, SeatCast, InviteCast, BudgetCast, ChannelsCast, SwitchCast, RulesCast}
MCChannelsCasts == {SwitchCast}
===============================================================================
