-------------------------------- MODULE Console --------------------------------
(***************************************************************************)
(* One browser tab of the web console (packages/web) on the API: the       *)
(* workspace switcher (OrgContext), the alert channels of the settings     *)
(* page and the rules page, with the routes they call (alerts, rules and   *)
(* GET /accounts/me).  A call waits for a token, then takes the workspace  *)
(* chosen at that moment as its X-Org-Id header, is served, and its answer *)
(* is received; calls overlap and their answers come in any order.         *)
(* shownOf remembers the workspace the page's contents came from: a change *)
(* served in another one has crossed.  A rule is found by its id, which    *)
(* for a preset is the same in every workspace: the model has one preset,  *)
(* fired counts its firings (lastFiredAt), 0 when the field is absent.     *)
(***************************************************************************)
EXTENDS Documents

Calls == 1..3               \* bound: calls under way at once
NoCall == [kind |-> "none"]

ConsoleOf(u, s) == [user |-> u, org |-> s, page |-> "home", ready |-> FALSE,
                    shownOf |-> None, channels |-> {}, rules |-> {}, editing |-> {},
                    calls |-> [n \in Calls |-> NoCall]]

Free(t)   == {n \in Calls : t.calls[n] = NoCall}
Quiet(t)  == Free(t) = Calls
Open      == tab # NoTab

(****************************** the client *********************************)
Ask(t, kind, arg) ==
    [t EXCEPT !.calls[Least(Free(t))] =
       [kind |-> kind, arg |-> arg, mounted |-> TRUE, was |-> t.org, from |-> t.shownOf,
        phase |-> "token", org |-> None, at |-> None, ok |-> FALSE, data |-> {}]]
(* What a page does when it is mounted and whenever orgVersion is bumped:  *)
(* the rules page shows nothing until its load is answered, the settings   *)
(* page goes on showing what it has.                                       *)
Load(t) == CASE t.page = "settings" -> Ask(t, "channels", None)
             [] t.page = "rules"    -> Ask([t EXCEPT !.ready = FALSE], "rules", None)
             [] OTHER               -> t
Left(call) == IF call = NoCall THEN call ELSE [call EXCEPT !.mounted = FALSE]
Mount(t, page) == [t EXCEPT !.page = page, !.ready = FALSE, !.shownOf = None, !.channels = {},
                            !.rules = {}, !.editing = {}, !.calls = [n \in Calls |-> Left(@[n])]]
Hasty == (IF Quiet(tab) THEN {} ELSE {"hasty"}) \cup (IF tab.org = None THEN {"unplaced"} ELSE {})

(* A click that makes a call. *)
Clicks(t) ==
    /\ Open /\ Free(tab) # {} /\ tab' = t
    /\ hist' = Noting(Spend, Hasty) /\ UNCHANGED <<db, stripe, job, cast>>

(* guardianFetch: the header is read once the token has come. *)
Sends(n) ==
    /\ Open /\ tab.calls[n] # NoCall /\ tab.calls[n].phase = "token"
    /\ tab' = [tab EXCEPT !.calls[n].phase = "sent", !.calls[n].org = tab.org]
    /\ UNCHANGED <<db, stripe, job, cast, hist>>

Waits(n, kind, phase) == Open /\ tab.calls[n] # NoCall /\ tab.calls[n].kind = kind /\ tab.calls[n].phase = phase
Asked(n, kind)    == Waits(n, kind, "sent")
Answered(n, kind) == Waits(n, kind, "answered")
Answer(n, ok, data) ==
    tab' = [tab EXCEPT !.calls[n].phase = "answered", !.calls[n].ok = ok, !.calls[n].data = data]
Refuse(n) == Answer(n, FALSE, {}) /\ UNCHANGED <<db, hist>>
Here(n, permission) == {s \in Allowed(tab.user, tab.calls[n].org, permission) : Live(s)}
(* A read of the workspace, which may be refused or fail on the way. *)
Reads(n, permission, data) ==
    /\ \/ \E s \in Here(n, permission) :
            /\ tab' = [tab EXCEPT !.calls[n].phase = "answered", !.calls[n].ok = TRUE,
                                  !.calls[n].data = data[s], !.calls[n].at = s]
            /\ UNCHANGED <<db, hist>>
       \/ Here(n, permission) = {} /\ Answer(n, FALSE, {}) /\ UNCHANGED db /\ With({"failed"})
       \/ /\ hist.faults > 0 /\ Answer(n, FALSE, {}) /\ UNCHANGED db
          /\ hist' = [Noting(hist, {"failed"}) EXCEPT !.faults = @ - 1]
    /\ UNCHANGED <<stripe, job, cast>>
(* A change to the workspace, with the answer it gets. *)
Crosses(n, s) == With(IF s = tab.calls[n].from THEN {} ELSE {"crossed"})
Changes(n, permission, Change(_)) ==
    /\ \/ \E s \in Here(n, permission) : Change(s)
       \/ Here(n, permission) = {} /\ Refuse(n)
    /\ UNCHANGED <<stripe, job, cast>>

Done(t, n) == [t EXCEPT !.calls[n] = NoCall]
(* An answer for a page that has been left has no effect. *)
Receives(n, t) ==
    /\ tab' = IF tab.calls[n].mounted /\ tab.calls[n].ok THEN t ELSE Done(tab, n)
    /\ UNCHANGED <<db, stripe, job, cast, hist>>

(***************************** navigation **********************************)
Visit(page) ==
    /\ May("visit") /\ Open /\ tab.page # page /\ page \in cast.pages
    /\ Free(tab) # {} /\ tab' = Load(Mount(tab, page))
    /\ hist' = Spend /\ UNCHANGED <<db, stripe, job, cast>>

(***************************** workspaces **********************************)
(* OrgSwitcher.handleSwitch, switchOrg *)
ClickSwitch(s) ==
    May("click switch") /\ Open /\ s # tab.org /\ RoleIn(tab.user, s) # {}
    /\ Clicks(Ask(tab, "switch", s))
ServeSwitch(n) ==
    LET s == tab.calls[n].arg IN
    /\ Asked(n, "switch")
    /\ IF ResolveOrg(tab.user, tab.calls[n].org) # {} /\ RoleIn(tab.user, s) # {}
       THEN Answer(n, TRUE, {}) /\ db' = [db EXCEPT !.active[tab.user] = s]
       ELSE Answer(n, FALSE, {}) /\ UNCHANGED db
    /\ With(Crowded) /\ UNCHANGED <<stripe, job, cast>>
(* The choice is kept, pages reload, then the account is asked for again.  *)
Switched(n) ==
    LET call == tab.calls[n] IN
    /\ Answered(n, "switch") /\ Cardinality(Free(tab)) > 0
    /\ tab' = IF ~call.ok THEN Done(tab, n)
              ELSE [Ask(Load(Done(tab, n)), "me", call.arg) EXCEPT !.org = call.arg]
    /\ UNCHANGED <<db, stripe, job, cast, hist>>

(* Saving the workspace's name ends in refreshOrgs. *)
ClickRefresh == May("refresh") /\ Open /\ Clicks(Ask(tab, "me", None))
ServeMe(n) ==
    LET call  == tab.calls[n]
        where == ResolveOrg(tab.user, call.org)
        last  == db.active[tab.user]
    IN /\ Asked(n, "me")
       /\ IF \E r \in where : Live(r.of)
          THEN \E r \in where : Live(r.of) /\ Answer(n, TRUE, {IF last # None THEN last ELSE r.of})
          ELSE Answer(n, FALSE, {})
       /\ UNCHANGED <<db, stripe, job, cast, hist>>

(* What the account says becomes the workspace of the tab; pages reload    *)
(* when it is another one than the one known when it was asked for.  After *)
(* a switch, the tab goes home.                                            *)
Settled(t, call) == IF call.arg # None THEN Mount(t, "home") ELSE t
(* Mutant: the pages are not told. *)
RefreshQuietly(n) ==
    LET call == tab.calls[n]
        told == IF call.ok THEN Least(call.data) ELSE None
        t    == [Done(tab, n) EXCEPT !.org = told]
    IN /\ Answered(n, "me")
       /\ tab' = Settled(t, call)
       /\ UNCHANGED <<db, stripe, job, cast, hist>>
Refreshed(n) ==
    LET call == tab.calls[n]
        told == IF call.ok THEN Least(call.data) ELSE None
        t    == [Done(tab, n) EXCEPT !.org = told]
        bump == ~call.ok \/ (told # call.was /\ call.was # None)
    IN /\ Answered(n, "me")
       /\ tab' = Settled(IF bump THEN Load(t) ELSE t, call)
       /\ UNCHANGED <<db, stripe, job, cast, hist>>

(*************************** alert channels ********************************)
Shows(page) == Open /\ tab.page = page /\ tab.ready
(* GET /alerts/channels gives a channel's secret masked. *)
Masked(c) == [c EXCEPT !.secret = "masked"]
ServeChannels(n) ==
    Asked(n, "channels")
    /\ Reads(n, "alerts_read", [s \in Spaces |-> {Masked(c) : c \in db.space[s].channels}])
(* A page that could not load is shown all the same, and an answer is not  *)
(* turned away when the tab has moved to another workspace meanwhile.      *)
Shown(n, t) ==
    /\ With(IF tab.calls[n].mounted /\ tab.calls[n].org # tab.org THEN {"outrun"} ELSE {})
    /\ tab' = IF ~tab.calls[n].mounted THEN Done(tab, n)
              ELSE [(IF tab.calls[n].ok THEN t ELSE Done(tab, n)) EXCEPT !.ready = TRUE]
    /\ UNCHANGED <<db, stripe, job, cast>>
ReceiveChannels(n) ==
    LET call == tab.calls[n] IN
    Answered(n, "channels") /\ Shown(n, [Done(tab, n) EXCEPT !.channels = call.data, !.shownOf = call.at])

(* handleAddChannel, handleRemoveChannel, handleToggleChannel: each sends  *)
(* all the channels the page shows, with its change.                       *)
NewChannel == [name |-> Cardinality(tab.channels) + 1, on |-> TRUE, secret |-> "whole"]
ClickChannels ==
    /\ May("channels") /\ Shows("settings")
    /\ \/ Clicks(Ask(tab, "put", tab.channels \cup {NewChannel}))
       \/ \E c \in tab.channels :
            \/ Clicks(Ask(tab, "put", tab.channels \ {c}))
            \/ Clicks(Ask(tab, "put", (tab.channels \ {c}) \cup {[c EXCEPT !.on = ~@]}))
(* PUT /alerts/channels: the limit, then the whole list is replaced. *)
ServePut(n) ==
    LET all == tab.calls[n].arg
        Change(s) == IF Cardinality(all) > ChannelLimit[db.space[s].tier] THEN Refuse(n)
                     ELSE /\ Answer(n, TRUE, {}) /\ Crosses(n, s)
                          /\ db' = [db EXCEPT !.space[s].channels = all]
    IN Asked(n, "put") /\ Changes(n, "alerts_write", Change)
ReceivePut(n) ==
    Answered(n, "put") /\ Receives(n, [Done(tab, n) EXCEPT !.channels = tab.calls[n].arg])

(******************************** rules ************************************)
Preset == [on |-> TRUE, fired |-> 0]
ServeRules(n) == Asked(n, "rules") /\ Reads(n, "rules_read", db.rules)
ReceiveRules(n) ==
    LET call == tab.calls[n] IN
    Answered(n, "rules") /\ Shown(n, [Done(tab, n) EXCEPT !.rules = call.data, !.shownOf = call.at])

(* Apply the preset, toggle, delete, edit and save. *)
ClickRules ==
    /\ May("rules") /\ Shows("rules")
    /\ \/ Clicks(Ask(tab, "apply", Preset))
       \/ \E r \in tab.rules : \/ \E kind \in {"toggle", "drop"} : Clicks(Ask(tab, kind, r))
                               \/ Clicks([tab EXCEPT !.editing = {r}])
       \/ \E r \in tab.editing : Clicks(Ask(tab, "save", r))
(* What is written is all of the rule as it was sent: a preset, or what    *)
(* the page had.  A field that was not sent stays.                         *)
Over(old, new) == {[new EXCEPT !.fired = IF @ = 0 THEN r.fired ELSE @] : r \in old}
ServeRule(n) ==
    LET call == tab.calls[n]
        Kept(s) == db.rules[s]
        New(s) == CASE call.kind = "apply"  -> IF Kept(s) = {} THEN {call.arg} ELSE Over(Kept(s), call.arg)
                    [] call.kind = "toggle" -> {[r EXCEPT !.on = ~@] : r \in Kept(s)}
                    [] call.kind = "save"   -> Over(Kept(s), call.arg)
                    [] OTHER                -> {}
        Change(s) ==
            IF Kept(s) = {} /\ call.kind \in {"toggle", "save"} THEN Refuse(n)
            ELSE /\ Answer(n, TRUE, IF call.kind = "apply" THEN {call.arg} ELSE New(s)) /\ Crosses(n, s)
                 /\ db' = [db EXCEPT !.rules[s] = New(s)]
    IN /\ \E kind \in {"apply", "toggle", "save", "drop"} : Asked(n, kind)
       /\ Changes(n, IF call.kind = "drop" THEN "rules_delete" ELSE "rules_write", Change)
(* The page's copy: a toggle changes the switch alone. *)
ReceiveRule(n) ==
    LET data  == tab.calls[n].data
        rules == tab.rules
    IN \/ Answered(n, "apply")  /\ Receives(n, [Done(tab, n) EXCEPT !.rules = data])
       \/ Answered(n, "drop")   /\ Receives(n, [Done(tab, n) EXCEPT !.rules = {}])
       \/ Answered(n, "toggle") /\ Receives(n, [Done(tab, n) EXCEPT !.rules =
                                     {[r EXCEPT !.on = (CHOOSE x \in data : TRUE).on] : r \in rules}])
       \/ Answered(n, "save")   /\ Receives(n, [Done(tab, n) EXCEPT !.editing = {},
                                     !.rules = IF rules = {} THEN {} ELSE data])

(* External to the tab: the monitoring engine fires a rule and stamps it.  *)
Fired(s) ==
    /\ May("fire") /\ \E r \in db.rules[s] : r.on
    /\ db' = [db EXCEPT !.rules[s] = {[r EXCEPT !.fired = @ + 1] : r \in @}]
    /\ hist' = Spend /\ UNCHANGED <<stripe, job, tab, cast>>

ConsoleNext ==
    \/ \E page \in {"home", "settings", "rules"} : Visit(page)
    \/ \E s \in Spaces : ClickSwitch(s) \/ Fired(s)
    \/ ClickRefresh \/ ClickChannels \/ ClickRules
    \/ \E n \in Calls :
         \/ Sends(n) \/ ServeSwitch(n) \/ ServeMe(n) \/ ServeChannels(n) \/ ServePut(n) \/ ServeRules(n)
         \/ ServeRule(n)
         \/ Switched(n) \/ Refreshed(n) \/ ReceiveChannels(n) \/ ReceivePut(n) \/ ReceiveRules(n)
         \/ ReceiveRule(n)
===============================================================================
