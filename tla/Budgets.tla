-------------------------------- MODULE Budgets --------------------------------
(***************************************************************************)
(* routes/budgets and services/budget-checker: one spend budget, checked   *)
(* after each monitoring cycle; every threshold is to alert once a period. *)
(* Spend is counted in thresholds; Postgres answers with what the period   *)
(* has cost so far.  External: spend grows, and a new period begins.       *)
(***************************************************************************)
EXTENDS Documents

Due(b, spent) == {t \in b.at : t <= spent /\ t \notin b.told}
Alerting(b, spent) ==
    IF Due(b, spent) = {} THEN <<>>
    ELSE <<[do |-> "alert", budget |-> b, at |-> Least(Due(b, spent)), spent |-> spent]>>

(* checkBudgets: the budget is loaded, a new period empties what was told. *)
CheckBudgets(w, u) ==
    May("check budgets") /\ \E s \in Reach(u, "check_trigger") :
      /\ Live(s) /\ db.budget.of = s /\ db.budget.on
      /\ Begin(w, <<[do |-> "period", budget |-> db.budget]>>)
      /\ UNCHANGED <<db, stripe, tab, cast>>
RollPeriod(w) ==
    LET b    == This(w).budget
        anew == [b EXCEPT !.told = {}, !.started = db.period]
    IN /\ Doing(w, "period") /\ Clean
       /\ IF db.period > b.started
          THEN /\ db' = IF db.budget.of = None THEN db
                        ELSE [db EXCEPT !.budget.told = {}, !.budget.started = db.period]
               /\ Proceed(w, <<[do |-> "spend", budget |-> anew]>>)
          ELSE UNCHANGED db /\ Proceed(w, <<[do |-> "spend", budget |-> b]>>)
       /\ UNCHANGED <<stripe, tab, cast>>
(* getPeriodSpend, from the start of the budget's period on. *)
ReadSpend(w) ==
    LET b == This(w).budget IN
    /\ Doing(w, "spend") /\ Clean
    /\ Proceed(w, Alerting(b, db.spent + IF b.started < db.period THEN db.before ELSE 0))
    /\ UNCHANGED <<db, stripe, tab, cast>>
(* sendAlerts and the push, neither of which throws. *)
SendAlert(w) ==
    LET p == This(w) IN
    /\ Doing(w, "alert")
    /\ Proceed(w, <<[do |-> "told", budget |-> p.budget, at |-> p.at, spent |-> p.spent]>>)
    /\ hist' = IF p.budget.started = db.period THEN [hist EXCEPT !.sent[p.at] = @ + 1] ELSE hist
    /\ UNCHANGED <<db, stripe, tab, cast>>
(* Mutant: what was told is kept in memory only. *)
ForgetTold(w) ==
    LET p == This(w)
        b == [p.budget EXCEPT !.told = @ \cup {p.at}]
    IN /\ Doing(w, "told") /\ Proceed(w, Alerting(b, p.spent)) /\ Clean
       /\ UNCHANGED <<db, stripe, tab, cast>>
MarkTold(w) ==
    LET p == This(w)
        b == [p.budget EXCEPT !.told = @ \cup {p.at}]
    IN /\ Doing(w, "told") /\ Proceed(w, Alerting(b, p.spent)) /\ Clean
       /\ db' = IF db.budget.of = None THEN db ELSE [db EXCEPT !.budget.told = @ \cup {p.at}]
       /\ UNCHANGED <<stripe, tab, cast>>

(* POST, PATCH and DELETE /budgets *)
CreateBudget(u) ==
    May("edit budget") /\ \E s \in Reach(u, "settings_write") :
      /\ Live(s) /\ db.budget.of = None
      /\ db' = [db EXCEPT !.budget = [of |-> s, on |-> TRUE, at |-> Thresholds, told |-> {},
                                      started |-> db.period]]
      /\ hist' = [Noting(Spend, Crowded) EXCEPT !.sent = [t \in Thresholds |-> 0]]
      /\ UNCHANGED <<job, stripe, tab, cast>>
PatchBudget(u, at, on) ==
    /\ May("edit budget") /\ db.budget.of \in Reach(u, "settings_write") /\ AtOnce
    /\ db' = [db EXCEPT !.budget.at = at, !.budget.on = on]
    /\ UNCHANGED <<stripe, tab, cast>>
DeleteBudget(u) ==
    /\ May("edit budget") /\ db.budget.of \in Reach(u, "settings_write") /\ AtOnce
    /\ db' = [db EXCEPT !.budget = NoBudget] /\ UNCHANGED <<stripe, tab, cast>>

SpendMore ==
    /\ May("spend") /\ db.spent < Cardinality(Thresholds)
    /\ hist' = Spend /\ db' = [db EXCEPT !.spent = @ + 1]
    /\ UNCHANGED <<job, stripe, tab, cast>>
NewPeriod ==
    /\ May("period") /\ hist' = [Spend EXCEPT !.sent = [t \in Thresholds |-> 0]]
    /\ db' = [db EXCEPT !.period = @ + 1, !.spent = 0, !.before = db.spent]
    /\ UNCHANGED <<job, stripe, tab, cast>>

BudgetsNext ==
    \/ \E u \in Users :
         \/ \E w \in Workers : CheckBudgets(w, u)
         \/ CreateBudget(u) \/ DeleteBudget(u)
         \/ \E at \in SUBSET Thresholds, on \in BOOLEAN : PatchBudget(u, at, on)
    \/ \E w \in Workers : RollPeriod(w) \/ ReadSpend(w) \/ SendAlert(w) \/ MarkTold(w)
    \/ SpendMore \/ NewPeriod
===============================================================================
