----------------------------- MODULE MCAgentGuard -----------------------------
(* A session alone, and two parties at a time.                             *)
EXTENDS AgentGuard

CONSTANTS h1, h2, q1, q2, f1, f2

MCCasts   == {[who |-> {h1}, spend |-> 3, time |-> 2],     [who |-> {h1, h2}, spend |-> 5, time |-> 0],
              [who |-> {h1, q1}, spend |-> 3, time |-> 1], [who |-> {q1, q2}, spend |-> 3, time |-> 2],
              [who |-> {h1, f1}, spend |-> 1, time |-> 2], [who |-> {f1, f2}, spend |-> 0, time |-> 2]}
MCFirstBudget == [sessionSoft |-> 1, sessionHard |-> 2, dailySoft |-> 0, dailyHard |-> 1]
MCBudgets == {MCFirstBudget, [sessionSoft |-> 1, sessionHard |-> 0, dailySoft |-> 0, dailyHard |-> 0]}
(* One ahead of its pace, one whose reset is unknown, and one of no window. *)
MCReadings == {[util |-> 65, left |-> 2], [util |-> 40, left |-> None], [util |-> None, left |-> None]}
===============================================================================
