---------------------------- MODULE KillProtocol ----------------------------
(***************************************************************************)
(* What the database kill switch promises, with the calls, locks and       *)
(* clocks left out: the steps of a sequence are done one at a time and in  *)
(* order, a failed, completed or aborted sequence does nothing more, and   *)
(* a database is struck only at a nuke step reached with a verified        *)
(* snapshot.  KillSequence implements it as long as calls end in time and  *)
(* nobody aborts while a step is in flight.                                *)
(***************************************************************************)
EXTENDS Integers, Sequences

CONSTANT ActionLists

VARIABLES
    actions,    \* the action list the sequence was created with
    status,
    done,       \* how many steps are done
    verified,   \* some verify-snapshot step has succeeded
    struck      \* a nuke has reached a provider

vars == <<actions, status, done, verified, struck>>

Live     == {"running", "awaiting-confirmation"}
Terminal == {"completed", "failed", "aborted"}

Init ==
    /\ actions = <<>>
    /\ status = "absent"
    /\ done = 0
    /\ verified = FALSE
    /\ struck = FALSE

Create ==
    /\ status = "absent"
    /\ actions' \in ActionLists
    /\ status' = "running"
    /\ UNCHANGED <<done, verified, struck>>

(* The live sequence has a step left, and it is not a nuke that lacks a
   verified snapshot. *)
Ready == status \in Live /\ done < Len(actions)
Armed == Ready /\ actions[done + 1] = "nuke" /\ verified

DoStep ==
    /\ Ready
    /\ actions[done + 1] = "nuke" => verified
    /\ done' = done + 1
    /\ verified' = IF actions[done + 1] = "verify-snapshot" THEN TRUE ELSE verified
    /\ status' = IF done + 1 = Len(actions) THEN "completed" ELSE status
    /\ UNCHANGED <<actions, struck>>

Strike ==
    /\ Armed
    /\ struck' = TRUE
    /\ UNCHANGED <<actions, status, done, verified>>

AskHuman ==
    /\ Armed
    /\ status' = "awaiting-confirmation"
    /\ UNCHANGED <<actions, done, verified, struck>>

Fail ==
    /\ Ready
    /\ status' = "failed"
    /\ UNCHANGED <<actions, done, verified, struck>>

Finish ==
    /\ status \in Live
    /\ done = Len(actions)
    /\ status' = "completed"
    /\ UNCHANGED <<actions, done, verified, struck>>

Abort ==
    /\ status \in Live \cup Terminal
    /\ status' = "aborted"
    /\ UNCHANGED <<actions, done, verified, struck>>

Forget ==
    /\ status \in Terminal
    /\ status' = "gone"
    /\ UNCHANGED <<actions, done, verified, struck>>

Next == Create \/ DoStep \/ Strike \/ AskHuman \/ Fail \/ Finish \/ Abort \/ Forget

Spec == Init /\ [][Next]_vars
=============================================================================
