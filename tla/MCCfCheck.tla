------------------------------- MODULE MCCfCheck -------------------------------
(* CfCheck for a worker that deletes, three that disconnect and one that    *)
(* must not.                                                                *)
EXTENDS CfCheck

Conf(delete, kvBound, to, spare, has) ==
    [autoDelete |-> delete, autoDisconnect |-> TRUE, kv |-> kvBound, to |-> to, spare |-> spare, has |-> has]
MCConfs == {Conf(TRUE, TRUE, {"hooks"}, {}, {"api", "llama3"}),
            Conf(FALSE, TRUE, {"pager", "hooks"}, {}, {"api", "llama3"}),
            Conf(FALSE, FALSE, {"hooks"}, {}, {"api"}),
            Conf(TRUE, TRUE, {"hooks"}, {"api"}, {"api"}),
            Conf(FALSE, TRUE, {"hooks"}, {}, {"llama3", "llama4"})}
(* A script, and two models that differ by a digit. *)
MCDataSet == [api |-> "do", llama3 |-> "ai", llama4 |-> "ai"]
MCPlain   == [api |-> "api", llama3 |-> "llama#", llama4 |-> "llama#"]
===============================================================================
