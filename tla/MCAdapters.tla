------------------------------ MODULE MCAdapters ------------------------------
(* Every kind of resource, the settings that matter of its account, and the actions   *)
(* that are not the default of some provider.                              *)
EXTENDS Adapters

Setting(delete, all, role) == [auto |-> TRUE, delete |-> delete, all |-> all, role |-> role]
SomeConfigs ==      \* the defaults, every category, deletion, an AWS role
    {Setting(FALSE, FALSE, FALSE), Setting(FALSE, TRUE, FALSE), Setting(TRUE, TRUE, FALSE),
     Setting(FALSE, TRUE, TRUE)}
===============================================================================
