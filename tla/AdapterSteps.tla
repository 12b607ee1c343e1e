----------------------------- MODULE AdapterSteps -----------------------------
(***************************************************************************)
(* What the provider adapters of packages/api/src/providers and the two    *)
(* edge functions (packages/kill-switch-gcp, packages/kill-switch-aws) are *)
(* made of: requests to a provider, and what the code does when one is     *)
(* refused (an answer that is not ok, an SDK exception) or lost (the       *)
(* network gives out; the provider may or may not have done it).           *)
(* A target is one resource of a customer.  Its parts are the levers the   *)
(* adapters pull, its data, and the resource itself.                       *)
(***************************************************************************)
EXTENDS Integers, Sequences

(* What the code does after a request: go on, end with success TRUE or     *)
(* FALSE, let the exception out, or skip the request that depends on it.   *)
Handlers == {"next", "true", "false", "throw", "skip"}

Step(of, removes, refused, lost) ==
    [does |-> "act", of |-> of, removes |-> removes, ok |-> "next",
     auth |-> refused, refused |-> refused, lost |-> lost]

Must(of, removes)  == Step(of, removes, "throw", "throw")   \* nothing is caught
Fail(of, removes)  == Step(of, removes, "false", "false")   \* catch -> success: false
Asks(of, removes)  == Step(of, removes, "false", "throw")   \* success: res.ok
Try(of, removes)   == Step(of, removes, "next", "next")     \* best effort
Last(step)         == [step EXCEPT !.ok = "true"]

(* A listing, and one request (or a single batch) for what it listed. *)
Listing(parts, refused, lost) ==
    [Step({}, parts, refused, lost) EXCEPT !.does = "list"]
Each(parts, refused, lost)    ==
    [Step({}, parts, refused, lost) EXCEPT !.does = "each"]
Batch(parts, refused, lost)   ==
    [Step({}, parts, refused, lost) EXCEPT !.does = "batch"]

(* A usage query carries the metrics of some kinds of target. *)
Query(carries, auth, refused, lost) ==
    [does |-> "query", of |-> carries, removes |-> {}, ok |-> "next",
     auth |-> auth, refused |-> refused, lost |-> lost]
(* A query whose failure only sends a cheap probe, as the LLM adapters do. *)
Or(query) == [query EXCEPT !.ok = "skip"]

(* What executeKillSwitch returns when its requests are through. *)
Program(steps, says) == [steps |-> steps, says |-> says]
Runs(steps)          == Program(steps, "always")
Counts(steps)        == Program(steps, "some")   \* cancelled > 0 || nothing listed
Unsupported          == Program(<<>>, "never")
Effect(program)      == UNION {program.steps[i].removes : i \in DOMAIN program.steps}
===============================================================================
