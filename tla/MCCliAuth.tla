----------------------------- MODULE MCCliAuth -----------------------------
(* CliAuth on small instances.  Ttl and Interval are in ticks of one clock. *)
EXTENDS CliAuth, TLC

Symmetry == Permutations(Approvals) \cup Permutations(Handlers) \cup Permutations(KeyIds)
=============================================================================
