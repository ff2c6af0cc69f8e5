----------------------------- MODULE MCPollLoop -----------------------------
(***************************************************************************)
(* Instances of PollLoop for TLC.  In PollMemory.cfg one incident and an   *)
(* event outside the configured namespaces; in PollRedis.cfg two pods of   *)
(* one workload, whose events resolve to the same signal and are otherwise *)
(* interchangeable.                                                        *)
(***************************************************************************)
EXTENDS PollLoop, TLC

CONSTANTS e1, e2, k1

MCSignalsOf == [e \in Events |-> {k1}]

EventSymmetry == Permutations(Events)

=============================================================================
