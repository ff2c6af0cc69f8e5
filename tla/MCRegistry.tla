----------------------------- MODULE MCRegistry -----------------------------
(* Two releases that differ in numeric and in string order, an alias and a *)
(* variant of one of them, and two tags that are no versions.              *)
EXTENDS Registry, SequencesExt

CONSTANTS v1_9, v1_9_0, v1_10, v1_10_musl, latest, edge

V(nums, suffix) == [nums |-> nums, suffix |-> suffix]

MCVersion ==
    [t \in Tags |->
        CASE t = v1_9 -> V(<<1, 9>>, 0)
          [] t = v1_9_0 -> V(<<1, 9, 0>>, 0)
          [] t = v1_10 -> V(<<1, 10>>, 0)
          [] t = v1_10_musl -> V(<<1, 10>>, 1)
          [] OTHER -> NotVersion]

MCAnswers == SeqOf(Tags, 3)

MCSchemes == <<"https", "http">>

=============================================================================
