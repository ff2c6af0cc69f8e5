-------------------------- MODULE RecentDecisions --------------------------
(* What a recorder of decisions promises each process: the last Capacity   *)
(* decisions it recorded since it started, newest first.                   *)
EXTENDS Sequences, Integers

CONSTANTS Processes, Capacity, Decisions

VARIABLES
    recent,         \* recent[p]: what p remembers, newest first
    latest          \* latest[p]: p's last decision, 0 if it has none

Newest(seq) == SubSeq(seq, 1, IF Len(seq) < Capacity THEN Len(seq) ELSE Capacity)

InitRecent ==
    /\ recent = [p \in Processes |-> <<>>]
    /\ latest = [p \in Processes |-> 0]

Remember(p, d) ==
    /\ recent' = [recent EXCEPT ![p] = Newest(<<d>> \o @)]
    /\ latest' = [latest EXCEPT ![p] = d]

\* The process starts again.
Forget(p) ==
    /\ recent' = [recent EXCEPT ![p] = <<>>]
    /\ latest' = [latest EXCEPT ![p] = 0]

NextRecent == \E p \in Processes : Forget(p) \/ \E d \in Decisions : Remember(p, d)

SpecRecent == InitRecent /\ [][NextRecent]_<<recent, latest>>
============================================================================
