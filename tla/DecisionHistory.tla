-------------------------- MODULE DecisionHistory --------------------------
(***************************************************************************)
(* The recorder behind the dashboard's list of recent decisions: a ring    *)
(* buffer in each process and, if Redis answered when the process started, *)
(* a capped list in Redis they share.  A decision is its number in the     *)
(* order in which decisions were recorded.                                 *)
(***************************************************************************)
EXTENDS Integers, Sequences, FiniteSets

CONSTANTS
    Processes,
    Capacity,
    Mirrored,       \* DEDUP_BACKEND is redis
    MaxDecisions    \* how many decisions are recorded

ASSUME HistoryAssumption ==
    /\ IsFiniteSet(Processes)
    /\ Capacity \in Nat \ {0}
    /\ Mirrored \in BOOLEAN
    /\ MaxDecisions \in Nat

VARIABLES
    buf, next, full,    \* the ring of each process
    attached,       \* processes with a Redis client
    pc,             \* pc[p]: "idle", or the Redis command of Record to come
    up,             \* Redis answers
    list,           \* the Redis list, newest first
    count,          \* history: number of decisions recorded
    latest,         \* history: latest[p]: what Record was last called with
    returned,       \* history: decisions whose Record has returned
    lost            \* history: decisions that did not get to Redis

hvars == <<buf, next, full, attached, pc, up, list, count, latest, returned, lost>>

Slots == 0 .. Capacity - 1

Init ==
    /\ buf = [p \in Processes |-> [i \in Slots |-> 0]]
    /\ next = [p \in Processes |-> 0]
    /\ full = [p \in Processes |-> FALSE]
    /\ attached = IF Mirrored THEN Processes ELSE {}
    /\ pc = [p \in Processes |-> "idle"]
    /\ up = TRUE
    /\ list = <<>>
    /\ count = 0
    /\ latest = [p \in Processes |-> 0]
    /\ returned = {} /\ lost = {}

-----------------------------------------------------------------------------
(* The process and Redis                                                   *)

\* The process ends at any point of Record and is started again; it has no
\* client if Redis does not answer then.
Restart(p) ==
    /\ buf' = [buf EXCEPT ![p] = [i \in Slots |-> 0]]
    /\ next' = [next EXCEPT ![p] = 0]
    /\ full' = [full EXCEPT ![p] = FALSE]
    /\ attached' = IF Mirrored /\ up THEN attached \union {p} ELSE attached \ {p}
    /\ pc' = [pc EXCEPT ![p] = "idle"]
    /\ latest' = [latest EXCEPT ![p] = 0]
    /\ UNCHANGED <<up, list, count, returned, lost>>

Fail ==
    /\ up /\ up' = FALSE
    /\ UNCHANGED <<buf, next, full, attached, pc, list, count, latest, returned, lost>>

Recover ==
    /\ ~up /\ up' = TRUE
    /\ UNCHANGED <<buf, next, full, attached, pc, list, count, latest, returned, lost>>

-----------------------------------------------------------------------------
(* Record                                                                  *)

\* Bug form: nothing says that the ring has wrapped.
WriteSlotForgetting(p, d) ==
    /\ buf' = [buf EXCEPT ![p][next[p]] = d]
    /\ next' = [next EXCEPT ![p] = (@ + 1) % Capacity]
    /\ full' = full

\* Bug form: the next slot does not wrap.
WriteSlotBeyond(p, d) ==
    /\ buf' = [buf EXCEPT ![p][next[p]] = d]
    /\ next' = [next EXCEPT ![p] = @ + 1]
    /\ full' = [full EXCEPT ![p] = @ \/ next[p] + 1 = Capacity]

\* The part under the mutex.
WriteSlot(p, d) ==
    /\ buf' = [buf EXCEPT ![p][next[p]] = d]
    /\ next' = [next EXCEPT ![p] = (@ + 1) % Capacity]
    /\ full' = [full EXCEPT ![p] = @ \/ next[p] + 1 = Capacity]

Record(p) ==
    /\ pc[p] = "idle" /\ count < MaxDecisions
    /\ WriteSlot(p, count + 1)
    /\ pc' = [pc EXCEPT ![p] = IF p \in attached THEN "push" ELSE "return"]
    /\ count' = count + 1
    /\ latest' = [latest EXCEPT ![p] = count + 1]
    /\ lost' = IF p \in attached THEN lost ELSE lost \union {count + 1}
    /\ UNCHANGED <<attached, up, list, returned>>

LPush(p) ==
    /\ pc[p] = "push" /\ up
    /\ list' = <<latest[p]>> \o list
    /\ pc' = [pc EXCEPT ![p] = "trim"]
    /\ UNCHANGED <<buf, next, full, attached, up, count, latest, returned, lost>>

Newest(seq) == SubSeq(seq, 1, IF Len(seq) < Capacity THEN Len(seq) ELSE Capacity)

\* Bug form: the end of LTRIM is taken for a length.
LTrimShort(p) ==
    /\ pc[p] = "trim" /\ up
    /\ list' = IF Len(list) < Capacity THEN list ELSE SubSeq(list, 1, Capacity - 1)
    /\ pc' = [pc EXCEPT ![p] = "return"]
    /\ UNCHANGED <<buf, next, full, attached, up, count, latest, returned, lost>>

LTrim(p) ==
    /\ pc[p] = "trim" /\ up
    /\ list' = Newest(list)
    /\ pc' = [pc EXCEPT ![p] = "return"]
    /\ UNCHANGED <<buf, next, full, attached, up, count, latest, returned, lost>>

\* The rest of the pipeline is lost, which is logged and forgotten.
PipelineFails(p) ==
    /\ pc[p] \in {"push", "trim"} /\ ~up
    /\ pc' = [pc EXCEPT ![p] = "return"]
    /\ lost' = IF pc[p] = "push" THEN lost \union {latest[p]} ELSE lost
    /\ UNCHANGED <<buf, next, full, attached, up, list, count, latest, returned>>

Return(p) ==
    /\ pc[p] = "return"
    /\ pc' = [pc EXCEPT ![p] = "idle"]
    /\ returned' = returned \union {latest[p]}
    /\ UNCHANGED <<buf, next, full, attached, up, list, count, latest, lost>>

Next ==
    \/ Fail \/ Recover
    \/ \E p \in Processes :
          \/ Restart(p)
          \/ Record(p) \/ LPush(p) \/ LTrim(p) \/ PipelineFails(p) \/ Return(p)

Spec == Init /\ [][Next]_hvars

-----------------------------------------------------------------------------
(* Snapshot                                                                *)

\* The ring read backwards from the slot to write next.
Ring(p) ==
    [i \in 1 .. (IF full[p] THEN Capacity ELSE next[p]) |->
        buf[p][(next[p] - i + Capacity) % Capacity]]

\* The list if Redis has one, the ring otherwise.
Snapshot(p) ==
    IF p \in attached /\ up /\ list # <<>> THEN Newest(list) ELSE Ring(p)

Shown(p) == {Snapshot(p)[i] : i \in DOMAIN Snapshot(p)}

-----------------------------------------------------------------------------
(* Properties                                                              *)

TypeOK ==
    /\ buf \in [Processes -> [Slots -> Nat]]
    /\ next \in [Processes -> Slots]
    /\ full \in [Processes -> BOOLEAN]
    /\ attached \subseteq Processes
    /\ pc \in [Processes -> {"idle", "push", "trim", "return"}]
    /\ up \in BOOLEAN
    /\ list \in Seq(1 .. count)
    /\ count \in Nat
    /\ latest \in [Processes -> Nat]
    /\ returned \subseteq 1 .. count /\ lost \subseteq 1 .. count

\* The ring arithmetic: read backwards from the next slot, the ring of every
\* process is its last Capacity decisions, newest first.
Recent == INSTANCE RecentDecisions
              WITH recent <- [p \in Processes |-> Ring(p)],
                   Decisions <- 1 .. MaxDecisions

ImplementsRecent == Recent!SpecRecent

\* "Includes decisions recorded before the last pod restart": while Redis
\* answers, every replica with a client shows every decision that got to Redis,
\* by whatever process and after whatever outage, unless Capacity later ones
\* push it out.  A decision of another replica may be pushed out of turn, one
\* for each replica that overlaps.
NothingMissing ==
    up => \A p \in attached, d \in returned \ lost :
             d > count - Capacity + (Cardinality(Processes) - 1) => d \in Shown(p)

=============================================================================
