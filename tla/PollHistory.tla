---------------------------- MODULE PollHistory ----------------------------
(***************************************************************************)
(* PollLoop watched from outside: when the model last answered about each  *)
(* incident, and what the current poll was given and did.  The variables   *)
(* only observe; they never restrict a step.                               *)
(***************************************************************************)
EXTENDS PollLoop

VARIABLES
    answeredAt,     \* answeredAt[s]: instant the last answer counts from, or Never
    unsure,         \* unsure[s]: Redis failed to keep or to tell s's window since
    listed,         \* event versions the current poll was given
    calls           \* calls of the model the current poll made

hvars == <<vars, answeredAt, unsure, listed, calls>>

Never == -1

InitHistory ==
    /\ Init
    /\ answeredAt = [s \in Signals |-> Never]
    /\ unsure = [s \in Signals |-> FALSE]
    /\ listed = {} /\ calls = 0

\* The answer is about to be carried out, or is set aside as noise.
Answers(s) ==
    /\ signal = s
    /\ \/ pc = "mark" /\ pc' = "exec"
       \/ /\ pc = "decide" /\ pc' = "scan"
          /\ \E severity \in Severities, action \in Actions, end \in Endings :
                DecideSkips(severity, action, end)

Asks(s) == pc = "breaker" /\ pc' = "decide" /\ signal = s

Errs == failures' # failures

\* A process that keeps its tables in memory starts or ends.
Forgets == restarts' # restarts /\ "memory" \in {backend, backend'}

\* Redis counts a window from the instant of the call; the memory store from
\* the instant the poll read its clock.
CountsFrom == IF backend = "redis" THEN clock ELSE now

Observe ==
    /\ answeredAt' = [s \in Signals |-> IF Forgets THEN Never
                                        ELSE IF Answers(s) THEN CountsFrom
                                        ELSE answeredAt[s]]
    /\ unsure' = [s \in Signals |->
                    IF Answers(s) THEN Errs
                    ELSE unsure[s] \/ (pc = "window" /\ signal' = s /\ Errs)]
    /\ IF pc = "list" THEN listed' = pending' /\ calls' = 0
       ELSE /\ listed' = IF pc' = "idle" THEN {} ELSE listed
            /\ calls' = IF pc' = "idle" THEN 0
                        ELSE IF pc' = "decide" /\ pc # "decide" THEN calls + 1 ELSE calls

NextHistory == Next /\ Observe

SpecHistory == InitHistory /\ [][NextHistory]_hvars

-----------------------------------------------------------------------------
\* Once the model has answered about a signal it is not asked about that
\* signal again for DEDUPE_TTL_SECONDS of the wall clock, through crashes and
\* restarts; the memory store counts from the start of the poll and forgets
\* with its process, and Redis must not have failed on that window.
OneCallPerWindow ==
    [][\A s \in Signals :
          Asks(s) /\ answeredAt[s] # Never /\ ~unsure[s] =>
              clock - answeredAt[s] >= DedupeTTL]_hvars

\* A poll that ends has looked at every in-scope event version it was given,
\* now or before, unless it has itself made MAX_EVENTS_PER_POLL calls or has
\* less time left than a call needs: what earlier polls spent, failing calls of
\* the model or of Redis and parked signals are no reason to leave any behind.
PollsDoTheirShare ==
    [][/\ pc \notin {"idle", "list"} /\ pc' = "idle" /\ restarts' = restarts
       => \/ \A ev \in listed : ev[1] \in InScope => ev \in handled
          \/ MaxEventsPerPoll > 0 /\ calls >= MaxEventsPerPoll
          \/ BudgetExhausted]_hvars

=============================================================================
