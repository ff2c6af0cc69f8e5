------------------------------ MODULE AgentHA ------------------------------
(***************************************************************************)
(* Several replicas of the agent, the lease that elects one of them        *)
(* (RunOrDie in main) and the Redis store they share, which may be out of  *)
(* reach: the loop of PollLoop reduced to the order of its store calls,    *)
(* each of them one step here.  Keys expire at any time.  A process that   *)
(* starts while Redis is out of reach keeps a memory of its own to its     *)
(* end; what that memory says of anything is left open.                    *)
(***************************************************************************)
EXTENDS Integers, FiniteSets

CONSTANTS
    Replicas,
    Versions,               \* event versions every poll lists
    Signals,
    SignalOf,               \* the signal of each version
    SignalMaxAttempts,
    NoReplica, NoVersion,
    MaxCount                \* where the checked counters stop counting

ASSUME HAAssumption ==
    /\ SignalOf \in [Versions -> Signals]
    /\ SignalMaxAttempts \in Nat \ {0}
    /\ IsFiniteSet(Replicas)
    /\ NoReplica \notin Replicas /\ NoVersion \notin Versions
    /\ MaxCount \in Nat

VARIABLES
    holder,         \* holder of the lease
    mode,           \* mode[r]: "standby", "leading" or "stopping"
    pc,             \* pc[r]: the next store call of r's loop, "idle" between events
    current,        \* current[r]: the version in r's hands
    up,             \* Redis answers
    seen, window, attempts,     \* its keys
    local,          \* local[r]: the process of r uses a memory of its own
    failed,         \* history: Redis has been out of reach
    told,           \* history: versions Redis called new, until they expire
    acts            \* history: acts[s]: decisions taken up in s's window, counted
                    \* until Redis fails

lease == <<holder, mode>>
redis == <<seen, window, attempts>>
vars  == <<lease, pc, current, up, redis, failed, local, told, acts>>

Init ==
    /\ holder = NoReplica
    /\ mode = [r \in Replicas |-> "standby"]
    /\ pc = [r \in Replicas |-> "idle"]
    /\ current = [r \in Replicas |-> NoVersion]
    /\ up = TRUE
    /\ seen = {} /\ window = {}
    /\ attempts = [s \in Signals |-> 0]
    /\ local = [r \in Replicas |-> FALSE]
    /\ failed = FALSE /\ told = {}
    /\ acts = [s \in Signals |-> 0]

-----------------------------------------------------------------------------
(* The lease                                                               *)

Acquire(r) ==
    /\ mode[r] = "standby" /\ holder \in {NoReplica, r}
    /\ holder' = r
    /\ mode' = [mode EXCEPT ![r] = "leading"]
    /\ UNCHANGED <<pc, current, up, redis, failed, local, told, acts>>

\* A holder that crashed, paused or lost the API server does not renew.
Expire ==
    /\ holder # NoReplica
    /\ holder' = NoReplica
    /\ UNCHANGED <<mode, pc, current, up, redis, failed, local, told, acts>>

\* The renewal finds out, and RunOrDie returns.
LoseLease(r) ==
    /\ mode[r] = "leading" /\ holder # r
    /\ mode' = [mode EXCEPT ![r] = "stopping"]
    /\ UNCHANGED <<holder, pc, current, up, redis, failed, local, told, acts>>

\* SIGTERM: the lease is released (ReleaseOnCancel), the loop is told later.
Release(r) ==
    /\ mode[r] = "leading" /\ holder = r
    /\ holder' = NoReplica
    /\ mode' = [mode EXCEPT ![r] = "stopping"]
    /\ UNCHANGED <<pc, current, up, redis, failed, local, told, acts>>

\* Bug form: the next process goes on with the event of the last one.
ExitKeepingEvent(r) ==
    /\ mode' = [mode EXCEPT ![r] = "standby"]
    /\ pc' = [pc EXCEPT ![r] = "idle"]
    /\ local' = [local EXCEPT ![r] = ~up]
    /\ UNCHANGED <<holder, current, up, redis, failed, told, acts>>

\* The process ends, whatever its loop was doing, and is started again: its
\* store is Redis if Redis answers the PING, its own memory otherwise.
Exit(r) ==
    /\ mode' = [mode EXCEPT ![r] = "standby"]
    /\ pc' = [pc EXCEPT ![r] = "idle"]
    /\ current' = [current EXCEPT ![r] = NoVersion]
    /\ local' = [local EXCEPT ![r] = ~up]
    /\ UNCHANGED <<holder, up, redis, failed, told, acts>>

-----------------------------------------------------------------------------
(* Redis                                                                   *)

Fail ==
    /\ up
    /\ up' = FALSE /\ failed' = TRUE
    /\ acts' = [s \in Signals |-> 0]
    /\ UNCHANGED <<lease, pc, current, redis, local, told>>

Recover ==
    /\ ~up
    /\ up' = TRUE
    /\ UNCHANGED <<lease, pc, current, redis, failed, local, told, acts>>

\* Redis answers what r asks it.
Reached(r) == up /\ ~local[r]

\* A command that Redis does not answer has had its effect or has not.
Sent(r, key, applied) ==
    \/ ~local[r] /\ key' = applied
    \/ ~Reached(r) /\ key' = key

\* What r may be told of a fact: no, while Redis does not answer (every call
\* fails open), and anything by a memory of its own.
Says(r, fact) == IF local[r] THEN BOOLEAN ELSE {up /\ fact}

SeenExpires(v) ==
    /\ v \in seen
    /\ seen' = seen \ {v} /\ told' = told \ {v}
    /\ UNCHANGED <<lease, pc, current, up, window, attempts, failed, local, acts>>

WindowExpires(s) ==
    /\ s \in window
    /\ window' = window \ {s}
    /\ acts' = [acts EXCEPT ![s] = 0]
    /\ UNCHANGED <<lease, pc, current, up, seen, attempts, failed, local, told>>

AttemptsExpire(s) ==
    /\ attempts[s] > 0
    /\ attempts' = [attempts EXCEPT ![s] = 0]
    /\ UNCHANGED <<lease, pc, current, up, seen, window, failed, local, told, acts>>

-----------------------------------------------------------------------------
(* One event, one store call at a time.                                    *)

Goto(r, next) ==
    /\ pc' = [pc EXCEPT ![r] = next]
    /\ current' = IF next = "idle" THEN [current EXCEPT ![r] = NoVersion] ELSE current

OneMore(n) == IF n < MaxCount THEN n + 1 ELSE n

Signal(r) == SignalOf[current[r]]

Runs(r) == mode[r] \in {"leading", "stopping"}

Pick(r, v) ==
    /\ Runs(r) /\ pc[r] = "idle"
    /\ pc' = [pc EXCEPT ![r] = "mark_seen"]
    /\ current' = [current EXCEPT ![r] = v]
    /\ UNCHANGED <<lease, up, redis, failed, local, told, acts>>

\* Bug form: the key is looked up here and written with the signal.
MarkSeenLater(r) ==
    /\ pc[r] = "mark_seen"
    /\ FALSE \in Says(r, current[r] \in seen)
    /\ told' = IF Reached(r) THEN told \union {current[r]} ELSE told
    /\ Goto(r, "is_fresh")
    /\ UNCHANGED <<lease, up, redis, failed, local, acts>>

\* Bug form: an event Redis cannot tell about is left for the next poll.
MarkSeenFailingClosed(r) ==
    /\ pc[r] = "mark_seen"
    /\ FALSE \in Says(r, current[r] \in seen)
    /\ Sent(r, seen, seen \union {current[r]})
    /\ told' = IF Reached(r) THEN told \union {current[r]} ELSE told
    /\ Goto(r, IF up \/ local[r] THEN "is_fresh" ELSE "idle")
    /\ UNCHANGED <<lease, up, window, attempts, failed, local, acts>>

\* SET NX: the version is new, or Redis does not say.
MarkSeen(r) ==
    /\ pc[r] = "mark_seen"
    /\ FALSE \in Says(r, current[r] \in seen)
    /\ Sent(r, seen, seen \union {current[r]})
    /\ told' = IF Reached(r) THEN told \union {current[r]} ELSE told
    /\ Goto(r, "is_fresh")
    /\ UNCHANGED <<lease, up, window, attempts, failed, local, acts>>

SkipSeen(r) ==
    /\ pc[r] = "mark_seen"
    /\ TRUE \in Says(r, current[r] \in seen)
    /\ Goto(r, "idle")
    /\ UNCHANGED <<lease, up, redis, failed, local, told, acts>>

IsSignalFresh(r) ==
    /\ pc[r] = "is_fresh"
    /\ \E fresh \in Says(r, Signal(r) \in window) :
          Goto(r, IF fresh THEN "idle" ELSE "attempts")
    /\ UNCHANGED <<lease, up, redis, failed, local, told, acts>>

\* Bug form: the breaker is looked at once the counter is past the limit.
AttemptsTooLate(r) ==
    /\ pc[r] = "attempts"
    /\ \E open \in Says(r, attempts[Signal(r)] > SignalMaxAttempts) :
          Goto(r, IF open THEN "park" ELSE "decide")
    /\ UNCHANGED <<lease, up, redis, failed, local, told, acts>>

Attempts(r) ==
    /\ pc[r] = "attempts"
    /\ \E open \in Says(r, attempts[Signal(r)] >= SignalMaxAttempts) :
          Goto(r, IF open THEN "park" ELSE "decide")
    /\ UNCHANGED <<lease, up, redis, failed, local, told, acts>>

\* The model fails or its decision is below MIN_SEVERITY, or it is carried out.
Decide(r) ==
    /\ pc[r] = "decide"
    /\ \E next \in {"idle", "park", "incr"} : Goto(r, next)
    /\ UNCHANGED <<lease, up, redis, failed, local, told, acts>>

\* INCR and EXPIRE.
IncrAttempt(r) ==
    /\ pc[r] = "incr"
    /\ Sent(r, attempts, [attempts EXCEPT ![Signal(r)] = OneMore(@)])
    /\ Goto(r, "mark_signal")
    /\ UNCHANGED <<lease, up, seen, window, failed, local, told, acts>>

\* Bug form: the signal is marked once the action is done.
MarkSignalAfterwards(r) ==
    /\ pc[r] \in {"park", "mark_signal"}
    /\ acts' = [acts EXCEPT ![Signal(r)] = IF pc[r] = "park" \/ failed THEN @ ELSE OneMore(@)]
    /\ Goto(r, IF pc[r] = "park" THEN "idle" ELSE "execute")
    /\ UNCHANGED <<lease, up, redis, failed, local, told>>

\* A parked signal and a skipped decision end here, others are executed.
MarkSignal(r) ==
    /\ pc[r] \in {"park", "mark_signal"}
    /\ Sent(r, window, window \union {Signal(r)})
    /\ acts' = [acts EXCEPT ![Signal(r)] = IF pc[r] = "park" \/ failed THEN @ ELSE OneMore(@)]
    /\ Goto(r, IF pc[r] = "park" THEN "idle" ELSE "execute")
    /\ UNCHANGED <<lease, up, seen, attempts, failed, local, told>>

Execute(r) ==
    /\ pc[r] = "execute"
    /\ Goto(r, "idle")
    /\ UNCHANGED <<lease, up, redis, failed, local, told, acts>>

Step(r) ==
    \/ \E v \in Versions : Pick(r, v)
    \/ MarkSeen(r) \/ SkipSeen(r) \/ IsSignalFresh(r) \/ Attempts(r)
    \/ Decide(r) \/ IncrAttempt(r) \/ MarkSignal(r) \/ Execute(r)

Next ==
    \/ Expire \/ Fail \/ Recover
    \/ \E v \in Versions : SeenExpires(v)
    \/ \E s \in Signals : WindowExpires(s) \/ AttemptsExpire(s)
    \/ \E r \in Replicas :
          \/ Acquire(r) \/ LoseLease(r) \/ Release(r) \/ Exit(r)
          \/ Step(r)

Spec == Init /\ [][Next]_vars

\* The goroutine of a running loop is scheduled.
FairSpec == Spec /\ \A r \in Replicas : WF_vars(Step(r))

-----------------------------------------------------------------------------
(* Properties                                                              *)

TypeOK ==
    /\ holder \in Replicas \union {NoReplica}
    /\ mode \in [Replicas -> {"standby", "leading", "stopping"}]
    /\ pc \in [Replicas -> {"idle", "mark_seen", "is_fresh", "attempts", "decide",
                            "park", "incr", "mark_signal", "execute"}]
    /\ current \in [Replicas -> Versions \union {NoVersion}]
    /\ \A r \in Replicas : pc[r] = "idle" <=> current[r] = NoVersion
    /\ up \in BOOLEAN
    /\ seen \subseteq Versions /\ window \subseteq Signals
    /\ failed \in BOOLEAN /\ told \subseteq Versions
    /\ local \in [Replicas -> BOOLEAN]
    /\ ~failed => up /\ \A r \in Replicas : ~local[r]
    /\ attempts \in [Signals -> Nat] /\ acts \in [Signals -> Nat]

IsTold(r) == Reached(r) /\ pc[r] = "mark_seen" /\ pc'[r] = "is_fresh"

\* "Concurrent agents never both observe fresh=true for the same key": Redis
\* calls a version new once in EVENT_SEEN_TTL_SECONDS, whoever leads, however
\* often a replica ends in the middle of it and whatever answers were lost.
NewOnlyOnce == [][\A r \in Replicas : IsTold(r) => current[r] \notin told]_vars

\* Replicas that overlap may each count one attempt past the limit they all
\* looked at before, and no more, until Redis fails.
AttemptsBounded ==
    ~failed => \A s \in Signals :
                  attempts[s] <= SignalMaxAttempts + Cardinality(Replicas) - 1

\* Under one window each replica takes up at most one decision, on a check it
\* made before the window was opened, until Redis fails.
DecisionsPerWindow ==
    ~failed => \A s \in Signals : acts[s] <= Cardinality(Replicas)

\* "Never blocks remediation": an event that comes up while Redis is out of
\* reach gets to the model unless Redis returns or the replica ends. (A memory
\* of its own that the replica fell back to may know the event.)
OutageNeverBlocks ==
    \A r \in Replicas :
        pc[r] = "mark_seen" /\ ~up /\ ~local[r]
            ~> pc[r] = "decide" \/ up \/ mode[r] = "standby"

=============================================================================
