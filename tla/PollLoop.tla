------------------------------ MODULE PollLoop ------------------------------
(***************************************************************************)
(* The remediation loop of one agent process: runLoopWithStore of          *)
(* cmd/agent/main.go against one of the two deduplication stores, with the *)
(* cluster that emits Warning events, the clock, a SIGTERM that cancels    *)
(* the loop's context and a crash at any point around it.                  *)
(*                                                                         *)
(* One poll is a sequence of steps, each with at most one call of the      *)
(* store: list and evict; then for each event mark it seen, look at its    *)
(* signal's window, read its attempts, park it or call the model, count    *)
(* the attempt, open the window, execute.  Between two steps the clock may *)
(* advance, events may be updated and the process may be cancelled or      *)
(* crash.  Any call of Redis may fail, and a process that does not reach   *)
(* Redis when it starts keeps its own tables in memory for its whole life. *)
(* An event object is known by its versions 1, 2, ... (resourceVersion).   *)
(***************************************************************************)
EXTENDS Integers, FiniteSets, DedupStore

CONSTANTS
    Backend,                \* DEDUP_BACKEND
    Events,                 \* Warning event objects of the cluster
    InScope,                \* those whose namespace passes the filters
    Signals,                \* dedup keys (namespace|kind|name|reason)
    SignalsOf,              \* SignalsOf[e]: keys that e may resolve to
    Actions,                \* actions the model may answer with
    MinSeverity,            \* MIN_SEVERITY
    DedupeTTL,              \* DEDUPE_TTL_SECONDS
    EventSeenTTL,           \* EVENT_SEEN_TTL_SECONDS
    SignalMaxAttempts,      \* SIGNAL_MAX_ATTEMPTS, 0 = breaker disabled
    MaxEventsPerPoll,       \* MAX_EVENTS_PER_POLL, 0 = no cap
    OllamaHTTPTimeout,      \* OLLAMA_HTTP_TIMEOUT_SECONDS
    PollContextTimeout,     \* POLL_CONTEXT_TIMEOUT_SECONDS
    CallMargin,             \* headroom the loop wants around one call (15s)
    TimeoutGrace,           \* what LoadFromEnv adds to a short timeout (60s)
    NoSignal,
    MaxClock, MaxVersion, MaxRestarts,  \* bounds of the checked behaviours
    MaxFailures                         \* and of the failing calls of Redis

Severities == {"info", "low", "medium", "high", "critical"}

OperatorGated ==
    {"patch_probe", "patch_resources", "patch_registry", "set_deployment_image"}

ASSUME ConfigAssumption ==
    /\ Backend \in Backends
    /\ DedupeTTL \in Nat \ {0}
    /\ EventSeenTTL \in Nat \ {0}
    /\ SignalMaxAttempts \in Nat
    /\ MaxEventsPerPoll \in Nat
    /\ OllamaHTTPTimeout \in Nat \ {0}
    /\ PollContextTimeout \in Int
    /\ CallMargin \in Nat
    /\ TimeoutGrace \in Nat \ {0}
    /\ MinSeverity \in Severities

ASSUME ClusterAssumption ==
    /\ InScope \subseteq Events
    /\ SignalsOf \in [Events -> SUBSET Signals]
    /\ NoSignal \notin Signals
    /\ MaxClock \in Nat
    /\ MaxVersion \in Nat \ {0}
    /\ MaxRestarts \in Nat
    /\ MaxFailures \in Nat

Versions      == 1 .. MaxVersion
EventVersions == Events \X Versions
NoEvent       == <<>>

Tables ==
    [seen         : [EventVersions -> Nat \union {NotSeen}],
     signalExpiry : [Signals -> Nat],
     attempts     : [Signals -> AttemptEntry]]

EmptyTables ==
    [seen         |-> [ev \in EventVersions |-> NotSeen],
     signalExpiry |-> [s \in Signals |-> 0],
     attempts     |-> [s \in Signals |-> NoAttempts]]

VARIABLES
    clock,          \* wall clock
    version,        \* version[e]: current version of event e, 0 = not there
    restarts,       \* restarts so far
    ctxDone,        \* the loop's context is cancelled
    backend,        \* the store this process got when it started
    kept,           \* what Redis keeps while a process does without it
    failures,       \* calls of Redis that failed so far
    pc,             \* where the loop is
    now,            \* instant the current poll read its clock
    deadline,       \* deadline of the current poll's context, 0 = no poll
    pending,        \* listed event versions the poll has not looked at yet
    processed,      \* model calls of the current poll
    current,        \* event version in hand
    signal,         \* its signal, once it is resolved
    tries,          \* attempts the store told of when it was asked last
    seen, signalExpiry, attempts,   \* the deduplication store
    handled         \* event versions the loop is done with, one way or another

world  == <<clock, version, restarts, ctxDone, backend, kept>>
poll   == <<now, deadline>>
inHand == <<current, signal, tries>>
store  == <<seen, signalExpiry, attempts>>
vars   == <<world, failures, pc, poll, pending, processed, inHand, store, handled>>

-----------------------------------------------------------------------------
(* Configuration and helpers                                               *)

AttemptWindow == 12 * DedupeTTL

\* LoadFromEnv makes the poll outlive one HTTP attempt.
PollTimeout ==
    IF PollContextTimeout <= OllamaHTTPTimeout
    THEN OllamaHTTPTimeout + TimeoutGrace
    ELSE PollContextTimeout

LlmCallBudget == OllamaHTTPTimeout + CallMargin

SeverityRank == [info |-> 0, low |-> 1, medium |-> 2, high |-> 3, critical |-> 4]

MeetsMinimum(severity) == SeverityRank[severity] >= SeverityRank[MinSeverity]

IsOperatorGated(action) == action \in OperatorGated

\* Bug form: the cap of the factor is forgotten for the fifth attempt on.
UncappedBackoffTTL(n) ==
    DedupeTTL * (IF n <= 1 THEN 1 ELSE IF n = 2 THEN 2 ELSE IF n = 3 THEN 4
                 ELSE IF n = 4 THEN 8 ELSE 16)

\* signalBackoffTTL: doubling from 1 while the factor is below 8.
SignalBackoffTTL(n) ==
    DedupeTTL * (IF n <= 1 THEN 1 ELSE IF n = 2 THEN 2 ELSE IF n = 3 THEN 4 ELSE 8)

\* Bug form: every backend trusts the instant the poll read.
PollNow == now

\* The instant store operations are evaluated at.
StoreNow == IF backend = "memory" THEN now ELSE clock

Breaker == SignalMaxAttempts > 0

\* Bug form: one attempt too many.
BreakerOpenTooLate(end) ==
    Breaker /\ SaysAttempts(backend, attempts, signal, StoreNow, end) > SignalMaxAttempts

\* What the loop concludes from the counter of the signal in hand.
BreakerOpen(end) ==
    Breaker /\ SaysAttempts(backend, attempts, signal, StoreNow, end) >= SignalMaxAttempts

CapReached == MaxEventsPerPoll > 0 /\ processed >= MaxEventsPerPoll

BudgetExhausted == deadline - clock < LlmCallBudget

\* A call on the poll's context can still succeed.
ContextAlive == ~ctxDone /\ clock < deadline

\* A call of the store ends one way or another; only Redis fails.
Call(end) ==
    /\ end = "done" \/ (backend = "redis" /\ failures < MaxFailures)
    /\ failures' = failures + (IF end = "done" THEN 0 ELSE 1)

NoCall == UNCHANGED failures

-----------------------------------------------------------------------------
\* The process starts with empty tables: Redis has none yet, or is not
\* reached and the process falls back to the memory store.
Init ==
    /\ clock = 0
    /\ version = [e \in Events |-> 0]
    /\ restarts = 0
    /\ ctxDone = FALSE
    /\ \/ backend = Backend /\ failures = 0
       \/ Backend = "redis" /\ MaxFailures > 0 /\ backend = "memory" /\ failures = 1
    /\ kept = EmptyTables
    /\ pc = "idle"
    /\ now = 0 /\ deadline = 0
    /\ pending = {}
    /\ processed = 0
    /\ current = NoEvent /\ signal = NoSignal /\ tries = 0
    /\ seen = EmptyTables.seen
    /\ signalExpiry = EmptyTables.signalExpiry
    /\ attempts = EmptyTables.attempts
    /\ handled = {}

-----------------------------------------------------------------------------
(* Environment                                                             *)

\* An incident fires: its event object is created or updated.
Emit(e) ==
    /\ version[e] < MaxVersion
    /\ version' = [version EXCEPT ![e] = @ + 1]
    /\ UNCHANGED <<clock, restarts, ctxDone, backend, kept, failures, pc, poll,
                   pending, processed, inHand, store, handled>>

\* Time passes; Redis expires its keys by itself.
Tick ==
    /\ clock < MaxClock
    /\ clock' = clock + 1
    /\ IF backend = "redis"
       THEN /\ seen' = EvictSeen(seen, clock', EventSeenTTL)
            /\ signalExpiry' = EvictSignals(signalExpiry, clock')
            /\ attempts' = EvictAttempts(backend, attempts, clock')
       ELSE UNCHANGED store
    /\ UNCHANGED <<version, restarts, ctxDone, backend, kept, failures, pc, poll,
                   pending, processed, inHand, handled>>

\* SIGTERM (or the loss of the lease) cancels the loop's context.
Cancel ==
    /\ ~ctxDone /\ restarts < MaxRestarts
    /\ ctxDone' = TRUE
    /\ UNCHANGED <<clock, version, restarts, backend, kept, failures, pc, poll,
                   pending, processed, inHand, store, handled>>

\* A new process finds Redis as the last one left it, but for the keys that
\* have expired since.
Reconnect ==
    /\ Backend = "redis" /\ backend' = "redis"
    /\ IF backend = "redis"
       THEN UNCHANGED <<store, kept>>
       ELSE /\ seen' = EvictSeen(kept.seen, clock, EventSeenTTL)
            /\ signalExpiry' = EvictSignals(kept.signalExpiry, clock)
            /\ attempts' = EvictAttempts("redis", kept.attempts, clock)
            /\ kept' = EmptyTables
    /\ NoCall

\* A new process starts with tables of its own: it is configured to, or it
\* does not reach Redis.
StartAfresh ==
    /\ backend' = "memory"
    /\ seen' = EmptyTables.seen
    /\ signalExpiry' = EmptyTables.signalExpiry
    /\ attempts' = EmptyTables.attempts
    /\ IF Backend = "memory"
       THEN NoCall
       ELSE failures < MaxFailures /\ failures' = failures + 1
    /\ kept' = IF backend = "redis"
               THEN [seen |-> seen, signalExpiry |-> signalExpiry, attempts |-> attempts]
               ELSE kept

\* A new process takes over; the event in hand is lost.
Restart ==
    /\ restarts < MaxRestarts
    /\ restarts' = restarts + 1
    /\ ctxDone' = FALSE
    /\ pc' = "idle"
    /\ now' = clock /\ deadline' = 0
    /\ pending' = {} /\ processed' = 0
    /\ current' = NoEvent /\ signal' = NoSignal /\ tries' = 0
    /\ handled' = handled \union ({current} \ {NoEvent})
    /\ Reconnect \/ StartAfresh
    /\ UNCHANGED <<clock, version>>

\* The loop leaves its select once it is cancelled.
Stop == pc = "idle" /\ ctxDone /\ Restart

Crash == ~(pc = "idle" /\ ctxDone) /\ Restart

-----------------------------------------------------------------------------
(* One poll                                                                *)

\* The ticker fires and the poll's context starts to run.  The select of the
\* loop may still pick the ticker after the context was cancelled.
BeginPoll ==
    /\ pc = "idle"
    /\ pc' = "list"
    /\ deadline' = clock + PollTimeout
    /\ UNCHANGED <<world, failures, now, pending, processed, inHand, store, handled>>

LeavePoll ==
    /\ pc' = "idle"
    /\ deadline' = 0
    /\ pending' = {}
    /\ UNCHANGED <<world, failures, now, processed, inHand, store, handled>>

ListFails == pc = "list" /\ LeavePoll

\* Bug form: the work counter survives from the previous poll.
ListKeepingProcessed ==
    /\ pc = "list"
    /\ pc' = "scan"
    /\ now' = clock
    /\ pending' = {<<e, version[e]>> : e \in {x \in Events : version[x] > 0}}
    /\ UNCHANGED <<world, failures, deadline, processed, inHand, store, handled>>

\* The list is taken, the clock is read and the store evicted.
List ==
    /\ pc = "list"
    /\ pc' = "scan"
    /\ now' = clock
    /\ pending' = {<<e, version[e]>> : e \in {x \in Events : version[x] > 0}}
    /\ processed' = 0
    /\ IF backend = "memory"
       THEN /\ seen' = EvictSeen(seen, now', EventSeenTTL)
            /\ signalExpiry' = EvictSignals(signalExpiry, now')
            /\ attempts' = EvictAttempts(backend, attempts, now')
       ELSE UNCHANGED store
    /\ UNCHANGED <<world, failures, deadline, inHand, handled>>

EndPoll == pc = "scan" /\ pending = {} /\ LeavePoll

\* Bug form: the event is marked seen before the limits are looked at.
DeferMarkingSeen(ev) ==
    /\ pc = "scan" /\ ev \in pending /\ ev[1] \in InScope
    /\ CapReached \/ BudgetExhausted
    /\ seen' = MarkSeen(seen, ev, StoreNow, "done")
    /\ pc' = "idle" /\ deadline' = 0 /\ pending' = {}
    /\ UNCHANGED <<world, failures, now, processed, inHand,
                   signalExpiry, attempts, handled>>

\* The loop breaks out before the next in-scope event is marked seen.
Defer(ev) ==
    /\ pc = "scan" /\ ev \in pending /\ ev[1] \in InScope
    /\ CapReached \/ BudgetExhausted
    /\ LeavePoll

SkipOutOfScope(ev) ==
    /\ pc = "scan" /\ ev \in pending /\ ev[1] \notin InScope
    /\ pending' = pending \ {ev}
    /\ UNCHANGED <<world, failures, pc, poll, processed, inHand, store, handled>>

\* The event is next, gets past the filters and the two limits and is marked
\* seen, or the store cannot tell.
Admit(ev, end) ==
    /\ pc = "scan" /\ ev \in pending /\ ev[1] \in InScope
    /\ ~CapReached /\ ~BudgetExhausted
    /\ Call(end)
    /\ seen' = MarkSeen(seen, ev, StoreNow, end)
    /\ pending' = pending \ {ev}
    /\ UNCHANGED <<world, poll, processed, signal, tries, signalExpiry, attempts,
                   handled>>

SkipSeen(ev, end) ==
    /\ Admit(ev, end) /\ ~SaysNew(seen, ev, end)
    /\ UNCHANGED <<pc, current>>

Take(ev, end) ==
    /\ Admit(ev, end) /\ SaysNew(seen, ev, end)
    /\ pc' = "window"
    /\ current' = ev

\* The poll is done with the event in hand.
Finish ==
    /\ pc' = "scan"
    /\ current' = NoEvent /\ signal' = NoSignal /\ tries' = 0
    /\ handled' = handled \union {current}
    /\ UNCHANGED <<world, poll, pending, processed>>

\* The owner is resolved to one of the event's signals, which is in a window.
Suppress(s) ==
    /\ pc = "window" /\ s \in SignalsOf[current[1]]
    /\ SaysFresh(signalExpiry, s, StoreNow, "done")
    /\ Finish
    /\ UNCHANGED <<failures, store>>

\* The window of the signal is over, or the store cannot tell.
Proceed(s, end) ==
    /\ pc = "window" /\ s \in SignalsOf[current[1]]
    /\ Call(end) /\ ~SaysFresh(signalExpiry, s, StoreNow, end)
    /\ pc' = "breaker"
    /\ signal' = s
    /\ UNCHANGED <<world, poll, pending, processed, current, tries, store, handled>>

\* The signal has used up its attempts.
Trip ==
    /\ pc = "breaker" /\ BreakerOpen("done")
    /\ pc' = "park"
    /\ tries' = Attempts(backend, attempts, signal, StoreNow)
    /\ UNCHANGED <<world, failures, poll, pending, processed, current, signal, store,
                   handled>>

\* The breaker parks the signal and records it for a human.
Park(end) ==
    /\ pc = "park"
    /\ Call(end)
    /\ signalExpiry' = MarkSignal(signalExpiry, signal, StoreNow,
                                  SignalBackoffTTL(tries + 1), end)
    /\ Finish
    /\ UNCHANGED <<seen, attempts>>

\* The model is called.
Consult(end) ==
    /\ pc = "breaker"
    /\ IF Breaker THEN Call(end) ELSE end = "done" /\ NoCall
    /\ ~BreakerOpen(end)
    /\ pc' = "decide"
    /\ processed' = processed + 1
    /\ UNCHANGED <<world, poll, pending, inHand, store, handled>>

\* No answer (error, timeout, cancelled context): nothing is marked.
DecideFails ==
    /\ pc = "decide"
    /\ Finish
    /\ UNCHANGED <<failures, store>>

\* A decision below MIN_SEVERITY that no operator gate covers is dropped.
DecideSkips(severity, action, end) ==
    /\ pc = "decide" /\ ContextAlive
    /\ ~MeetsMinimum(severity) /\ ~IsOperatorGated(action)
    /\ Call(end)
    /\ signalExpiry' = MarkSignal(signalExpiry, signal, StoreNow, DedupeTTL, end)
    /\ Finish
    /\ UNCHANGED <<seen, attempts>>

\* The attempt is counted.
DecideActs(severity, action, end) ==
    /\ pc = "decide" /\ ContextAlive
    /\ MeetsMinimum(severity) \/ IsOperatorGated(action)
    /\ pc' = "mark"
    /\ IF Breaker
       THEN /\ Call(end)
            /\ attempts' = IncrAttempt(backend, attempts, signal, StoreNow,
                                       AttemptWindow, end)
            /\ tries' = SaysCount(backend, attempts, signal, StoreNow, end)
       ELSE /\ end = "done" /\ NoCall
            /\ tries' = 1
            /\ UNCHANGED attempts
    /\ UNCHANGED <<world, poll, pending, processed, current, signal, seen,
                   signalExpiry, handled>>

\* Bug form: the window is left for after the execution.
LeaveWindowClosed(end) ==
    /\ pc = "mark" /\ end = "done" /\ NoCall
    /\ pc' = "exec"
    /\ tries' = 0
    /\ UNCHANGED <<world, poll, pending, processed, current, signal, store, handled>>

\* The signal is silenced for its attempt, or the error is only logged.
OpenWindow(end) ==
    /\ pc = "mark"
    /\ Call(end)
    /\ signalExpiry' = MarkSignal(signalExpiry, signal, StoreNow,
                                  SignalBackoffTTL(tries), end)
    /\ pc' = "exec"
    /\ tries' = 0
    /\ UNCHANGED <<world, poll, pending, processed, current, signal, seen, attempts,
                   handled>>

\* executeDecision succeeds, is refused by a policy or fails.
Execute ==
    /\ pc = "exec"
    /\ Finish
    /\ UNCHANGED <<failures, store>>

-----------------------------------------------------------------------------
Examine ==
    \/ \E ev \in pending :
          \/ Defer(ev) \/ SkipOutOfScope(ev)
          \/ \E end \in Endings : SkipSeen(ev, end) \/ Take(ev, end)
    \/ \E s \in Signals :
          Suppress(s) \/ \E end \in Endings \ {"lost"} : Proceed(s, end)
    \/ Trip
    \/ \E end \in Endings : Park(end)
    \/ \E end \in Endings \ {"lost"} : Consult(end)

Decide ==
    \/ DecideFails
    \/ \E severity \in Severities, action \in Actions, end \in Endings :
          DecideSkips(severity, action, end) \/ DecideActs(severity, action, end)
    \/ \E end \in Endings : OpenWindow(end)

Loop ==
    \/ BeginPoll
    \/ ListFails
    \/ List
    \/ EndPoll
    \/ Examine
    \/ Decide
    \/ Execute

Next ==
    \/ \E e \in Events : Emit(e)
    \/ Tick
    \/ Cancel
    \/ Stop
    \/ Crash
    \/ Loop

Spec == Init /\ [][Next]_vars

-----------------------------------------------------------------------------
(* Properties                                                              *)

\* An event is in hand from its mark until it is handled, a signal from the
\* lookup of the owner on, and a number of attempts from the call that told it.
HandOK ==
    \/ pc \in {"idle", "list", "scan"} /\ current = NoEvent /\ signal = NoSignal /\ tries = 0
    \/ pc = "window" /\ current \in EventVersions /\ signal = NoSignal /\ tries = 0
    \/ /\ pc \in {"breaker", "decide", "exec"}
       /\ current \in EventVersions /\ signal \in Signals /\ tries = 0
    \/ /\ pc \in {"park", "mark"}
       /\ current \in EventVersions /\ signal \in Signals /\ tries \in Nat

TypeOK ==
    /\ clock \in Nat
    /\ version \in [Events -> 0 .. MaxVersion]
    /\ restarts \in Nat
    /\ ctxDone \in BOOLEAN
    /\ backend \in Backends
    /\ kept \in Tables
    /\ failures \in Nat
    /\ now \in Nat /\ now <= clock
    /\ deadline \in Nat
    /\ pending \in SUBSET EventVersions
    /\ processed \in Nat
    /\ HandOK
    /\ seen \in [EventVersions -> Nat \union {NotSeen}]
    /\ signalExpiry \in [Signals -> Nat]
    /\ attempts \in [Signals -> AttemptEntry]
    /\ handled \in SUBSET EventVersions

\* The check made before the model is called still holds when the attempt is
\* counted after the answer: no signal collects more attempts than
\* SIGNAL_MAX_ATTEMPTS, and with Redis each call that fails lets at most one
\* more through.
AttemptsBounded ==
    Breaker => \A s \in Signals :
        /\ attempts[s].count <= SignalMaxAttempts + failures
        /\ kept.attempts[s].count <= SignalMaxAttempts + failures

\* No window silences a signal for more than 8 base windows from now, however
\* many attempts were made or refused ("1x -> 8x").
SilenceBounded ==
    \A s \in Signals : signalExpiry[s] <= clock + 8 * DedupeTTL

\* An event version that is marked seen has been accounted for or is being
\* worked on: a deferral by the cap or by the time budget never swallows it,
\* nor does a call of Redis that fails.
SeenIsAccounted ==
    \A ev \in EventVersions :
        seen[ev] # NotSeen => ev \in handled \/ current = ev

Stage ==
    CASE pc = "breaker" -> "open"
      [] pc = "park"    -> "refused"
      [] pc = "decide"  -> "asked"
      [] pc = "mark"    -> "counted"
      [] OTHER          -> "free"

\* The loop keeps the promises of SignalThrottle for every signal.
Throttle == INSTANCE SignalThrottle WITH
    time       <- StoreNow,
    quietUntil <- signalExpiry,
    streak     <- [s \in Signals |-> attempts[s].count],
    streakEnds <- [s \in Signals |-> attempts[s].expires],
    hand       <- IF Stage = "free" THEN NoSignal ELSE signal,
    stage      <- Stage,
    attempt    <- IF pc = "mark" THEN tries ELSE 0,
    faults     <- failures,
    lives      <- restarts,
    left       <- [quietUntil |-> kept.signalExpiry,
                   streak     |-> [s \in Signals |-> kept.attempts[s].count],
                   streakEnds |-> [s \in Signals |-> kept.attempts[s].expires]],
    Durable    <- Backend = "redis"

ImplementsThrottle == Throttle!SpecThrottle

=============================================================================
