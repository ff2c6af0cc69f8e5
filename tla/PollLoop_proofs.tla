-------------------------- MODULE PollLoop_proofs --------------------------
(***************************************************************************)
(* Proofs about PollLoop, for any set of events and signals, both store    *)
(* backends, every value of the configuration and any number of failing    *)
(* calls of Redis, the one at the start of a process included.             *)
(***************************************************************************)
EXTENDS PollHistory, TLAPS

USE DEF world, poll, inHand, store

-----------------------------------------------------------------------------
(* The store operators                                                     *)

\* Every store operation maps well-formed tables to well-formed tables.
LEMMA StoreTypes ==
    ASSUME NEW t \in Nat, NEW ttl \in Nat, NEW sn, NEW se, NEW at, NEW be, NEW end,
           sn \in [EventVersions -> Nat \union {NotSeen}],
           se \in [Signals -> Nat],
           at \in [Signals -> AttemptEntry]
    PROVE  /\ EvictSeen(sn, t, ttl) \in [EventVersions -> Nat \union {NotSeen}]
           /\ EvictSignals(se, t) \in [Signals -> Nat]
           /\ EvictAttempts(be, at, t) \in [Signals -> AttemptEntry]
           /\ \A ev \in EventVersions :
                 MarkSeen(sn, ev, t, end) \in [EventVersions -> Nat \union {NotSeen}]
           /\ \A s \in Signals : MarkSignal(se, s, t, ttl, end) \in [Signals -> Nat]
           /\ \A s \in Signals : Attempts(be, at, s, t) \in Nat
           /\ \A s \in Signals : SaysAttempts(be, at, s, t, end) \in Nat
           /\ \A s \in Signals : SaysCount(be, at, s, t, end) \in Nat \ {0}
           /\ \A s \in Signals :
                 IncrAttempt(be, at, s, t, ttl, end) \in [Signals -> AttemptEntry]
<1>1. EvictSeen(sn, t, ttl) \in [EventVersions -> Nat \union {NotSeen}]
  BY DEF EvictSeen
<1>2. EvictSignals(se, t) \in [Signals -> Nat]
  BY DEF EvictSignals
<1>3. EvictAttempts(be, at, t) \in [Signals -> AttemptEntry]
  BY DEF EvictAttempts, NoAttempts, AttemptEntry
<1>4. \A ev \in EventVersions :
         MarkSeen(sn, ev, t, end) \in [EventVersions -> Nat \union {NotSeen}]
  BY DEF MarkSeen
<1>5. \A s \in Signals : MarkSignal(se, s, t, ttl, end) \in [Signals -> Nat]
  BY DEF MarkSignal
<1>6. \A s \in Signals : Attempts(be, at, s, t) \in Nat
  BY DEF Attempts, AttemptEntry
<1>7. \A s \in Signals :
         IncrAttempt(be, at, s, t, ttl, end) \in [Signals -> AttemptEntry]
  BY <1>6 DEF IncrAttempt, AttemptEntry
<1>8. \A s \in Signals : SaysAttempts(be, at, s, t, end) \in Nat
  BY <1>6 DEF SaysAttempts
<1>9. \A s \in Signals : SaysCount(be, at, s, t, end) \in Nat \ {0}
  BY <1>6 DEF SaysCount
<1> QED
  BY <1>1, <1>2, <1>3, <1>4, <1>5, <1>6, <1>7, <1>8, <1>9

\* The backoff lies between one and eight base windows.
LEMMA BackoffRange ==
    ASSUME NEW n \in Nat
    PROVE  /\ SignalBackoffTTL(n) \in Nat
           /\ DedupeTTL <= SignalBackoffTTL(n)
           /\ SignalBackoffTTL(n) <= 8 * DedupeTTL
BY ConfigAssumption DEF SignalBackoffTTL

LEMMA WindowsAreNat ==
    AttemptWindow \in Nat /\ EventSeenTTL \in Nat /\ DedupeTTL \in Nat /\ PollTimeout \in Nat
BY ConfigAssumption DEF AttemptWindow, PollTimeout

LEMMA EmptyTablesType ==
    /\ EmptyTables \in Tables
    /\ EmptyTables.seen \in [EventVersions -> Nat \union {NotSeen}]
    /\ EmptyTables.signalExpiry = [s \in Signals |-> 0]
    /\ EmptyTables.attempts = [s \in Signals |-> NoAttempts]
    /\ EmptyTables.attempts \in [Signals -> AttemptEntry]
BY DEF EmptyTables, Tables, NotSeen, NoAttempts, AttemptEntry

-----------------------------------------------------------------------------
(* Type correctness                                                        *)

\* No event version in hand is mistaken for the absence of one.
LEMMA NoEventIsNoVersion == NoEvent \notin EventVersions
BY DEF NoEvent, EventVersions

LEMMA InitTypeOK == Init => TypeOK
<1> SUFFICES ASSUME Init
             PROVE  TypeOK
  OBVIOUS
<1>1. version \in [Events -> 0 .. MaxVersion]
  BY ClusterAssumption DEF Init
<1>2. /\ seen \in [EventVersions -> Nat \union {NotSeen}]
      /\ signalExpiry \in [Signals -> Nat]
      /\ attempts \in [Signals -> AttemptEntry]
      /\ kept \in Tables
  BY EmptyTablesType DEF Init
<1>3. /\ clock \in Nat /\ restarts \in Nat /\ now \in Nat /\ now <= clock
      /\ deadline \in Nat /\ processed \in Nat /\ failures \in Nat
  BY DEF Init
<1>4. pending \in SUBSET EventVersions /\ handled \in SUBSET EventVersions
  BY DEF Init
<1>5. ctxDone \in BOOLEAN /\ HandOK
  BY DEF Init, HandOK
<1>6. backend \in Backends
  BY ConfigAssumption DEF Init, Backends
<1> QED
  BY <1>1, <1>2, <1>3, <1>4, <1>5, <1>6 DEF TypeOK

LEMMA CallType == ASSUME TypeOK, NEW end, Call(end) PROVE failures' \in Nat
BY DEF TypeOK, Call

LEMMA FinishTypeOK ==
    ASSUME TypeOK, current \in EventVersions, Finish, failures' \in Nat,
           seen' \in [EventVersions -> Nat \union {NotSeen}],
           signalExpiry' \in [Signals -> Nat],
           attempts' \in [Signals -> AttemptEntry]
    PROVE  TypeOK'
<1>1. HandOK'
  BY DEF Finish, HandOK
<1>2. handled' \in SUBSET EventVersions
  BY DEF Finish, TypeOK
<1> QED
  BY <1>1, <1>2 DEF Finish, TypeOK

\* The hand holds what the step it is at needs.
LEMMA HandType ==
    ASSUME TypeOK
    PROVE  /\ current = NoEvent \/ current \in EventVersions
           /\ pc \in {"idle", "list", "scan"} =>
                 current = NoEvent /\ signal = NoSignal /\ tries = 0
           /\ pc \in {"window", "breaker", "park", "decide", "mark", "exec"} =>
                 current \in EventVersions
           /\ pc \in {"breaker", "park", "decide", "mark", "exec"} => signal \in Signals
           /\ tries \in Nat
           /\ pc \in {"window", "breaker", "decide", "exec"} => tries = 0
           /\ pc = "window" => signal = NoSignal
BY DEF TypeOK, HandOK

\* Nothing in hand.
LEMMA EmptyHand ==
    ASSUME pc \in {"idle", "list", "scan"}, current = NoEvent, signal = NoSignal, tries = 0
    PROVE  HandOK
BY DEF HandOK

LEMMA SameHand ==
    ASSUME HandOK, pc' = pc, current' = current, signal' = signal, tries' = tries
    PROVE  HandOK'
BY DEF HandOK

LEMMA RestartTypeOK == ASSUME TypeOK, Restart PROVE TypeOK'
<1>1. /\ seen' \in [EventVersions -> Nat \union {NotSeen}]
      /\ signalExpiry' \in [Signals -> Nat]
      /\ attempts' \in [Signals -> AttemptEntry]
      /\ kept' \in Tables /\ backend' \in Backends /\ failures' \in Nat
  <2>1. CASE Reconnect
    <3>1. /\ EvictSeen(kept.seen, clock, EventSeenTTL) \in [EventVersions -> Nat \union {NotSeen}]
          /\ EvictSignals(kept.signalExpiry, clock) \in [Signals -> Nat]
          /\ EvictAttempts("redis", kept.attempts, clock) \in [Signals -> AttemptEntry]
      BY StoreTypes, WindowsAreNat DEF TypeOK, Tables
    <3> QED
      BY <2>1, <3>1, EmptyTablesType DEF Reconnect, NoCall, TypeOK, Backends
  <2>2. CASE StartAfresh
    BY <2>2, EmptyTablesType DEF StartAfresh, NoCall, TypeOK, Backends, Tables
  <2> QED
    BY <2>1, <2>2 DEF Restart
<1>2. handled' \in SUBSET EventVersions
  <2>1. handled \subseteq EventVersions /\ {current} \ {NoEvent} \subseteq EventVersions
    BY HandType DEF TypeOK
  <2>2. handled' = handled \union ({current} \ {NoEvent})
    BY DEF Restart
  <2> QED
    BY <2>1, <2>2
<1>3. HandOK'
  BY DEF Restart, HandOK
<1>4. /\ clock' \in Nat /\ version' \in [Events -> 0 .. MaxVersion]
      /\ restarts' \in Nat /\ ctxDone' \in BOOLEAN /\ pending' \in SUBSET EventVersions
      /\ now' \in Nat /\ now' <= clock' /\ deadline' \in Nat /\ processed' \in Nat
  <2>1. /\ clock' = clock /\ version' = version /\ restarts' = restarts + 1
        /\ ctxDone' = FALSE /\ pending' = {} /\ now' = clock /\ deadline' = 0
        /\ processed' = 0
    BY DEF Restart
  <2>2. /\ clock \in Nat /\ restarts \in Nat
        /\ version \in [Events -> 0 .. MaxVersion]
    BY DEF TypeOK
  <2>3. ctxDone' \in BOOLEAN
    BY <2>1
  <2>4. /\ clock' \in Nat /\ restarts' \in Nat /\ now' \in Nat /\ now' <= clock'
        /\ deadline' \in Nat /\ processed' \in Nat
    BY ONLY <2>1, <2>2
  <2> QED
    BY <2>1, <2>2, <2>3, <2>4
<1> QED
  BY <1>1, <1>2, <1>3, <1>4 DEF TypeOK

\* Every step keeps every variable in its type.
LEMMA StepTypeOK == TypeOK /\ [Next]_vars => TypeOK'
<1> SUFFICES ASSUME TypeOK, [Next]_vars
             PROVE  TypeOK'
  OBVIOUS
<1>0. StoreNow \in Nat /\ AttemptWindow \in Nat /\ DedupeTTL \in Nat
  BY WindowsAreNat DEF TypeOK, StoreNow
<1>h. ASSUME UNCHANGED <<pc, current, signal, tries>>
      PROVE  HandOK'
  <2>1. HandOK
    BY DEF TypeOK
  <2>2. pc' = pc /\ current' = current /\ signal' = signal /\ tries' = tries
    BY <1>h
  <2> QED
    BY ONLY <2>1, <2>2 DEF HandOK
<1>1. ASSUME NEW e \in Events, Emit(e)
      PROVE  TypeOK'
  BY <1>1, <1>h, ClusterAssumption DEF Emit, TypeOK
<1>2. CASE Tick
  <2>1. clock' = clock + 1 /\ clock' \in Nat
    BY <1>2 DEF Tick, TypeOK
  <2>2. /\ EvictSeen(seen, clock', EventSeenTTL) \in [EventVersions -> Nat \union {NotSeen}]
        /\ EvictSignals(signalExpiry, clock') \in [Signals -> Nat]
        /\ EvictAttempts(backend, attempts, clock') \in [Signals -> AttemptEntry]
    BY <2>1, StoreTypes, WindowsAreNat DEF TypeOK
  <2>3. /\ seen' \in [EventVersions -> Nat \union {NotSeen}]
        /\ signalExpiry' \in [Signals -> Nat]
        /\ attempts' \in [Signals -> AttemptEntry]
    BY <1>2, <2>2 DEF Tick, TypeOK
  <2>4. HandOK'
    BY <1>2, <1>h DEF Tick
  <2> QED
    BY <1>2, <2>1, <2>3, <2>4 DEF Tick, TypeOK
<1>3. CASE Cancel
  BY <1>3, <1>h DEF Cancel, TypeOK
<1>4. CASE Restart
  BY <1>4, RestartTypeOK
<1>5. CASE BeginPoll
  <2>1. deadline' \in Nat
    BY <1>5, WindowsAreNat DEF BeginPoll, TypeOK
  <2>2. HandOK'
    <3>1. pc = "idle" /\ pc' = "list" /\ current' = current /\ signal' = signal /\ tries' = tries
      BY <1>5 DEF BeginPoll
    <3> QED
      BY <3>1, HandType DEF HandOK
  <2> QED
    BY <1>5, <2>1, <2>2 DEF BeginPoll, TypeOK
<1>6. CASE List
  <2>1. pending' \in SUBSET EventVersions
    BY <1>6, ClusterAssumption DEF List, TypeOK, EventVersions, Versions
  <2>2. /\ seen' \in [EventVersions -> Nat \union {NotSeen}]
        /\ signalExpiry' \in [Signals -> Nat]
        /\ attempts' \in [Signals -> AttemptEntry]
    <3>1. now' = clock /\ clock \in Nat
      BY <1>6 DEF List, TypeOK
    <3>2. /\ EvictSeen(seen, now', EventSeenTTL) \in [EventVersions -> Nat \union {NotSeen}]
          /\ EvictSignals(signalExpiry, now') \in [Signals -> Nat]
          /\ EvictAttempts(backend, attempts, now') \in [Signals -> AttemptEntry]
      BY <3>1, StoreTypes, WindowsAreNat DEF TypeOK
    <3> QED
      BY <1>6, <3>2 DEF List, TypeOK
  <2>3. HandOK'
    <3>1. pc = "list" /\ pc' = "scan" /\ current' = current /\ signal' = signal /\ tries' = tries
      BY <1>6 DEF List
    <3> QED
      BY <3>1, HandType DEF HandOK
  <2> QED
    BY <1>6, <2>1, <2>2, <2>3 DEF List, TypeOK
<1>7. ASSUME pc \in {"list", "scan"}, LeavePoll
      PROVE  TypeOK'
  <2>1. HandOK'
    BY <1>7 DEF LeavePoll, HandOK, TypeOK
  <2> QED
    BY <1>7, <2>1 DEF LeavePoll, TypeOK
<1>8. ASSUME NEW ev \in EventVersions, SkipOutOfScope(ev)
      PROVE  TypeOK'
  BY <1>8, <1>h DEF SkipOutOfScope, TypeOK
<1>9. ASSUME NEW ev \in EventVersions, NEW end, Take(ev, end) \/ SkipSeen(ev, end)
      PROVE  TypeOK'
  <2>1. seen' \in [EventVersions -> Nat \union {NotSeen}] /\ failures' \in Nat
    <3>1. MarkSeen(seen, ev, StoreNow, end) \in [EventVersions -> Nat \union {NotSeen}]
      BY <1>0, StoreTypes DEF TypeOK
    <3>2. seen' = MarkSeen(seen, ev, StoreNow, end) /\ Call(end)
      BY <1>9 DEF Take, SkipSeen, Admit
    <3> QED
      BY <3>1, <3>2, CallType
  <2>2. HandOK'
    BY <1>9 DEF Take, SkipSeen, Admit, HandOK, TypeOK
  <2> QED
    BY <1>9, <2>1, <2>2 DEF Take, SkipSeen, Admit, TypeOK
<1>10. ASSUME NEW s \in Signals, Suppress(s)
       PROVE  TypeOK'
  BY <1>10, FinishTypeOK DEF Suppress, TypeOK, HandOK
<1>11. ASSUME NEW s \in Signals, NEW end, Proceed(s, end)
       PROVE  TypeOK'
  <2>1. failures' \in Nat /\ HandOK'
    BY <1>11, CallType DEF Proceed, TypeOK, HandOK
  <2> QED
    BY <1>11, <2>1 DEF Proceed, TypeOK
<1>12. CASE Trip
  <2>1. signal \in Signals
    BY <1>12 DEF Trip, TypeOK, HandOK
  <2>2. Attempts(backend, attempts, signal, StoreNow) \in Nat
    BY <1>0, <2>1, StoreTypes DEF TypeOK
  <2>3. HandOK'
    BY <1>12, <2>2 DEF Trip, TypeOK, HandOK
  <2> QED
    BY <1>12, <2>3 DEF Trip, TypeOK
<1>13. ASSUME NEW end, Park(end)
       PROVE  TypeOK'
  <2>1. signal \in Signals /\ current \in EventVersions /\ tries \in Nat
    BY <1>13 DEF Park, TypeOK, HandOK
  <2>2. SignalBackoffTTL(tries + 1) \in Nat
    BY <2>1, BackoffRange
  <2>3. signalExpiry' \in [Signals -> Nat]
    BY <1>13, <1>0, <2>1, <2>2, StoreTypes DEF Park, TypeOK
  <2> QED
    BY <1>13, <2>1, <2>3, FinishTypeOK, CallType DEF Park, TypeOK
<1>14. ASSUME NEW end, Consult(end)
       PROVE  TypeOK'
  <2>1. failures' \in Nat /\ HandOK'
    BY <1>14, CallType DEF Consult, NoCall, TypeOK, HandOK
  <2> QED
    BY <1>14, <2>1 DEF Consult, TypeOK
<1>15. CASE DecideFails
  BY <1>15, FinishTypeOK DEF DecideFails, TypeOK, HandOK
<1>16. ASSUME NEW severity, NEW action, NEW end, DecideSkips(severity, action, end)
       PROVE  TypeOK'
  <2>1. signal \in Signals /\ current \in EventVersions
    BY <1>16 DEF DecideSkips, TypeOK, HandOK
  <2>2. signalExpiry' \in [Signals -> Nat]
    BY <1>16, <1>0, <2>1, StoreTypes DEF DecideSkips, TypeOK
  <2> QED
    BY <1>16, <2>1, <2>2, FinishTypeOK, CallType DEF DecideSkips, TypeOK
<1>17. ASSUME NEW severity, NEW action, NEW end, DecideActs(severity, action, end)
       PROVE  TypeOK'
  <2>1. signal \in Signals /\ current \in EventVersions
    BY <1>17 DEF DecideActs, TypeOK, HandOK
  <2>2. attempts' \in [Signals -> AttemptEntry]
    <3>1. IncrAttempt(backend, attempts, signal, StoreNow, AttemptWindow, end)
             \in [Signals -> AttemptEntry]
      BY <1>0, <2>1, StoreTypes DEF TypeOK
    <3> QED
      BY <1>17, <3>1 DEF DecideActs, TypeOK
  <2>5. failures' \in Nat
    BY <1>17, CallType DEF DecideActs, NoCall, TypeOK
  <2>3. SaysCount(backend, attempts, signal, StoreNow, end) \in Nat
    BY <1>0, <2>1, StoreTypes DEF TypeOK
  <2>4. HandOK'
    BY <1>17, <2>1, <2>3 DEF DecideActs, HandOK
  <2> QED
    BY <1>17, <2>2, <2>4, <2>5 DEF DecideActs, TypeOK
<1>18. ASSUME NEW end, OpenWindow(end)
       PROVE  TypeOK'
  <2>1. signal \in Signals /\ tries \in Nat
    BY <1>18 DEF OpenWindow, TypeOK, HandOK
  <2>2. signalExpiry' \in [Signals -> Nat]
    BY <1>18, <1>0, <2>1, BackoffRange, StoreTypes DEF OpenWindow, TypeOK
  <2>3. failures' \in Nat /\ HandOK'
    BY <1>18, CallType DEF OpenWindow, TypeOK, HandOK
  <2> QED
    BY <1>18, <2>2, <2>3 DEF OpenWindow, TypeOK
<1>19. CASE Execute
  BY <1>19, FinishTypeOK DEF Execute, TypeOK, HandOK
<1>20. CASE UNCHANGED vars
  BY <1>20, <1>h DEF vars, TypeOK
<1>21. pending \subseteq EventVersions
  BY DEF TypeOK
<1> QED
  BY <1>1, <1>2, <1>3, <1>4, <1>5, <1>6, <1>7, <1>8, <1>9, <1>10, <1>11,
     <1>12, <1>13, <1>14, <1>15, <1>16, <1>17, <1>18, <1>19, <1>20, <1>21
  DEF Next, Stop, Crash, Loop, ListFails, EndPoll, Examine, Defer, Decide

\* Every reachable state is well typed: in particular the loop holds an event
\* and a signal exactly where they are used.
THEOREM TypeCorrect == Spec => []TypeOK
<1>1. Init => TypeOK
  BY InitTypeOK
<1>2. TypeOK /\ [Next]_vars => TypeOK'
  BY StepTypeOK
<1> QED
  BY <1>1, <1>2, PTL DEF Spec

-----------------------------------------------------------------------------
(* The circuit breaker                                                     *)

\* Counters within the limit, but for the calls of Redis that failed.
Within(at, f) == \A s \in Signals : at[s].count <= SignalMaxAttempts + f

\* The check made before the call is still true when the answer arrives.
CheckedBeforeCall ==
    pc = "decide" /\ Breaker =>
        Attempts(backend, attempts, signal, StoreNow) < SignalMaxAttempts + failures

\* A signal is parked for attempts it has made, an attempt has its number.
TriesCounted ==
    /\ pc = "park" => Breaker /\ tries >= SignalMaxAttempts
    /\ pc = "mark" => tries >= 1

\* Only a process that is to use Redis may do without the store it is given.
MemoryIsMemory == Backend = "memory" => backend = "memory"

BreakerInv ==
    TypeOK /\ AttemptsBounded /\ CheckedBeforeCall /\ TriesCounted /\ MemoryIsMemory

LEMMA BoundedIsWithin ==
    AttemptsBounded <=>
        (Breaker => Within(attempts, failures) /\ Within(kept.attempts, failures))
BY DEF AttemptsBounded, Within

\* Failures are only ever added.
LEMMA FailuresGrow ==
    ASSUME TypeOK, [Next]_vars
    PROVE  failures' \in Nat /\ failures <= failures'
<1>1. failures' = failures \/ failures' = failures + 1
  <2>1. ASSUME NEW end, Call(end) \/ NoCall
        PROVE  failures' = failures \/ failures' = failures + 1
    <3>1. failures' = failures \/ failures' = failures + 0 \/ failures' = failures + 1
      BY <2>1 DEF Call, NoCall
    <3> QED
      BY <3>1 DEF TypeOK
  <2>2. Restart => failures' = failures \/ failures' = failures + 1
    BY DEF Restart, Reconnect, StartAfresh, NoCall
  <2>3. \/ failures' = failures
        \/ Restart
        \/ \E end : Call(end) \/ NoCall
    BY DEF Next, vars, Emit, Tick, Cancel, Stop, Crash, Loop, BeginPoll, ListFails, List,
           EndPoll, LeavePoll, Examine, Defer, SkipOutOfScope, SkipSeen, Take, Admit, Suppress,
           Proceed, Trip, Park, Consult, Decide, DecideFails, DecideSkips, DecideActs,
           OpenWindow, Execute, Finish
  <2> QED
    BY <2>1, <2>2, <2>3
<1> QED
  BY <1>1 DEF TypeOK

LEMMA MoreFailures ==
    ASSUME NEW at \in [Signals -> AttemptEntry], NEW f \in Nat, NEW g \in Nat, f <= g,
           Within(at, f)
    PROVE  Within(at, g)
BY ConfigAssumption DEF Within, AttemptEntry

\* Eviction forgets counters, it never raises what a later read returns.
LEMMA EvictionLowers ==
    ASSUME NEW t \in Nat, NEW u \in Nat, t <= u, NEW be,
           NEW at \in [Signals -> AttemptEntry], NEW s \in Signals
    PROVE  /\ EvictAttempts(be, at, u)[s].count <= at[s].count
           /\ Attempts(be, EvictAttempts(be, at, u), s, u) <= Attempts(be, at, s, t)
           /\ Attempts(be, at, s, u) <= Attempts(be, at, s, t)
           /\ Attempts(be, at, s, t) <= at[s].count
BY DEF EvictAttempts, Attempts, AttemptsExpired, NoAttempts, AttemptEntry

LEMMA EvictionWithin ==
    ASSUME NEW be, NEW at \in [Signals -> AttemptEntry], NEW u \in Nat, NEW f \in Nat,
           Within(at, f)
    PROVE  Within(EvictAttempts(be, at, u), f)
<1> SUFFICES ASSUME NEW s \in Signals
             PROVE  EvictAttempts(be, at, u)[s].count <= SignalMaxAttempts + f
  BY DEF Within
<1>1. /\ EvictAttempts(be, at, u)[s].count \in Nat /\ at[s].count \in Nat
      /\ at[s].count <= SignalMaxAttempts + f
  BY DEF EvictAttempts, NoAttempts, AttemptEntry, Within
<1>2. EvictAttempts(be, at, u)[s].count <= at[s].count
  BY EvictionLowers
<1> QED
  BY <1>1, <1>2, ConfigAssumption

LEMMA EmptyWithin ==
    ASSUME NEW f \in Nat
    PROVE  Within(EmptyTables.attempts, f)
BY EmptyTablesType, ConfigAssumption DEF Within, NoAttempts

\* A counter read is at most the stored count; after an increment the stored
\* count is one more than what was read.
LEMMA IncrementByOne ==
    ASSUME NEW t \in Nat, NEW w \in Nat, NEW be, NEW end,
           NEW at \in [Signals -> AttemptEntry], NEW s \in Signals
    PROVE  /\ Attempts(be, at, s, t) <= at[s].count
           /\ end # "failed" =>
                 /\ IncrAttempt(be, at, s, t, w, end)[s].count = Attempts(be, at, s, t) + 1
                 /\ \A r \in Signals \ {s} : IncrAttempt(be, at, s, t, w, end)[r] = at[r]
           /\ end = "failed" => IncrAttempt(be, at, s, t, w, end) = at
BY DEF IncrAttempt, Attempts, AttemptEntry

\* Steps that leave the counters to themselves.
LEMMA CountersLeftAlone ==
    ASSUME BreakerInv, [Next]_vars, attempts' = attempts, kept' = kept
    PROVE  AttemptsBounded'
<1>1. CASE Breaker
  <2>1. Within(attempts, failures) /\ Within(kept.attempts, failures)
    BY <1>1, BoundedIsWithin DEF BreakerInv
  <2>2. /\ attempts \in [Signals -> AttemptEntry]
        /\ kept.attempts \in [Signals -> AttemptEntry]
        /\ failures \in Nat
    BY DEF BreakerInv, TypeOK, Tables
  <2>3. Within(attempts, failures') /\ Within(kept.attempts, failures')
    BY <2>1, <2>2, FailuresGrow, MoreFailures DEF BreakerInv
  <2> QED
    BY <2>3 DEF AttemptsBounded, Within
<1>2. CASE ~Breaker
  BY <1>2 DEF AttemptsBounded, Breaker
<1> QED
  BY <1>1, <1>2

LEMMA StepAttemptsBounded == ASSUME BreakerInv, [Next]_vars PROVE AttemptsBounded'
<1>0. /\ StoreNow \in Nat /\ clock \in Nat /\ now \in Nat /\ failures \in Nat
      /\ attempts \in [Signals -> AttemptEntry]
      /\ kept.attempts \in [Signals -> AttemptEntry]
      /\ AttemptWindow \in Nat
  BY WindowsAreNat DEF BreakerInv, TypeOK, StoreNow, Tables
<1>1. Breaker => Within(attempts, failures) /\ Within(kept.attempts, failures)
  BY BoundedIsWithin DEF BreakerInv
<1>2. failures' \in Nat /\ failures <= failures'
  BY FailuresGrow DEF BreakerInv
<1>3. Breaker' <=> Breaker
  BY DEF Breaker
<1>4. SUFFICES ASSUME Breaker
               PROVE  Within(attempts', failures') /\ Within(kept.attempts', failures')
  BY <1>3 DEF AttemptsBounded, Within
<1>5. Within(attempts, failures') /\ Within(kept.attempts, failures')
  BY <1>0, <1>1, <1>2, <1>4, MoreFailures
<1>6. CASE attempts' = attempts /\ kept' = kept
  BY <1>5, <1>6
<1>7. CASE Tick
  <2>1. clock' \in Nat /\ kept' = kept
    BY <1>0, <1>7 DEF Tick
  <2>2. attempts' = attempts \/ attempts' = EvictAttempts(backend, attempts, clock')
    BY <1>7 DEF Tick
  <2> QED
    BY <2>1, <2>2, <1>0, <1>2, <1>5, EvictionWithin
<1>8. CASE List
  <2>1. kept' = kept /\ now' \in Nat
    BY <1>0, <1>8 DEF List
  <2>2. attempts' = attempts \/ attempts' = EvictAttempts(backend, attempts, now')
    BY <1>8 DEF List
  <2> QED
    BY <2>1, <2>2, <1>0, <1>2, <1>5, EvictionWithin
<1>9. CASE Restart
  <2>1. \/ attempts' = attempts
        \/ attempts' = EvictAttempts("redis", kept.attempts, clock)
        \/ attempts' = EmptyTables.attempts
    BY <1>9 DEF Restart, Reconnect, StartAfresh
  <2>2. \/ kept' = kept
        \/ kept' = EmptyTables
        \/ kept.attempts' = attempts
    BY <1>9 DEF Restart, Reconnect, StartAfresh
  <2>3. Within(attempts', failures')
    BY <2>1, <1>0, <1>2, <1>5, EvictionWithin, EmptyWithin
  <2>4. Within(kept.attempts', failures')
    BY <2>2, <1>2, <1>5, EmptyWithin
  <2> QED
    BY <2>3, <2>4
<1>10. ASSUME NEW severity, NEW action, NEW end, DecideActs(severity, action, end)
       PROVE  Within(attempts', failures') /\ Within(kept.attempts', failures')
  <2>1. signal \in Signals /\ kept' = kept /\ pc = "decide"
    BY <1>10, HandType DEF DecideActs, BreakerInv
  <2>2. attempts' = IncrAttempt(backend, attempts, signal, StoreNow, AttemptWindow, end)
    BY <1>4, <1>10 DEF DecideActs
  <2>3. CASE end = "failed"
    <3>1. attempts' = attempts
      BY <2>2, <2>3 DEF IncrAttempt
    <3> QED
      BY <3>1, <2>1, <1>5
  <2>4. CASE end # "failed"
    <3>1. /\ attempts'[signal].count = Attempts(backend, attempts, signal, StoreNow) + 1
          /\ \A r \in Signals \ {signal} : attempts'[r] = attempts[r]
      BY <2>1, <2>2, <2>4, <1>0, IncrementByOne
    <3>2. Attempts(backend, attempts, signal, StoreNow) < SignalMaxAttempts + failures
      BY <1>4, <2>1 DEF BreakerInv, CheckedBeforeCall
    <3>3. Attempts(backend, attempts, signal, StoreNow) \in Nat
      BY <2>1, <1>0 DEF Attempts, AttemptEntry
    <3>4. attempts'[signal].count <= SignalMaxAttempts + failures'
      BY <3>1, <3>2, <3>3, <1>0, <1>2, ConfigAssumption
    <3>5. \A r \in Signals : attempts'[r].count <= SignalMaxAttempts + failures'
      BY <3>1, <3>4, <1>5 DEF Within
    <3> QED
      BY <3>5, <2>1, <1>5 DEF Within
  <2> QED
    BY <2>3, <2>4
<1>11. ASSUME ~Tick, ~List, ~Restart,
              ~\E severity \in Severities, action \in Actions, end \in Endings :
                   DecideActs(severity, action, end)
       PROVE  attempts' = attempts /\ kept' = kept
  BY <1>11 DEF Next, vars, Emit, Cancel, Stop, Crash, Loop, BeginPoll, ListFails, EndPoll,
         LeavePoll, Examine, Defer, SkipOutOfScope, SkipSeen, Take, Admit, Suppress, Proceed,
         Trip, Park, Consult, Decide, DecideFails, DecideSkips, OpenWindow, Execute, Finish
<1> QED
  BY <1>6, <1>7, <1>8, <1>9, <1>10, <1>11

LEMMA StepChecked == ASSUME BreakerInv, [Next]_vars PROVE CheckedBeforeCall'
<1>0. /\ StoreNow \in Nat /\ clock \in Nat /\ now \in Nat /\ failures \in Nat
      /\ attempts \in [Signals -> AttemptEntry] /\ SignalMaxAttempts \in Nat
  BY ConfigAssumption DEF BreakerInv, TypeOK, StoreNow
<1>1. SUFFICES ASSUME pc' = "decide", Breaker
               PROVE  Attempts(backend', attempts', signal', StoreNow')
                         < SignalMaxAttempts + failures'
  BY DEF CheckedBeforeCall, Breaker
<1>2. CASE Tick
  <2>1. /\ pc = "decide" /\ signal' = signal /\ backend' = backend /\ failures' = failures
        /\ now' = now /\ clock' = clock + 1 /\ clock' \in Nat
    BY <1>0, <1>1, <1>2 DEF Tick
  <2>2. Attempts(backend, attempts, signal, StoreNow) < SignalMaxAttempts + failures
    BY <1>1, <2>1 DEF BreakerInv, CheckedBeforeCall
  <2>3. CASE backend = "redis"
    <3>1. attempts' = EvictAttempts(backend, attempts, clock')
      BY <1>2, <2>3 DEF Tick
    <3>2. StoreNow = clock /\ StoreNow' = clock'
      BY <2>1, <2>3 DEF StoreNow
    <3>3. signal \in Signals
      BY <2>1, HandType DEF BreakerInv
    <3>4. Attempts(backend, attempts', signal, clock') <= Attempts(backend, attempts, signal, clock)
      BY <1>0, <2>1, <3>1, <3>3, EvictionLowers
    <3>5. /\ Attempts(backend, attempts, signal, clock) \in Nat
          /\ Attempts(backend, attempts', signal, clock') \in Nat
      BY <1>0, <3>1, <3>3 DEF Attempts, EvictAttempts, AttemptEntry, NoAttempts
    <3> QED
      BY <1>0, <2>1, <2>2, <3>2, <3>4, <3>5
  <2>4. CASE backend # "redis"
    <3>1. attempts' = attempts /\ StoreNow' = StoreNow
      BY <1>2, <2>1, <2>4 DEF Tick, StoreNow, BreakerInv, TypeOK, Backends
    <3> QED
      BY <2>1, <2>2, <3>1
  <2> QED
    BY <2>3, <2>4
<1>3. ASSUME NEW end, Consult(end)
      PROVE  Attempts(backend', attempts', signal', StoreNow') < SignalMaxAttempts + failures'
  <2>1. /\ pc = "breaker" /\ backend' = backend /\ attempts' = attempts /\ signal' = signal
        /\ StoreNow' = StoreNow
    BY <1>3 DEF Consult, StoreNow
  <2>2. signal \in Signals
    BY <2>1, HandType DEF BreakerInv
  <2>3. /\ Attempts(backend, attempts, signal, StoreNow) \in Nat
        /\ Attempts(backend, attempts, signal, StoreNow) <= attempts[signal].count
        /\ attempts[signal].count \in Nat
    BY <1>0, <2>2 DEF Attempts, AttemptEntry
  <2>4. CASE end = "done"
    <3>1. failures' = failures
      BY <1>1, <1>3, <2>4 DEF Consult, Call, NoCall, BreakerInv, TypeOK
    <3>2. ~(Attempts(backend, attempts, signal, StoreNow) >= SignalMaxAttempts)
      BY <1>1, <1>3, <2>4 DEF Consult, BreakerOpen, SaysAttempts
    <3> QED
      BY <1>0, <2>1, <2>3, <3>1, <3>2
  <2>5. CASE end # "done"
    <3>1. failures' = failures + 1
      BY <1>1, <1>3, <2>5 DEF Consult, Call
    <3>2. attempts[signal].count <= SignalMaxAttempts + failures
      BY <1>1, <2>2 DEF BreakerInv, AttemptsBounded
    <3> QED
      BY <1>0, <2>1, <2>3, <3>1, <3>2
  <2> QED
    BY <2>4, <2>5
<1>4. CASE UNCHANGED <<pc, signal, backend, failures, attempts, now, clock>>
  <2>1. StoreNow' = StoreNow
    BY <1>4 DEF StoreNow
  <2> QED
    BY <1>1, <1>4, <2>1 DEF BreakerInv, CheckedBeforeCall
<1>5. ASSUME ~Tick, ~\E end \in Endings \ {"lost"} : Consult(end)
      PROVE  UNCHANGED <<pc, signal, backend, failures, attempts, now, clock>>
  BY <1>1, <1>5 DEF Next, vars, Emit, Cancel, Stop, Crash, Restart, Loop, BeginPoll, List,
         ListFails, EndPoll, LeavePoll, Examine, Defer, SkipOutOfScope, SkipSeen, Take, Admit,
         Suppress, Proceed, Trip, Park, Decide, DecideFails, DecideSkips, DecideActs,
         OpenWindow, Execute, Finish, BreakerInv, TypeOK, HandOK
<1> QED
  BY <1>2, <1>3, <1>4, <1>5

LEMMA StepTriesCounted == ASSUME BreakerInv, [Next]_vars PROVE TriesCounted'
<1>1. CASE UNCHANGED <<pc, tries>>
  BY <1>1 DEF BreakerInv, TriesCounted, Breaker
<1>2. CASE Trip
  BY <1>2 DEF Trip, TriesCounted, BreakerOpen, SaysAttempts, Breaker
<1>3. ASSUME NEW severity, NEW action, NEW end, DecideActs(severity, action, end)
      PROVE  TriesCounted'
  <2>1. signal \in Signals /\ StoreNow \in Nat
    BY <1>3, HandType DEF DecideActs, BreakerInv, TypeOK, StoreNow
  <2>2. SaysCount(backend, attempts, signal, StoreNow, end) \in Nat \ {0}
    BY <2>1, StoreTypes, WindowsAreNat DEF BreakerInv, TypeOK
  <2>3. tries' \in Nat \ {0} /\ pc' = "mark"
    BY <1>3, <2>2 DEF DecideActs
  <2> QED
    BY <2>3 DEF TriesCounted
<1>4. CASE pc' \notin {"park", "mark"}
  BY <1>4 DEF TriesCounted
<1>5. ASSUME pc' \in {"park", "mark"}, ~Trip,
             ~\E severity \in Severities, action \in Actions, end \in Endings :
                  DecideActs(severity, action, end)
      PROVE  UNCHANGED <<pc, tries>>
  BY <1>5 DEF Next, vars, Emit, Tick, Cancel, Stop, Crash, Restart, Loop, BeginPoll, List,
         ListFails, EndPoll, LeavePoll, Examine, Defer, SkipOutOfScope, SkipSeen, Take, Admit,
         Suppress, Proceed, Park, Consult, Decide, DecideFails, DecideSkips, OpenWindow,
         Execute, Finish
<1> QED
  BY <1>1, <1>2, <1>3, <1>4, <1>5

LEMMA StepMemoryIsMemory == ASSUME BreakerInv, [Next]_vars PROVE MemoryIsMemory'
<1>1. backend' = backend \/ Restart
  BY DEF Next, vars, Emit, Tick, Cancel, Stop, Crash, Loop, BeginPoll, List, ListFails,
         EndPoll, LeavePoll, Examine, Defer, SkipOutOfScope, SkipSeen, Take, Admit, Suppress,
         Proceed, Trip, Park, Consult, Decide, DecideFails, DecideSkips, DecideActs,
         OpenWindow, Execute, Finish
<1>2. Restart => (Backend = "redis" /\ backend' = "redis") \/ backend' = "memory"
  BY DEF Restart, Reconnect, StartAfresh
<1> QED
  BY <1>1, <1>2 DEF BreakerInv, MemoryIsMemory

LEMMA InitBreakerInv == Init => BreakerInv
<1> SUFFICES ASSUME Init PROVE BreakerInv
  OBVIOUS
<1>1. TypeOK
  BY InitTypeOK
<1>2. AttemptsBounded
  BY <1>1, BoundedIsWithin, EmptyWithin DEF Init, TypeOK
<1>3. CheckedBeforeCall /\ TriesCounted
  BY DEF Init, CheckedBeforeCall, TriesCounted
<1>4. MemoryIsMemory
  BY DEF Init, MemoryIsMemory
<1> QED
  BY <1>1, <1>2, <1>3, <1>4 DEF BreakerInv

LEMMA StepBreakerInv == BreakerInv /\ [Next]_vars => BreakerInv'
<1> SUFFICES ASSUME BreakerInv, [Next]_vars PROVE BreakerInv'
  OBVIOUS
<1>1. TypeOK'
  BY StepTypeOK DEF BreakerInv
<1> QED
  BY <1>1, StepAttemptsBounded, StepChecked, StepTriesCounted, StepMemoryIsMemory
     DEF BreakerInv

LEMMA BreakerInvariant == Spec => []BreakerInv
BY InitBreakerInv, StepBreakerInv, PTL DEF Spec

\* No signal ever collects more attempts than SIGNAL_MAX_ATTEMPTS plus the calls
\* of Redis that failed, whatever the interleaving of clock, updates, restarts,
\* changes of the store and answers.  With the memory store no call fails.
THEOREM BreakerBoundsAttempts == Spec => []AttemptsBounded
<1>1. BreakerInv => AttemptsBounded
  BY DEF BreakerInv
<1> QED
  BY <1>1, BreakerInvariant, PTL

-----------------------------------------------------------------------------
(* Windows                                                                 *)

\* The clock and the instant the store goes by never run backwards.
LEMMA ClocksGrow ==
    ASSUME TypeOK, [Next]_vars
    PROVE  /\ clock' \in Nat /\ clock <= clock'
           /\ StoreNow \in Nat /\ StoreNow' \in Nat /\ StoreNow <= StoreNow'
           /\ now <= StoreNow /\ StoreNow <= clock /\ StoreNow' <= clock'
<1>0. clock \in Nat /\ now \in Nat /\ now <= clock
  BY DEF TypeOK
<1>1. CASE Tick
  BY <1>0, <1>1 DEF Tick, StoreNow
<1>2. CASE Restart
  BY <1>0, <1>2 DEF Restart, StoreNow
<1>3. CASE List
  BY <1>0, <1>3 DEF List, StoreNow
<1>4. CASE UNCHANGED <<clock, now, backend>>
  BY <1>0, <1>4 DEF StoreNow
<1>5. ASSUME ~Tick, ~Restart, ~List
      PROVE  UNCHANGED <<clock, now, backend>>
  BY <1>5 DEF Next, vars, Emit, Cancel, Stop, Crash, Loop, BeginPoll, ListFails, EndPoll,
         LeavePoll, Examine, Defer, SkipOutOfScope, SkipSeen, Take, Admit, Suppress, Proceed,
         Trip, Park, Consult, Decide, DecideFails, DecideSkips, DecideActs, OpenWindow,
         Execute, Finish
<1> QED
  BY <1>1, <1>2, <1>3, <1>4, <1>5

\* Every step marks at most one window, of one to eight base windows from the
\* store's instant, and leaves the others; they are forgotten once they are over
\* or when the process that kept them in memory is gone.
WindowStep ==
    \A s \in Signals :
        \/ signalExpiry'[s] = signalExpiry[s]
        \/ signalExpiry'[s] = 0 /\ signalExpiry[s] <= StoreNow'
        \/ /\ restarts' = restarts + 1 /\ "memory" \in {backend, backend'}
           /\ signalExpiry'[s] \in {0, kept.signalExpiry[s]}
        \/ /\ signalExpiry'[s] >= StoreNow + DedupeTTL
           /\ signalExpiry'[s] <= StoreNow + 8 * DedupeTTL

LEMMA MarkedWindow ==
    ASSUME TypeOK, NEW r \in Signals, NEW n \in Nat, NEW end, NEW s \in Signals,
           signalExpiry' = MarkSignal(signalExpiry, r, StoreNow, n, end),
           DedupeTTL <= n, n <= 8 * DedupeTTL
    PROVE  \/ signalExpiry'[s] = signalExpiry[s]
           \/ /\ signalExpiry'[s] >= StoreNow + DedupeTTL
              /\ signalExpiry'[s] <= StoreNow + 8 * DedupeTTL
<1>1. StoreNow \in Nat /\ DedupeTTL \in Nat /\ signalExpiry \in [Signals -> Nat]
  BY WindowsAreNat DEF TypeOK, StoreNow
<1> QED
  BY <1>1 DEF MarkSignal

LEMMA EveryStepIsWindowStep == TypeOK /\ [Next]_vars => WindowStep
<1> SUFFICES ASSUME TypeOK, [Next]_vars, NEW s \in Signals
             PROVE  \/ signalExpiry'[s] = signalExpiry[s]
                    \/ signalExpiry'[s] = 0 /\ signalExpiry[s] <= StoreNow'
                    \/ /\ restarts' = restarts + 1 /\ "memory" \in {backend, backend'}
                       /\ signalExpiry'[s] \in {0, kept.signalExpiry[s]}
                    \/ /\ signalExpiry'[s] >= StoreNow + DedupeTTL
                       /\ signalExpiry'[s] <= StoreNow + 8 * DedupeTTL
  BY DEF WindowStep
<1>0. /\ StoreNow \in Nat /\ StoreNow' \in Nat /\ clock \in Nat
      /\ signalExpiry \in [Signals -> Nat]
      /\ kept.signalExpiry \in [Signals -> Nat]
      /\ DedupeTTL \in Nat /\ DedupeTTL <= 8 * DedupeTTL
  BY ClocksGrow, WindowsAreNat DEF TypeOK, Tables
<1>1. ASSUME signalExpiry' = EvictSignals(signalExpiry, StoreNow')
      PROVE  \/ signalExpiry'[s] = signalExpiry[s]
             \/ signalExpiry'[s] = 0 /\ signalExpiry[s] <= StoreNow'
  BY <1>0, <1>1 DEF EvictSignals, IsSignalFresh
<1>2. CASE Tick
  <2>1. signalExpiry' = signalExpiry \/ signalExpiry' = EvictSignals(signalExpiry, StoreNow')
    BY <1>2 DEF Tick, StoreNow
  <2> QED
    BY <2>1, <1>1
<1>3. CASE List
  <2>1. signalExpiry' = signalExpiry \/ signalExpiry' = EvictSignals(signalExpiry, StoreNow')
    BY <1>3 DEF List, StoreNow
  <2> QED
    BY <2>1, <1>1
<1>4. CASE Restart
  <2>1. CASE Reconnect
    <3>1. \/ signalExpiry' = signalExpiry
          \/ backend # "redis" /\ signalExpiry' = EvictSignals(kept.signalExpiry, clock)
      BY <2>1 DEF Reconnect
    <3>2. backend # "redis" => backend = "memory"
      BY DEF TypeOK, Backends
    <3>3. EvictSignals(kept.signalExpiry, clock)[s] \in {0, kept.signalExpiry[s]}
      BY <1>0 DEF EvictSignals
    <3> QED
      BY <1>4, <3>1, <3>2, <3>3 DEF Restart
  <2>2. CASE StartAfresh
    BY <1>4, <2>2, EmptyTablesType DEF Restart, StartAfresh
  <2> QED
    BY <1>4, <2>1, <2>2 DEF Restart
<1>5. ASSUME NEW end, Park(end)
      PROVE  \/ signalExpiry'[s] = signalExpiry[s]
             \/ /\ signalExpiry'[s] >= StoreNow + DedupeTTL
                /\ signalExpiry'[s] <= StoreNow + 8 * DedupeTTL
  <2>1. signal \in Signals /\ tries + 1 \in Nat
    BY <1>5, HandType DEF Park
  <2>2. signalExpiry' = MarkSignal(signalExpiry, signal, StoreNow, SignalBackoffTTL(tries + 1), end)
    BY <1>5 DEF Park
  <2> QED
    BY <2>1, <2>2, BackoffRange, MarkedWindow
<1>6. ASSUME NEW end, OpenWindow(end)
      PROVE  \/ signalExpiry'[s] = signalExpiry[s]
             \/ /\ signalExpiry'[s] >= StoreNow + DedupeTTL
                /\ signalExpiry'[s] <= StoreNow + 8 * DedupeTTL
  <2>1. signal \in Signals /\ tries \in Nat
    BY <1>6, HandType DEF OpenWindow
  <2>2. signalExpiry' = MarkSignal(signalExpiry, signal, StoreNow, SignalBackoffTTL(tries), end)
    BY <1>6 DEF OpenWindow
  <2> QED
    BY <2>1, <2>2, BackoffRange, MarkedWindow
<1>7. ASSUME NEW severity, NEW action, NEW end, DecideSkips(severity, action, end)
      PROVE  \/ signalExpiry'[s] = signalExpiry[s]
             \/ /\ signalExpiry'[s] >= StoreNow + DedupeTTL
                /\ signalExpiry'[s] <= StoreNow + 8 * DedupeTTL
  <2>1. signal \in Signals
    BY <1>7, HandType DEF DecideSkips
  <2>2. signalExpiry' = MarkSignal(signalExpiry, signal, StoreNow, DedupeTTL, end)
    BY <1>7 DEF DecideSkips
  <2> QED
    BY <2>1, <2>2, <1>0, MarkedWindow
<1>8. ASSUME ~Tick, ~List, ~Restart, ~\E end \in Endings : Park(end) \/ OpenWindow(end),
             ~\E severity \in Severities, action \in Actions, end \in Endings :
                  DecideSkips(severity, action, end)
      PROVE  signalExpiry' = signalExpiry
  BY <1>8 DEF Next, vars, Emit, Cancel, Stop, Crash, Loop, BeginPoll, ListFails, EndPoll,
         LeavePoll, Examine, Defer, SkipOutOfScope, SkipSeen, Take, Admit, Suppress, Proceed,
         Trip, Consult, Decide, DecideFails, DecideActs, Execute
<1> QED
  BY <1>2, <1>3, <1>4, <1>5, <1>6, <1>7, <1>8

\* What Redis keeps changes only when a process starts.
LEMMA KeptStep ==
    ASSUME TypeOK, [Next]_vars
    PROVE  \/ kept' = kept
           \/ kept' = EmptyTables
           \/ kept' = [seen |-> seen, signalExpiry |-> signalExpiry, attempts |-> attempts]
BY DEF Next, vars, Emit, Tick, Cancel, Stop, Crash, Restart, Reconnect, StartAfresh, Loop,
       BeginPoll, List, ListFails, EndPoll, LeavePoll, Examine, Defer, SkipOutOfScope, SkipSeen,
       Take, Admit, Suppress, Proceed, Trip, Park, Consult, Decide, DecideFails, DecideSkips,
       DecideActs, OpenWindow, Execute, Finish

\* The bound holds of the windows that wait in Redis too.
SilenceInv ==
    SilenceBounded /\ \A s \in Signals : kept.signalExpiry[s] <= clock + 8 * DedupeTTL

\* No signal is ever silenced for more than eight base windows ahead
\* (signalBackoffTTL and its callers).
THEOREM SilenceIsBounded == Spec => []SilenceBounded
<1>1. Init => SilenceInv
  BY WindowsAreNat, EmptyTablesType DEF Init, SilenceInv, SilenceBounded
<1>2. TypeOK /\ SilenceInv /\ [Next]_vars => SilenceInv'
  <2> SUFFICES ASSUME TypeOK, SilenceInv, [Next]_vars, NEW s \in Signals
               PROVE  /\ signalExpiry'[s] <= clock' + 8 * DedupeTTL
                      /\ kept.signalExpiry'[s] <= clock' + 8 * DedupeTTL
    BY DEF SilenceInv, SilenceBounded
  <2>1. /\ clock \in Nat /\ clock' \in Nat /\ clock <= clock' /\ DedupeTTL \in Nat
        /\ StoreNow \in Nat /\ StoreNow <= clock
        /\ signalExpiry[s] \in Nat /\ signalExpiry[s] <= clock + 8 * DedupeTTL
        /\ kept.signalExpiry[s] \in Nat /\ kept.signalExpiry[s] <= clock + 8 * DedupeTTL
    BY ClocksGrow, WindowsAreNat DEF TypeOK, Tables, SilenceInv, SilenceBounded
  <2>2. signalExpiry'[s] \in Nat
    BY StepTypeOK DEF TypeOK
  <2>3. signalExpiry'[s] <= clock' + 8 * DedupeTTL
    BY <2>1, <2>2, EveryStepIsWindowStep DEF WindowStep
  <2>4. kept.signalExpiry'[s] \in {kept.signalExpiry[s], 0, signalExpiry[s]}
    BY KeptStep, EmptyTablesType
  <2> QED
    BY <2>1, <2>3, <2>4
<1>3. SilenceInv => SilenceBounded
  BY DEF SilenceInv
<1> QED
  BY <1>1, <1>2, <1>3, TypeCorrect, PTL DEF Spec

-----------------------------------------------------------------------------
(* Nothing is swallowed                                                    *)

Accounted(ev) == ev \in handled \/ current = ev

\* What Redis keeps is accounted for as well.
SeenInv == SeenIsAccounted /\ \A ev \in EventVersions : kept.seen[ev] # NotSeen => Accounted(ev)

\* An event version that is accounted for stays so.
LEMMA AccountedStays ==
    ASSUME TypeOK, [Next]_vars, NEW ev \in EventVersions, Accounted(ev)
    PROVE  Accounted(ev)'
<1>1. CASE UNCHANGED <<handled, current>>
  BY <1>1 DEF Accounted
<1>2. CASE handled' = handled \union {current}
  BY <1>2 DEF Accounted
<1>3. CASE Restart
  BY <1>3, NoEventIsNoVersion DEF Restart, Accounted
<1>4. ASSUME NEW e2, NEW end, Take(e2, end)
      PROVE  Accounted(ev)'
  <2>1. current = NoEvent /\ handled' = handled
    BY <1>4, HandType DEF Take, Admit
  <2> QED
    BY <2>1, NoEventIsNoVersion DEF Accounted
<1>5. ASSUME ~Restart, ~\E e2 \in pending, end \in Endings : Take(e2, end)
      PROVE  UNCHANGED <<handled, current>> \/ handled' = handled \union {current}
  BY <1>5 DEF Next, vars, Emit, Tick, Cancel, Stop, Crash, Loop, BeginPoll, List, ListFails,
         EndPoll, LeavePoll, Examine, Defer, SkipOutOfScope, SkipSeen, Admit, Suppress, Proceed,
         Trip, Park, Consult, Decide, DecideFails, DecideSkips, DecideActs, OpenWindow,
         Execute, Finish
<1> QED
  BY <1>1, <1>2, <1>3, <1>4, <1>5

\* A mark is an old one, one that Redis has kept, or that of the event taken.
LEMMA SeenStep ==
    ASSUME TypeOK, [Next]_vars, NEW ev \in EventVersions, seen'[ev] # NotSeen
    PROVE  seen[ev] # NotSeen \/ kept.seen[ev] # NotSeen \/ current' = ev
<1>0. /\ seen \in [EventVersions -> Nat \union {NotSeen}]
      /\ kept.seen \in [EventVersions -> Nat \union {NotSeen}]
  BY DEF TypeOK, Tables
<1>1. CASE seen' = seen
  BY <1>1
<1>2. ASSUME NEW t, NEW sn \in [EventVersions -> Nat \union {NotSeen}],
             seen' = EvictSeen(sn, t, EventSeenTTL)
      PROVE  sn[ev] # NotSeen
  BY <1>2 DEF EvictSeen
<1>3. CASE Tick
  <2>1. seen' = seen \/ seen' = EvictSeen(seen, clock', EventSeenTTL)
    BY <1>3 DEF Tick
  <2> QED
    BY <2>1, <1>0, <1>2
<1>4. CASE List
  <2>1. seen' = seen \/ seen' = EvictSeen(seen, now', EventSeenTTL)
    BY <1>4 DEF List
  <2> QED
    BY <2>1, <1>0, <1>2
<1>5. CASE Restart
  <2>1. \/ seen' = seen
        \/ seen' = EvictSeen(kept.seen, clock, EventSeenTTL)
        \/ seen' = EmptyTables.seen
    BY <1>5 DEF Restart, Reconnect, StartAfresh
  <2>2. EmptyTables.seen[ev] = NotSeen
    BY DEF EmptyTables
  <2> QED
    BY <2>1, <2>2, <1>0, <1>2
<1>6. ASSUME NEW e2 \in EventVersions, NEW end, SkipSeen(e2, end) \/ Take(e2, end)
      PROVE  seen[ev] # NotSeen \/ current' = ev
  <2>1. seen' = MarkSeen(seen, e2, StoreNow, end)
    BY <1>6 DEF SkipSeen, Take, Admit
  <2>2. e2 # ev => seen'[ev] = seen[ev]
    BY <1>0, <2>1 DEF MarkSeen
  <2>3. CASE Take(e2, end)
    BY <2>2, <2>3 DEF Take
  <2>4. CASE SkipSeen(e2, end)
    BY <2>2, <2>4 DEF SkipSeen, SaysNew
  <2> QED
    BY <1>6, <2>3, <2>4
<1>7. ASSUME ~Tick, ~List, ~Restart,
             ~\E e2 \in pending, end \in Endings : SkipSeen(e2, end) \/ Take(e2, end)
      PROVE  seen' = seen
  BY <1>7 DEF Next, vars, Emit, Cancel, Stop, Crash, Loop, BeginPoll, ListFails, EndPoll,
         LeavePoll, Examine, Defer, SkipOutOfScope, Suppress, Proceed, Trip, Park, Consult,
         Decide, DecideFails, DecideSkips, DecideActs, OpenWindow, Execute
<1>8. pending \subseteq EventVersions
  BY DEF TypeOK
<1> QED
  BY <1>1, <1>3, <1>4, <1>5, <1>6, <1>7, <1>8

LEMMA SeenInvariant == Spec => []SeenInv
<1>1. Init => SeenInv
  BY DEF Init, SeenInv, SeenIsAccounted, EmptyTables
<1>2. TypeOK /\ SeenInv /\ [Next]_vars => SeenInv'
  <2> SUFFICES ASSUME TypeOK, SeenInv, [Next]_vars, NEW ev \in EventVersions
               PROVE  /\ seen'[ev] # NotSeen => Accounted(ev)'
                      /\ kept.seen'[ev] # NotSeen => Accounted(ev)'
    BY DEF SeenInv, SeenIsAccounted, Accounted
  <2>1. seen[ev] # NotSeen \/ kept.seen[ev] # NotSeen => Accounted(ev)'
    BY AccountedStays DEF SeenInv, SeenIsAccounted, Accounted
  <2>2. seen'[ev] # NotSeen => Accounted(ev)'
    BY <2>1, SeenStep DEF Accounted
  <2>3. kept.seen'[ev] \in {kept.seen[ev], seen[ev], NotSeen}
    BY KeptStep DEF EmptyTables
  <2> QED
    BY <2>1, <2>2, <2>3
<1> QED
  BY <1>1, <1>2, TypeCorrect, PTL DEF Spec

\* An event version marked seen has been handled or is in hand: the two deferral
\* exits of a poll, the refusals, a restart and a failing call of Redis all keep
\* it so.
THEOREM NothingSwallowed == Spec => []SeenIsAccounted
<1>1. SeenInv => SeenIsAccounted
  BY DEF SeenInv
<1> QED
  BY <1>1, SeenInvariant, PTL

-----------------------------------------------------------------------------
(* The loop throttles                                                      *)

\* What the loop shows of the throttle.
Streaks    == [s \in Signals |-> attempts[s].count]
StreakEnds == [s \in Signals |-> attempts[s].expires]
Hand       == IF Stage = "free" THEN NoSignal ELSE signal
Number     == IF pc = "mark" THEN tries ELSE 0
Left       == [quietUntil |-> kept.signalExpiry,
               streak     |-> [s \in Signals |-> kept.attempts[s].count],
               streakEnds |-> [s \in Signals |-> kept.attempts[s].expires]]

\* The windows of the two modules are the same.
LEMMA SameBackoff ==
  ASSUME NEW n \in Nat \ {0}
  PROVE  SignalBackoffTTL(n) = Throttle!Backoff(n)
<1>1. CASE n = 1
  BY <1>1, ConfigAssumption, SMT DEF SignalBackoffTTL, Throttle!Backoff
<1>2. CASE n = 2
  BY <1>2, ConfigAssumption, SMT DEF SignalBackoffTTL, Throttle!Backoff
<1>3. CASE n = 3
  BY <1>3, ConfigAssumption, SMT DEF SignalBackoffTTL, Throttle!Backoff
<1>4. CASE n > 3
  BY <1>4, ConfigAssumption, SMT DEF SignalBackoffTTL, Throttle!Backoff
<1>. QED
  BY <1>1, <1>2, <1>3, <1>4, SMT

\* The stages of the steps.
LEMMA Stages ==
  /\ pc \in {"idle", "list", "scan", "window", "exec"} =>
        Stage = "free" /\ Hand = NoSignal /\ Number = 0
  /\ pc = "breaker" => Stage = "open" /\ Hand = signal /\ Number = 0
  /\ pc = "park" => Stage = "refused" /\ Hand = signal /\ Number = 0
  /\ pc = "decide" => Stage = "asked" /\ Hand = signal /\ Number = 0
  /\ pc = "mark" => Stage = "counted" /\ Hand = signal /\ Number = tries
BY DEF Stage, Hand, Number

\* The stages of the next state.
LEMMA StagesNext ==
  /\ pc' \in {"idle", "list", "scan", "window", "exec"} =>
        Stage' = "free" /\ Hand' = NoSignal /\ Number' = 0
  /\ pc' = "breaker" => Stage' = "open" /\ Hand' = signal' /\ Number' = 0
  /\ pc' = "park" => Stage' = "refused" /\ Hand' = signal' /\ Number' = 0
  /\ pc' = "decide" => Stage' = "asked" /\ Hand' = signal' /\ Number' = 0
  /\ pc' = "mark" => Stage' = "counted" /\ Hand' = signal' /\ Number' = tries'
BY DEF Stage, Hand, Number

LEMMA ThrottleTypes ==
  ASSUME BreakerInv
  PROVE  /\ StoreNow \in Nat /\ failures \in Nat /\ restarts \in Nat
         /\ signalExpiry \in [Signals -> Nat]
         /\ attempts \in [Signals -> AttemptEntry]
         /\ \A s \in Signals : /\ Streaks[s] = attempts[s].count /\ Streaks[s] \in Nat
                               /\ StreakEnds[s] = attempts[s].expires
                               /\ StreakEnds[s] \in Nat
         /\ SignalMaxAttempts \in Nat /\ AttemptWindow \in Nat
BY WindowsAreNat, ConfigAssumption
   DEF BreakerInv, TypeOK, StoreNow, Streaks, StreakEnds, AttemptEntry

\* The world the throttle sees stands still.
StillWorld == UNCHANGED <<clock, now, backend, restarts, kept>>

LEMMA StillThrottle ==
  ASSUME StillWorld
  PROVE  StoreNow' = StoreNow /\ Left' = Left
BY DEF StillWorld, StoreNow, Left

LEMMA SameStreaks ==
  ASSUME attempts' = attempts
  PROVE  Streaks' = Streaks /\ StreakEnds' = StreakEnds
BY DEF Streaks, StreakEnds

\* A step that only a failing call of Redis shows of.
LEMMA StepLeavesAlone ==
  ASSUME BreakerInv, StillWorld, signalExpiry' = signalExpiry, attempts' = attempts,
         Stage' = Stage, Hand' = Hand, Number' = Number,
         failures' = failures \/ failures' = failures + 1
  PROVE  [Throttle!NextThrottle]_(Throttle!tvars)
<1>1. StoreNow' = StoreNow /\ Left' = Left /\ Streaks' = Streaks /\ StreakEnds' = StreakEnds
      /\ restarts' = restarts
  BY StillThrottle, SameStreaks DEF StillWorld
<1>2. CASE failures' = failures
  BY <1>1, <1>2 DEF Throttle!tvars, Throttle!throttle, Streaks, StreakEnds, Hand, Number, Left
<1>3. CASE failures' = failures + 1
  <2>1. Throttle!Falter
    BY <1>1, <1>3
       DEF Throttle!Falter, Throttle!Faults, Throttle!throttle, Streaks, StreakEnds, Hand,
           Number, Left
  <2> QED
    BY <2>1 DEF Throttle!NextThrottle
<1> QED
  BY <1>2, <1>3

LEMMA CallEnds ==
  ASSUME BreakerInv, NEW end, Call(end)
  PROVE  /\ end = "done" => failures' = failures
         /\ end # "done" => failures' = failures + 1
BY DEF Call, BreakerInv, TypeOK

\* What eviction forgets is over.
LEMMA EvictionForgets ==
  ASSUME NEW t \in Nat, NEW be, NEW se \in [Signals -> Nat],
         NEW at \in [Signals -> AttemptEntry], NEW s \in Signals
  PROVE  /\ \/ EvictSignals(se, t)[s] = se[s]
            \/ EvictSignals(se, t)[s] = 0 /\ t >= se[s]
         /\ \/ EvictAttempts(be, at, t)[s] = at[s]
            \/ EvictAttempts(be, at, t)[s] = NoAttempts /\ t >= at[s].expires
BY DEF EvictSignals, IsSignalFresh, EvictAttempts, AttemptsExpired, AttemptEntry

LEMMA EvictionAdvances ==
  ASSUME BreakerInv, StoreNow' \in Nat, StoreNow <= StoreNow',
         kept' = kept, restarts' = restarts, failures' = failures,
         Stage' = Stage, Hand' = Hand, Number' = Number,
         signalExpiry' = EvictSignals(signalExpiry, StoreNow'),
         attempts' = EvictAttempts(backend, attempts, StoreNow')
  PROVE  Throttle!Advance
<1>1. ASSUME NEW s \in Signals
      PROVE  /\ \/ signalExpiry'[s] = signalExpiry[s]
                \/ signalExpiry'[s] = 0 /\ StoreNow' >= signalExpiry[s]
             /\ \/ Streaks'[s] = Streaks[s] /\ StreakEnds'[s] = StreakEnds[s]
                \/ Streaks'[s] = 0 /\ StreakEnds'[s] = 0 /\ StoreNow' >= StreakEnds[s]
  <2>1. Streaks'[s] = attempts'[s].count /\ StreakEnds'[s] = attempts'[s].expires
    BY SMT DEF Streaks, StreakEnds
  <2>2. /\ \/ signalExpiry'[s] = signalExpiry[s]
           \/ signalExpiry'[s] = 0 /\ StoreNow' >= signalExpiry[s]
        /\ \/ attempts'[s] = attempts[s]
           \/ attempts'[s] = NoAttempts /\ StoreNow' >= attempts[s].expires
    BY EvictionForgets, ThrottleTypes
  <2>. QED
    BY <2>1, <2>2, ThrottleTypes, SMT DEF NoAttempts
<1>2. Left' = Left
  BY DEF Left
<1>3. Throttle!Passed(signalExpiry, Streaks, StreakEnds)
  BY <1>1 DEF Throttle!Passed, Streaks, StreakEnds
<1>. QED
  BY <1>2, <1>3, ThrottleTypes
     DEF Throttle!Advance, Throttle!Works, Streaks, StreakEnds, Hand, Number, Left

LEMMA ProceedTakesUp ==
  ASSUME BreakerInv, NEW s \in Signals, NEW end, Proceed(s, end)
  PROVE  Throttle!TakeUp(s)
<1>1. /\ pc = "window" /\ pc' = "breaker" /\ signal' = s
      /\ StillWorld /\ signalExpiry' = signalExpiry /\ attempts' = attempts
      /\ Call(end) /\ ~SaysFresh(signalExpiry, s, StoreNow, end)
  BY DEF Proceed, StillWorld
<1>2. \/ failures' = failures /\ StoreNow >= signalExpiry[s]
      \/ failures' = failures + 1
  BY <1>1, CallEnds, ThrottleTypes DEF SaysFresh, IsSignalFresh
<1>. QED
  BY <1>1, <1>2, Stages, StagesNext, StillThrottle, SameStreaks
     DEF Throttle!TakeUp, Throttle!Works, Throttle!Faults, Throttle!throttle, StillWorld,
         Streaks, StreakEnds, Hand, Number, Left

\* What a counter says is its streak, unless the streak is over.
LEMMA SaidOfStreak ==
  ASSUME BreakerInv, NEW s \in Signals
  PROVE  /\ Attempts(backend, attempts, s, StoreNow) \in {0, Streaks[s]}
         /\ Attempts(backend, attempts, s, StoreNow) # Streaks[s] => StoreNow >= StreakEnds[s]
         /\ Attempts(backend, attempts, s, StoreNow) > 0 => StoreNow <= StreakEnds[s]
BY ThrottleTypes, SMT DEF Attempts, AttemptsExpired

LEMMA TripRefuses ==
  ASSUME BreakerInv, Trip
  PROVE  Throttle!Refuse
<1>1. /\ pc = "breaker" /\ pc' = "park" /\ signal' = signal /\ failures' = failures
      /\ StillWorld /\ signalExpiry' = signalExpiry /\ attempts' = attempts
      /\ Breaker /\ Attempts(backend, attempts, signal, StoreNow) >= SignalMaxAttempts
  BY DEF Trip, StillWorld, BreakerOpen, SaysAttempts
<1>2. signal \in Signals
  BY <1>1, HandType DEF BreakerInv
<1>3. /\ SignalMaxAttempts > 0 /\ Streaks[signal] >= SignalMaxAttempts
      /\ StoreNow <= StreakEnds[signal]
  BY <1>1, <1>2, SaidOfStreak, ThrottleTypes, SMT DEF Breaker
<1>. QED
  BY <1>1, <1>3, Stages, StagesNext, StillThrottle, SameStreaks
     DEF Throttle!Refuse, Throttle!Works, Throttle!Limited, Throttle!throttle, StillWorld,
         Streaks, StreakEnds, Hand, Number, Left

LEMMA ConsultAsks ==
  ASSUME BreakerInv, NEW end, Consult(end)
  PROVE  Throttle!Ask
<1>1. /\ pc = "breaker" /\ pc' = "decide" /\ signal' = signal
      /\ StillWorld /\ signalExpiry' = signalExpiry /\ attempts' = attempts
      /\ ~BreakerOpen(end)
  BY DEF Consult, StillWorld
<1>2. signal \in Signals
  BY <1>1, HandType DEF BreakerInv
<1>3. \/ /\ failures' = failures
         /\ SignalMaxAttempts > 0 /\ Streaks[signal] >= SignalMaxAttempts
               => StoreNow >= StreakEnds[signal]
      \/ failures' = failures + 1
  <2>1. CASE ~Breaker
    BY <2>1 DEF Breaker, Consult, NoCall
  <2>2. CASE Breaker
    <3>1. Call(end)
      BY <2>2 DEF Consult
    <3>2. CASE end = "done"
      <4>1. ~(Attempts(backend, attempts, signal, StoreNow) >= SignalMaxAttempts)
        BY <1>1, <2>2, <3>2 DEF BreakerOpen, SaysAttempts
      <4>2. Streaks[signal] >= SignalMaxAttempts => StoreNow >= StreakEnds[signal]
        BY <1>2, <4>1, SaidOfStreak
      <4>. QED
        BY <3>1, <3>2, <4>2, CallEnds
    <3>3. CASE end # "done"
      BY <3>1, <3>3, CallEnds
    <3>. QED
      BY <3>2, <3>3
  <2>. QED
    BY <2>1, <2>2
<1>. QED
  BY <1>1, <1>3, Stages, StagesNext, StillThrottle, SameStreaks
     DEF Throttle!Ask, Throttle!Works, Throttle!Faults, Throttle!Limited, Throttle!throttle,
         StillWorld, Streaks, StreakEnds, Hand, Number, Left

LEMMA FailureGivesUp ==
  ASSUME BreakerInv, DecideFails
  PROVE  Throttle!GiveUp
<1>1. /\ pc = "decide" /\ pc' = "scan" /\ failures' = failures
      /\ StillWorld /\ signalExpiry' = signalExpiry /\ attempts' = attempts
  BY DEF DecideFails, Finish, StillWorld
<1>. QED
  BY <1>1, Stages, StagesNext, StillThrottle, SameStreaks
     DEF Throttle!GiveUp, Throttle!PutDown, Throttle!Works, Throttle!throttle, StillWorld,
         Streaks, StreakEnds, Hand, Number, Left

\* A window is opened, or the call of Redis that was to open it has failed.
LEMMA MarkSilences ==
  ASSUME BreakerInv, NEW window, NEW end, Call(end), Hand = signal,
         signalExpiry' = MarkSignal(signalExpiry, signal, StoreNow, window, end)
  PROVE  Throttle!Silence(window)
<1>1. CASE end = "failed"
  <2>1. signalExpiry' = signalExpiry
    BY <1>1, ThrottleTypes DEF MarkSignal
  <2>. QED
    BY <1>1, <2>1, CallEnds DEF Throttle!Silence, Throttle!Faults
<1>2. CASE end # "failed"
  <2>1. signalExpiry' = [signalExpiry EXCEPT ![Hand] = StoreNow + window]
    BY <1>2 DEF MarkSignal
  <2>2. failures' = failures \/ failures' = failures + 1
    BY CallEnds
  <2>. QED
    BY <2>1, <2>2 DEF Throttle!Silence, Throttle!Works, Throttle!Faults, Hand
<1>. QED
  BY <1>1, <1>2

LEMMA ParkParks ==
  ASSUME BreakerInv, NEW end, Park(end)
  PROVE  Throttle!Park
<1>1. /\ pc = "park" /\ pc' = "scan" /\ StillWorld /\ attempts' = attempts /\ Call(end)
      /\ signalExpiry' = MarkSignal(signalExpiry, signal, StoreNow,
                                    SignalBackoffTTL(tries + 1), end)
  BY DEF Park, Finish, StillWorld
<1>2. tries \in Nat /\ tries >= SignalMaxAttempts
  BY <1>1, HandType DEF BreakerInv, TriesCounted
<1>3. PICK n \in {4} \union (SignalMaxAttempts + 1 .. 4) :
         SignalBackoffTTL(tries + 1) = Throttle!Backoff(n)
  <2>1. CASE tries + 1 <= 4
    <3>1. tries + 1 \in SignalMaxAttempts + 1 .. 4 /\ tries + 1 \in Nat \ {0}
      BY <1>2, <2>1, ThrottleTypes
    <3>. QED
      BY <3>1, SameBackoff
  <2>2. CASE tries + 1 > 4
    <3>1. SignalBackoffTTL(tries + 1) = SignalBackoffTTL(4)
      BY <1>2, <2>2 DEF SignalBackoffTTL
    <3>. QED
      BY <3>1, SameBackoff
  <2>. QED
    BY <1>2, <2>1, <2>2
<1>4. Throttle!Silence(Throttle!Backoff(n))
  BY <1>1, <1>3, Stages, MarkSilences
<1>. QED
  BY <1>1, <1>4, Stages, StagesNext, StillThrottle, SameStreaks
     DEF Throttle!Park, Throttle!PutDown, StillWorld, Streaks, StreakEnds, Hand, Number, Left

LEMMA SkipDiscards ==
  ASSUME BreakerInv, NEW severity, NEW action, NEW end, DecideSkips(severity, action, end)
  PROVE  Throttle!Discard
<1>1. /\ pc = "decide" /\ pc' = "scan" /\ StillWorld /\ attempts' = attempts /\ Call(end)
      /\ signalExpiry' = MarkSignal(signalExpiry, signal, StoreNow, DedupeTTL, end)
  BY DEF DecideSkips, Finish, StillWorld
<1>2. Throttle!Silence(DedupeTTL)
  BY <1>1, Stages, MarkSilences
<1>. QED
  BY <1>1, <1>2, Stages, StagesNext, StillThrottle, SameStreaks
     DEF Throttle!Discard, Throttle!PutDown, StillWorld, Streaks, StreakEnds, Hand, Number, Left

LEMMA OpenAttempts ==
  ASSUME BreakerInv, NEW end, OpenWindow(end)
  PROVE  Throttle!Attempt
<1>1. /\ pc = "mark" /\ pc' = "exec" /\ StillWorld /\ attempts' = attempts /\ Call(end)
      /\ signalExpiry' = MarkSignal(signalExpiry, signal, StoreNow, SignalBackoffTTL(tries), end)
  BY DEF OpenWindow, StillWorld
<1>2. tries \in Nat \ {0}
  BY <1>1, HandType DEF BreakerInv, TriesCounted
<1>3. Throttle!Silence(Throttle!Backoff(Number))
  BY <1>1, <1>2, Stages, SameBackoff, MarkSilences
<1>. QED
  BY <1>1, <1>3, Stages, StagesNext, StillThrottle, SameStreaks
     DEF Throttle!Attempt, Throttle!PutDown, StillWorld, Streaks, StreakEnds, Hand, Number, Left

\* Another value of a function at one argument.
LEMMA OneValue ==
  ASSUME NEW S, NEW f, f = [r \in S |-> f[r]], NEW s, NEW x
  PROVE  [f EXCEPT ![s] = x] = [r \in S |-> IF r = s THEN x ELSE f[r]]
<1>1. PICK g : g = [f EXCEPT ![s] = x]
  OBVIOUS
<1>2. g = [r \in S |-> IF r = s THEN x ELSE f[r]]
  BY <1>1, SMT
<1>. QED
  BY <1>1, <1>2

\* An attempt that is counted lets its streak grow.
LEMMA IncrementGrows ==
  ASSUME BreakerInv, pc = "decide", Breaker, NEW s, s = signal, s = Hand, StillWorld,
         NEW n, n = Attempts(backend, attempts, s, StoreNow) + 1,
         attempts' = [attempts EXCEPT ![s] =
                        [count |-> n, expires |-> StoreNow + AttemptWindow]]
  PROVE  n \in {1, Streaks[s] + 1} /\ Throttle!Grow(n)
<1>1. s \in Signals
  BY HandType DEF BreakerInv
<1>2. Attempts(backend, attempts, s, StoreNow) \in Nat
  BY <1>1, SaidOfStreak, ThrottleTypes
<1>3. n \in {1, Streaks[s] + 1} /\ (n # Streaks[s] + 1 => StoreNow >= StreakEnds[s])
  BY <1>1, SaidOfStreak
<1>4. n <= SignalMaxAttempts + failures
  <2>1. Attempts(backend, attempts, s, StoreNow) < SignalMaxAttempts + failures
    BY DEF BreakerInv, CheckedBeforeCall
  <2>. QED
    BY <1>2, <2>1, ThrottleTypes
<1>5. \A r \in Signals :
         /\ attempts'[r].count = IF r = s THEN n ELSE attempts[r].count
         /\ attempts'[r].expires = IF r = s THEN StoreNow + AttemptWindow
                                   ELSE attempts[r].expires
  BY ThrottleTypes, SMT
<1>6. Streaks' = [Streaks EXCEPT ![s] = n]
  <2>1. Streaks = [r \in Signals |-> Streaks[r]]
    BY SMT DEF Streaks
  <2>2. [Streaks EXCEPT ![s] = n] = [r \in Signals |-> IF r = s THEN n ELSE Streaks[r]]
    BY <2>1, OneValue
  <2>3. [Streaks EXCEPT ![s] = n] = [r \in Signals |-> IF r = s THEN n ELSE attempts[r].count]
    BY <2>2, SMT DEF Streaks
  <2>4. Streaks' = [r \in Signals |-> IF r = s THEN n ELSE attempts[r].count]
    BY <1>5, SMT DEF Streaks
  <2>. QED
    BY <2>3, <2>4
<1>7. StreakEnds' = [StreakEnds EXCEPT ![s] = StoreNow + AttemptWindow]
  <2>1. StreakEnds = [r \in Signals |-> StreakEnds[r]]
    BY SMT DEF StreakEnds
  <2>2. [StreakEnds EXCEPT ![s] = StoreNow + AttemptWindow] =
           [r \in Signals |-> IF r = s THEN StoreNow + AttemptWindow ELSE StreakEnds[r]]
    BY <2>1, OneValue
  <2>3. [StreakEnds EXCEPT ![s] = StoreNow + AttemptWindow] =
           [r \in Signals |-> IF r = s THEN StoreNow + AttemptWindow ELSE attempts[r].expires]
    BY <2>2, SMT DEF StreakEnds
  <2>4. StreakEnds' = [r \in Signals |-> IF r = s THEN StoreNow + AttemptWindow
                                         ELSE attempts[r].expires]
    BY <1>5, SMT DEF StreakEnds
  <2>. QED
    BY <2>3, <2>4
<1>. QED
  BY <1>3, <1>4, <1>6, <1>7 DEF Throttle!Grow, Streaks, StreakEnds, Hand

LEMMA ActCounts ==
  ASSUME BreakerInv, NEW severity, NEW action, NEW end, DecideActs(severity, action, end)
  PROVE  Throttle!Count
<1>0. PICK s : s = signal
  OBVIOUS
<1>1. /\ pc = "decide" /\ pc' = "mark" /\ signal' = signal
      /\ StillWorld /\ signalExpiry' = signalExpiry
  BY DEF DecideActs, StillWorld
<1>s. /\ Stage = "asked" /\ Stage' = "counted" /\ Hand = s /\ Hand' = s /\ Number' = tries'
      /\ StoreNow' = StoreNow /\ Left' = Left /\ restarts' = restarts
  BY <1>0, <1>1, Stages, StagesNext, StillThrottle DEF StillWorld
<1>2. CASE ~Breaker
  <2>1. tries' = 1 /\ attempts' = attempts /\ failures' = failures
    BY <1>2 DEF DecideActs, NoCall
  <2>2. ~Throttle!Limited
    BY <1>2 DEF Throttle!Limited, Breaker
  <2>. QED
    BY <1>1, <1>s, <2>1, <2>2, SameStreaks
       DEF Throttle!Count, Throttle!Works, Streaks, StreakEnds, Hand, Number, Left
<1>3. CASE Breaker
  <2>0. PICK n : n = Attempts(backend, attempts, s, StoreNow) + 1
    OBVIOUS
  <2>1. /\ Call(end)
        /\ attempts' = IncrAttempt(backend, attempts, s, StoreNow, AttemptWindow, end)
        /\ tries' = IF end = "done" THEN n ELSE 1
    BY <1>0, <1>3, <2>0 DEF DecideActs, SaysCount
  <2>2. Throttle!Limited
    BY <1>3 DEF Throttle!Limited, Breaker
  <2>3. CASE end = "failed"
    <3>1. attempts' = attempts /\ tries' = 1 /\ failures' = failures + 1
      BY <2>1, <2>3, CallEnds DEF IncrAttempt
    <3>. QED
      BY <1>1, <1>s, <2>2, <3>1, SameStreaks
         DEF Throttle!Count, Throttle!Faults, Streaks, StreakEnds, Hand, Number, Left
  <2>4. CASE end # "failed"
    <3>1. attempts' = [attempts EXCEPT ![s] =
                         [count |-> n, expires |-> StoreNow + AttemptWindow]]
      BY <2>0, <2>1, <2>4 DEF IncrAttempt
    <3>2. n \in {1, Streaks[s] + 1} /\ Throttle!Grow(n)
      BY <1>0, <1>1, <1>s, <1>3, <2>0, <3>1, IncrementGrows
    <3>3. CASE end = "done"
      <4>1. tries' = n /\ failures' = failures
        BY <2>1, <3>3, CallEnds
      <4>. QED
        BY <1>1, <1>s, <2>2, <3>2, <4>1
           DEF Throttle!Count, Throttle!Works, Streaks, StreakEnds, Hand, Number, Left
    <3>4. CASE end # "done"
      <4>1. tries' = 1 /\ failures' = failures + 1
        BY <2>1, <3>4, CallEnds
      <4>. QED
        BY <1>1, <1>s, <2>2, <3>2, <4>1
           DEF Throttle!Count, Throttle!Faults, Streaks, StreakEnds, Hand, Number, Left
    <3>. QED
      BY <3>3, <3>4
  <2>. QED
    BY <2>3, <2>4
<1>. QED
  BY <1>2, <1>3

\* Empty tables promise nothing.
LEMMA EmptyPromisesNothing ==
  /\ attempts' = EmptyTables.attempts =>
        Streaks' = [s \in Signals |-> 0] /\ StreakEnds' = [s \in Signals |-> 0]
  /\ kept' = EmptyTables => Left' = Throttle!Nothing
<1>1. ASSUME NEW at, at = [s \in Signals |-> NoAttempts]
      PROVE  /\ [s \in Signals |-> at[s].count] = [s \in Signals |-> 0]
             /\ [s \in Signals |-> at[s].expires] = [s \in Signals |-> 0]
  BY <1>1, SMT DEF NoAttempts
<1>. QED
  BY <1>1, EmptyTablesType DEF Streaks, StreakEnds, Left, Throttle!Nothing

LEMMA RestartsThrottle ==
  ASSUME BreakerInv, Restart
  PROVE  Throttle!Restarts
<1>1. /\ restarts' = restarts + 1 /\ StoreNow' = clock /\ pc' = "idle"
      /\ Stage' = "free" /\ Hand' = NoSignal /\ Number' = 0
  BY StagesNext DEF Restart, StoreNow
<1>2. StoreNow' >= StoreNow
  BY <1>1 DEF BreakerInv, TypeOK, StoreNow
<1>3. /\ backend \in Backends
      /\ kept.signalExpiry \in [Signals -> Nat] /\ kept.attempts \in [Signals -> AttemptEntry]
  BY DEF BreakerInv, TypeOK, Tables
<1>4. Throttle!PutDown
  BY <1>1 DEF Throttle!PutDown, Hand, Number
<1>5. ASSUME \/ /\ Backend = "redis" /\ failures' = failures
                /\ signalExpiry' = signalExpiry /\ attempts' = attempts /\ Left' = Left
             \/ /\ Backend # "redis" /\ failures' = failures /\ Left' = Left
                /\ signalExpiry' = [s \in Signals |-> 0]
                /\ Streaks' = [s \in Signals |-> 0] /\ StreakEnds' = [s \in Signals |-> 0]
             \/ /\ Backend = "redis" /\ failures' = failures + 1
                /\ Left' \in {Left, [quietUntil |-> signalExpiry, streak |-> Streaks,
                                     streakEnds |-> StreakEnds]}
                /\ signalExpiry' = [s \in Signals |-> 0]
                /\ Streaks' = [s \in Signals |-> 0] /\ StreakEnds' = [s \in Signals |-> 0]
             \/ /\ Backend = "redis" /\ failures' = failures
                /\ Throttle!Passed(Left.quietUntil, Left.streak, Left.streakEnds)
                /\ Left' = Throttle!Nothing
      PROVE  Throttle!Restarts
  BY <1>1, <1>2, <1>4, <1>5, SameStreaks
     DEF Throttle!Restarts, Throttle!Works, Throttle!Faults, Throttle!Forget,
         Throttle!Nothing, Throttle!throttle, Streaks, StreakEnds, Left
<1>6. CASE Reconnect
  <2>1. CASE backend = "redis"
    BY <1>5, <1>6, <2>1 DEF Reconnect, NoCall, Left
  <2>2. CASE backend # "redis"
    <3>1. /\ Backend = "redis" /\ failures' = failures /\ kept' = EmptyTables
          /\ signalExpiry' = EvictSignals(kept.signalExpiry, StoreNow')
          /\ attempts' = EvictAttempts("redis", kept.attempts, StoreNow')
      BY <1>1, <1>6, <2>2 DEF Reconnect, NoCall
    <3>2. StoreNow' \in Nat
      BY <1>1 DEF BreakerInv, TypeOK
    <3>3. ASSUME NEW s \in Signals
          PROVE  /\ \/ signalExpiry'[s] = Left.quietUntil[s]
                    \/ signalExpiry'[s] = 0 /\ StoreNow' >= Left.quietUntil[s]
                 /\ \/ Streaks'[s] = Left.streak[s] /\ StreakEnds'[s] = Left.streakEnds[s]
                    \/ Streaks'[s] = 0 /\ StreakEnds'[s] = 0 /\ StoreNow' >= Left.streakEnds[s]
      <4>1. Streaks'[s] = attempts'[s].count /\ StreakEnds'[s] = attempts'[s].expires
        BY SMT DEF Streaks, StreakEnds
      <4>2. /\ Left.quietUntil[s] = kept.signalExpiry[s]
            /\ Left.streak[s] = kept.attempts[s].count
            /\ Left.streakEnds[s] = kept.attempts[s].expires
        BY SMT DEF Left
      <4>3. /\ \/ signalExpiry'[s] = kept.signalExpiry[s]
               \/ signalExpiry'[s] = 0 /\ StoreNow' >= kept.signalExpiry[s]
            /\ \/ attempts'[s] = kept.attempts[s]
               \/ attempts'[s] = NoAttempts /\ StoreNow' >= kept.attempts[s].expires
        BY <1>3, <3>1, <3>2, EvictionForgets
      <4>. QED
        BY <4>1, <4>2, <4>3, SMT DEF NoAttempts
    <3>4. Throttle!Passed(Left.quietUntil, Left.streak, Left.streakEnds)
      BY <3>3 DEF Throttle!Passed, Streaks, StreakEnds
    <3>5. Left' = Throttle!Nothing
      BY <3>1, EmptyPromisesNothing
    <3>. QED
      BY <1>5, <3>1, <3>4, <3>5
  <2>. QED
    BY <2>1, <2>2
<1>7. CASE StartAfresh
  <2>1. /\ signalExpiry' = [s \in Signals |-> 0]
        /\ Streaks' = [s \in Signals |-> 0] /\ StreakEnds' = [s \in Signals |-> 0]
    BY <1>7, EmptyPromisesNothing, EmptyTablesType DEF StartAfresh
  <2>2. CASE Backend = "memory"
    <3>1. kept' = kept /\ failures' = failures
      BY <1>7, <2>2 DEF StartAfresh, NoCall, BreakerInv, MemoryIsMemory
    <3>2. Left' = Left
      BY <3>1 DEF Left
    <3>. QED
      BY <1>5, <2>1, <2>2, <3>1, <3>2
  <2>3. CASE Backend # "memory"
    <3>1. Backend = "redis" /\ failures' = failures + 1
      BY <1>7, <2>3, ConfigAssumption DEF StartAfresh, Backends
    <3>2. Left' \in {Left, [quietUntil |-> signalExpiry, streak |-> Streaks,
                            streakEnds |-> StreakEnds]}
      <4>1. \/ kept' = kept
            \/ kept' = [seen |-> seen, signalExpiry |-> signalExpiry, attempts |-> attempts]
        BY <1>7 DEF StartAfresh
      <4>. QED
        BY <4>1 DEF Left, Streaks, StreakEnds
    <3>. QED
      BY <1>5, <2>1, <3>1, <3>2
  <2>. QED
    BY <2>2, <2>3
<1>. QED
  BY <1>6, <1>7 DEF Restart

LEMMA StepThrottles == BreakerInv /\ [Next]_vars => [Throttle!NextThrottle]_(Throttle!tvars)
<1> SUFFICES ASSUME BreakerInv, [Next]_vars
             PROVE  [Throttle!NextThrottle]_(Throttle!tvars)
  OBVIOUS
<1>1. ASSUME Tick \/ List
      PROVE  [Throttle!NextThrottle]_(Throttle!tvars)
  <2>1. /\ kept' = kept /\ restarts' = restarts /\ failures' = failures /\ backend' = backend
        /\ Stage' = Stage /\ Hand' = Hand /\ Number' = Number
    BY <1>1 DEF Tick, List, Stage, Hand, Number
  <2>2. StoreNow' \in Nat /\ StoreNow <= StoreNow'
    BY ClocksGrow DEF BreakerInv
  <2>3. \/ StoreNow' = StoreNow /\ signalExpiry' = signalExpiry /\ attempts' = attempts
        \/ /\ signalExpiry' = EvictSignals(signalExpiry, StoreNow')
           /\ attempts' = EvictAttempts(backend, attempts, StoreNow')
    <3>1. backend = "redis" \/ backend = "memory"
      BY DEF BreakerInv, TypeOK, Backends
    <3>. QED
      BY <1>1, <3>1 DEF Tick, List, StoreNow
  <2>4. CASE StoreNow' = StoreNow /\ signalExpiry' = signalExpiry /\ attempts' = attempts
    <3>1. Left' = Left /\ Streaks' = Streaks /\ StreakEnds' = StreakEnds
      BY <2>1, <2>4, SameStreaks DEF Left
    <3>. QED
      BY <2>1, <2>4, <3>1
         DEF Throttle!tvars, Throttle!throttle, Streaks, StreakEnds, Hand, Number, Left
  <2>5. CASE /\ signalExpiry' = EvictSignals(signalExpiry, StoreNow')
             /\ attempts' = EvictAttempts(backend, attempts, StoreNow')
    BY <2>1, <2>2, <2>5, EvictionAdvances DEF Throttle!NextThrottle
  <2>. QED
    BY <2>3, <2>4, <2>5
<1>2. CASE Restart
  BY <1>2, RestartsThrottle DEF Throttle!NextThrottle
<1>3. ASSUME NEW s \in Signals, NEW end, Proceed(s, end)
      PROVE  Throttle!NextThrottle
  BY <1>3, ProceedTakesUp DEF Throttle!NextThrottle
<1>4. ASSUME NEW end, Trip \/ Park(end) \/ Consult(end) \/ OpenWindow(end) \/ DecideFails
      PROVE  Throttle!NextThrottle
  BY <1>4, TripRefuses, ParkParks, ConsultAsks, OpenAttempts, FailureGivesUp
     DEF Throttle!NextThrottle
<1>5. ASSUME NEW severity, NEW action, NEW end,
             DecideSkips(severity, action, end) \/ DecideActs(severity, action, end)
      PROVE  Throttle!NextThrottle
  BY <1>5, SkipDiscards, ActCounts DEF Throttle!NextThrottle
<1>6. ASSUME NEW ev, NEW end, SkipSeen(ev, end) \/ Take(ev, end)
      PROVE  [Throttle!NextThrottle]_(Throttle!tvars)
  <2>1. /\ StillWorld /\ signalExpiry' = signalExpiry /\ attempts' = attempts
        /\ pc = "scan" /\ pc' \in {"scan", "window"} /\ Call(end)
    BY <1>6 DEF SkipSeen, Take, Admit, StillWorld
  <2>. QED
    BY <2>1, Stages, StagesNext, CallEnds, StepLeavesAlone
<1>7. ASSUME \/ \E e \in Events : Emit(e)
             \/ Cancel \/ BeginPoll \/ Execute \/ UNCHANGED vars
             \/ pc \in {"list", "scan"} /\ LeavePoll
             \/ \E ev : SkipOutOfScope(ev)
             \/ \E s : Suppress(s)
      PROVE  [Throttle!NextThrottle]_(Throttle!tvars)
  <2>1. /\ StillWorld /\ signalExpiry' = signalExpiry /\ attempts' = attempts
        /\ failures' = failures
    BY <1>7 DEF vars, Emit, Cancel, BeginPoll, Execute, LeavePoll, SkipOutOfScope, Suppress,
                Finish, StillWorld
  <2>2. \/ pc' = pc /\ signal' = signal /\ tries' = tries
        \/ /\ pc \in {"idle", "list", "scan", "window", "exec"}
           /\ pc' \in {"idle", "list", "scan", "window", "exec"}
    BY <1>7 DEF vars, Emit, Cancel, BeginPoll, Execute, LeavePoll, SkipOutOfScope, Suppress,
                Finish
  <2>3. Stage' = Stage /\ Hand' = Hand /\ Number' = Number
    <3>1. CASE pc' = pc /\ signal' = signal /\ tries' = tries
      BY <3>1 DEF Stage, Hand, Number
    <3>. QED
      BY <2>2, <3>1, Stages, StagesNext
  <2>. QED
    BY <2>1, <2>3, StepLeavesAlone
<1>8. CASE Examine
  BY <1>3, <1>4, <1>6, <1>7, <1>8 DEF Examine, Defer
<1>9. CASE Decide
  BY <1>4, <1>5, <1>9 DEF Decide
<1>10. CASE Loop
  BY <1>1, <1>7, <1>8, <1>9, <1>10 DEF Loop, EndPoll, ListFails
<1>. QED
  BY <1>1, <1>2, <1>7, <1>10 DEF Next, Stop, Crash

\* The loop implements the throttle: whatever the events, polls, limits,
\* restarts and answers, and however often Redis fails, a signal is asked about
\* only when its window is over and its streak has attempts left, and each
\* answer silences it for the window of its attempt, save for one promise per
\* failure (runLoopWithStore).
THEOREM LoopImplementsThrottle == Spec => ImplementsThrottle
<1>1. Init => Throttle!InitThrottle
  <2> SUFFICES ASSUME Init PROVE Throttle!InitThrottle
    OBVIOUS
  <2>1. StoreNow = 0 /\ pc = "idle" /\ restarts = 0 /\ failures \in {0, 1}
    BY DEF Init, StoreNow
  <2>2. /\ Streaks = [s \in Signals |-> 0] /\ StreakEnds = [s \in Signals |-> 0]
        /\ signalExpiry = [s \in Signals |-> 0]
    BY EmptyTablesType, SMT DEF Init, Streaks, StreakEnds, NoAttempts
  <2>3. Left = Throttle!Nothing
    <3>1. /\ kept.signalExpiry = [s \in Signals |-> 0]
          /\ kept.attempts = [s \in Signals |-> NoAttempts]
      BY EmptyTablesType DEF Init
    <3>2. /\ [s \in Signals |-> kept.attempts[s].count] = [s \in Signals |-> 0]
          /\ [s \in Signals |-> kept.attempts[s].expires] = [s \in Signals |-> 0]
      BY <3>1, SMT DEF NoAttempts
    <3>. QED
      BY <3>1, <3>2 DEF Left, Throttle!Nothing
  <2>4. StoreNow \in Nat /\ failures \in Nat /\ restarts \in Nat
    BY <2>1, SMT
  <2>. QED
    BY <2>1, <2>2, <2>3, <2>4, Stages
       DEF Throttle!InitThrottle, Throttle!Nothing, Streaks, StreakEnds, Hand, Number, Left
<1>. QED
  BY <1>1, BreakerInvariant, StepThrottles, PTL
     DEF Spec, ImplementsThrottle, Throttle!SpecThrottle

-----------------------------------------------------------------------------
(* The loop watched from outside                                           *)

LEMMA HistoryStep == [NextHistory]_hvars => [Next]_vars
BY DEF NextHistory, hvars

\* The history variables restrict nothing: what holds of the loop holds of the
\* loop watched.
THEOREM HistoryObserves == SpecHistory => Spec
<1>1. InitHistory => Init
  BY DEF InitHistory
<1>. QED
  BY <1>1, HistoryStep, PTL DEF SpecHistory, Spec

\* By the store's instant the window of the last answer is over.
WindowOver(s) == StoreNow >= answeredAt[s] + DedupeTTL

Known(s) == answeredAt[s] # Never /\ ~unsure[s]

\* A window that is not over still silences its signal, and a signal is taken up
\* when its window is over.
AnsweredIsSilenced ==
    /\ answeredAt \in [Signals -> Nat \union {Never}]
    /\ unsure \in [Signals -> BOOLEAN]
    /\ \A s \in Signals :
          /\ answeredAt[s] # Never => answeredAt[s] <= StoreNow
          /\ Known(s) => WindowOver(s) \/ signalExpiry[s] >= answeredAt[s] + DedupeTTL
          /\ Known(s) /\ pc = "breaker" /\ signal = s => WindowOver(s)

\* What a step does to the history of a signal.
LEMMA HistoryOf ==
  ASSUME AnsweredIsSilenced, NextHistory, NEW s \in Signals
  PROVE  /\ answeredAt'[s] = IF Forgets THEN Never
                             ELSE IF Answers(s) THEN CountsFrom ELSE answeredAt[s]
         /\ unsure'[s] = IF Answers(s) THEN Errs
                         ELSE unsure[s] \/ (pc = "window" /\ signal' = s /\ Errs)
BY DEF NextHistory, Observe, AnsweredIsSilenced

\* An answer that Redis keeps opens a window.
LEMMA AnswersSilence ==
  ASSUME TypeOK, Next, NEW s \in Signals, Answers(s), ~Errs
  PROVE  /\ CountsFrom = StoreNow /\ StoreNow' = StoreNow
         /\ signalExpiry'[s] >= StoreNow + DedupeTTL
<1>0. /\ StoreNow \in Nat /\ signalExpiry \in [Signals -> Nat] /\ DedupeTTL \in Nat
      /\ failures \in Nat
  BY WindowsAreNat DEF TypeOK, StoreNow
<1>1. CountsFrom = StoreNow
  BY DEF CountsFrom, StoreNow, TypeOK, Backends
<1>2. ASSUME NEW end, Call(end), ~Errs
      PROVE  end = "done"
  BY <1>0, <1>2 DEF Call, Errs
<1>3. ASSUME NEW n \in Nat, DedupeTTL <= n, NEW end, end = "done",
             signalExpiry' = MarkSignal(signalExpiry, s, StoreNow, n, end)
      PROVE  signalExpiry'[s] >= StoreNow + DedupeTTL
  BY <1>0, <1>3 DEF MarkSignal
<1>4. ASSUME NEW end, OpenWindow(end), signal = s
      PROVE  signalExpiry'[s] >= StoreNow + DedupeTTL /\ StoreNow' = StoreNow
  <2>1. tries \in Nat /\ end = "done"
    BY <1>2, <1>4, HandType DEF OpenWindow
  <2>2. signalExpiry' = MarkSignal(signalExpiry, s, StoreNow, SignalBackoffTTL(tries), end)
    BY <1>4 DEF OpenWindow
  <2>. QED
    BY <1>3, <1>4, <2>1, <2>2, BackoffRange DEF OpenWindow, StoreNow
<1>5. ASSUME NEW severity, NEW action, NEW end, DecideSkips(severity, action, end), signal = s
      PROVE  signalExpiry'[s] >= StoreNow + DedupeTTL /\ StoreNow' = StoreNow
  <2>1. end = "done"
    BY <1>2, <1>5 DEF DecideSkips
  <2>2. signalExpiry' = MarkSignal(signalExpiry, s, StoreNow, DedupeTTL, end)
    BY <1>5 DEF DecideSkips
  <2>. QED
    BY <1>0, <1>3, <1>5, <2>1, <2>2 DEF DecideSkips, Finish, StoreNow
<1>6. pc = "mark" /\ pc' = "exec" => \E end : OpenWindow(end)
  BY DEF Next, Emit, Tick, Cancel, Stop, Crash, Restart, Loop, BeginPoll, List, ListFails,
         EndPoll, LeavePoll, Examine, Defer, SkipOutOfScope, SkipSeen, Take, Admit, Suppress,
         Proceed, Trip, Park, Consult, Decide, DecideFails, DecideSkips, DecideActs, Execute,
         Finish
<1>. QED
  BY <1>1, <1>4, <1>5, <1>6 DEF Answers

\* A window that is left alone, or forgotten when it is over, stays as good.
LEMMA SilenceStays ==
  ASSUME TypeOK, AnsweredIsSilenced, NextHistory, NEW s \in Signals,
         ~Forgets, Known(s), answeredAt'[s] = answeredAt[s]
  PROVE  /\ answeredAt[s] \in Nat /\ answeredAt[s] <= StoreNow'
         /\ WindowOver(s) => WindowOver(s)'
         /\ WindowOver(s)' \/ signalExpiry'[s] >= answeredAt'[s] + DedupeTTL
<1>1. /\ StoreNow \in Nat /\ StoreNow' \in Nat /\ StoreNow <= StoreNow'
      /\ signalExpiry \in [Signals -> Nat] /\ signalExpiry' \in [Signals -> Nat]
      /\ DedupeTTL \in Nat /\ restarts \in Nat
  BY ClocksGrow, WindowsAreNat, StepTypeOK DEF NextHistory, TypeOK
<1>2. /\ answeredAt[s] \in Nat /\ answeredAt[s] <= StoreNow
      /\ WindowOver(s) \/ signalExpiry[s] >= answeredAt[s] + DedupeTTL
  BY DEF AnsweredIsSilenced, Known
<1>3. WindowOver(s) => WindowOver(s)'
  BY <1>1, <1>2 DEF WindowOver
<1>4. \/ signalExpiry'[s] = signalExpiry[s]
      \/ signalExpiry'[s] = 0 /\ signalExpiry[s] <= StoreNow'
      \/ signalExpiry'[s] >= StoreNow + DedupeTTL
  <2>1. ~(restarts' = restarts + 1 /\ "memory" \in {backend, backend'})
    BY <1>1 DEF Forgets
  <2>. QED
    BY <2>1, EveryStepIsWindowStep DEF WindowStep, NextHistory
<1>5. WindowOver(s)' \/ signalExpiry'[s] >= answeredAt'[s] + DedupeTTL
  BY <1>1, <1>2, <1>3, <1>4 DEF WindowOver
<1>. QED
  BY <1>1, <1>2, <1>3, <1>5

\* The step that takes a signal up, and those that keep it there.
LEMMA TakenUp ==
  ASSUME TypeOK, Next, NEW s \in Signals, pc' = "breaker", signal' = s
  PROVE  \/ pc = "breaker" /\ signal = s
         \/ pc = "window" /\ (Errs \/ ~IsSignalFresh(signalExpiry, s, StoreNow))
               /\ StoreNow' = StoreNow
<1>1. ASSUME NEW r, NEW end, Proceed(r, end)
      PROVE  pc = "window" /\ (Errs \/ ~IsSignalFresh(signalExpiry, s, StoreNow))
                /\ StoreNow' = StoreNow
  <2>1. pc = "window" /\ r = s /\ Call(end) /\ ~SaysFresh(signalExpiry, s, StoreNow, end)
    BY <1>1 DEF Proceed
  <2>2. end # "done" => Errs
    BY <2>1 DEF Call, Errs, TypeOK
  <2>3. StoreNow' = StoreNow
    BY <1>1 DEF Proceed, StoreNow
  <2>. QED
    BY <2>1, <2>2, <2>3 DEF SaysFresh
<1>2. (\E r, end : Proceed(r, end)) \/ (pc = "breaker" /\ signal = s)
  BY DEF Next, Emit, Tick, Cancel, Stop, Crash, Restart, Loop, BeginPoll, List, ListFails,
         EndPoll, LeavePoll, Examine, Defer, SkipOutOfScope, SkipSeen, Take, Admit, Suppress,
         Trip, Park, Consult, Decide, DecideFails, DecideSkips, DecideActs, OpenWindow,
         Execute, Finish
<1>. QED
  BY <1>1, <1>2

LEMMA StepSilences ==
  ASSUME TypeOK, AnsweredIsSilenced, NextHistory
  PROVE  AnsweredIsSilenced'
<1>0. Next /\ StoreNow \in Nat /\ StoreNow' \in Nat /\ StoreNow <= StoreNow' /\ clock \in Nat
      /\ now \in Nat /\ DedupeTTL \in Nat
  BY ClocksGrow, WindowsAreNat DEF NextHistory, TypeOK
<1>1. CountsFrom = StoreNow
  BY DEF CountsFrom, StoreNow, TypeOK, Backends
<1>2. answeredAt' \in [Signals -> Nat \union {Never}]
  <2>1. CountsFrom \in Nat
    BY <1>0, <1>1
  <2>. QED
    BY <2>1 DEF NextHistory, Observe, AnsweredIsSilenced
<1>3. unsure' \in [Signals -> BOOLEAN]
  <2>1. unsure' = [s \in Signals |->
                     IF Answers(s) THEN Errs
                     ELSE unsure[s] \/ (pc = "window" /\ signal' = s /\ Errs)]
    BY DEF NextHistory, Observe
  <2>2. \A s \in Signals : (IF Answers(s) THEN Errs
                     ELSE unsure[s] \/ (pc = "window" /\ signal' = s /\ Errs)) \in BOOLEAN
    BY DEF Errs, AnsweredIsSilenced
  <2>. QED
    BY <2>1, <2>2
<1>4. ASSUME NEW s \in Signals
      PROVE  /\ answeredAt'[s] # Never => answeredAt'[s] <= StoreNow'
             /\ Known(s)' => WindowOver(s)' \/ signalExpiry'[s] >= answeredAt'[s] + DedupeTTL
             /\ Known(s)' /\ pc' = "breaker" /\ signal' = s => WindowOver(s)'
  <2>1. CASE Forgets
    BY <2>1, HistoryOf DEF Known
  <2>2. CASE ~Forgets /\ Answers(s)
    <3>1. answeredAt'[s] = StoreNow /\ unsure'[s] = Errs
      BY <1>1, <2>2, HistoryOf
    <3>2. pc' # "breaker"
      BY <2>2 DEF Answers
    <3>3. ~Errs => signalExpiry'[s] >= StoreNow + DedupeTTL
      BY <1>0, <2>2, AnswersSilence
    <3>. QED
      BY <1>0, <3>1, <3>2, <3>3 DEF Known
  <2>3. CASE ~Forgets /\ ~Answers(s)
    <3>1. /\ answeredAt'[s] = answeredAt[s]
          /\ unsure'[s] = (unsure[s] \/ (pc = "window" /\ signal' = s /\ Errs))
      BY <2>3, HistoryOf
    <3>2. answeredAt'[s] # Never => answeredAt'[s] <= StoreNow'
      BY <1>0, <1>2, <3>1 DEF AnsweredIsSilenced
    <3>3. ASSUME Known(s)'
          PROVE  /\ WindowOver(s)' \/ signalExpiry'[s] >= answeredAt'[s] + DedupeTTL
                 /\ pc' = "breaker" /\ signal' = s => WindowOver(s)'
      <4>1. Known(s) /\ ~(pc = "window" /\ signal' = s /\ Errs)
        BY <3>1, <3>3 DEF Known
      <4>2. /\ WindowOver(s) => WindowOver(s)'
            /\ WindowOver(s)' \/ signalExpiry'[s] >= answeredAt'[s] + DedupeTTL
        BY <2>3, <3>1, <4>1, SilenceStays
      <4>3. ASSUME pc' = "breaker", signal' = s
            PROVE  WindowOver(s)'
        <5>1. CASE pc = "breaker" /\ signal = s
          BY <4>1, <4>2, <5>1 DEF AnsweredIsSilenced
        <5>2. CASE ~(pc = "breaker" /\ signal = s)
          <6>1. ~IsSignalFresh(signalExpiry, s, StoreNow)
            BY <1>0, <4>1, <4>3, <5>2, TakenUp
          <6>2. WindowOver(s) \/ signalExpiry[s] >= answeredAt[s] + DedupeTTL
            BY <4>1 DEF AnsweredIsSilenced
          <6>3. signalExpiry[s] \in Nat /\ answeredAt[s] \in Nat
            BY <4>1 DEF AnsweredIsSilenced, TypeOK, Known
          <6>4. WindowOver(s)
            BY <1>0, <6>1, <6>2, <6>3 DEF IsSignalFresh, WindowOver
          <6>. QED
            BY <4>2, <6>4
        <5>. QED
          BY <5>1, <5>2
      <4>. QED
        BY <4>2, <4>3
    <3>. QED
      BY <3>2, <3>3
  <2>. QED
    BY <2>1, <2>2, <2>3
<1>. QED
  BY <1>2, <1>3, <1>4 DEF AnsweredIsSilenced

LEMMA SilenceInvariant == SpecHistory => [](TypeOK /\ AnsweredIsSilenced)
<1>1. InitHistory => AnsweredIsSilenced
  BY DEF InitHistory, AnsweredIsSilenced, Never, Known
<1>2. TypeOK /\ AnsweredIsSilenced /\ [NextHistory]_hvars => AnsweredIsSilenced'
  <2>1. ASSUME UNCHANGED hvars, AnsweredIsSilenced PROVE AnsweredIsSilenced'
    <3>1. /\ answeredAt' = answeredAt /\ unsure' = unsure /\ StoreNow' = StoreNow
          /\ signalExpiry' = signalExpiry /\ pc' = pc /\ signal' = signal
      BY <2>1 DEF hvars, vars, StoreNow
    <3>. QED
      BY <2>1, <3>1 DEF AnsweredIsSilenced, WindowOver, Known
  <2>. QED
    BY <2>1, StepSilences
<1>. QED
  BY <1>1, <1>2, HistoryObserves, TypeCorrect, PTL DEF SpecHistory

\* Two calls of the model about one signal are a window apart by the wall clock:
\* with Redis through every crash and restart, as long as Redis does not fail on
\* that very window; with the memory store, which counts from the instant the
\* poll began, in the life of a process (IsSignalFresh before Decide, MarkSignal
\* before executeDecision).
THEOREM CallsAreAWindowApart == SpecHistory => OneCallPerWindow
<1>1. ASSUME TypeOK, AnsweredIsSilenced, NextHistory, NEW s \in Signals,
             Asks(s), answeredAt[s] # Never, ~unsure[s]
      PROVE  clock - answeredAt[s] >= DedupeTTL
  <2>1. WindowOver(s) /\ answeredAt[s] \in Nat
    BY <1>1 DEF AnsweredIsSilenced, Known, Asks
  <2>2. StoreNow \in Nat /\ StoreNow <= clock /\ clock \in Nat /\ DedupeTTL \in Nat
    BY <1>1, ClocksGrow, WindowsAreNat DEF NextHistory, TypeOK
  <2>. QED
    BY <2>1, <2>2 DEF WindowOver
<1>2. TypeOK /\ AnsweredIsSilenced /\ [NextHistory]_hvars =>
        [\A s \in Signals : Asks(s) /\ answeredAt[s] # Never /\ ~unsure[s]
            => clock - answeredAt[s] >= DedupeTTL]_hvars
  BY <1>1
<1>. QED
  BY <1>2, SilenceInvariant, PTL DEF SpecHistory, OneCallPerWindow

\* In a poll every in-scope event it was given is handled, in hand or to come,
\* and the calls it has made are its own.
PollInv ==
    pc \in {"scan", "window", "breaker", "park", "decide", "mark", "exec"} =>
        /\ calls = processed
        /\ listed \subseteq EventVersions
        /\ \A ev \in listed : ev[1] \in InScope => Accounted(ev) \/ ev \in pending

LEMMA ListedStays ==
  ASSUME TypeOK, SeenInv, Next, NEW ev \in EventVersions, ev[1] \in InScope,
         ev \in pending \/ Accounted(ev),
         pc' \notin {"idle", "list"}, pc # "list"
  PROVE  ev \in pending' \/ Accounted(ev)'
<1>1. CASE Accounted(ev)
  BY <1>1, AccountedStays
<1>2. CASE pending' = pending
  BY <1>1, <1>2
<1>3. ASSUME NEW e2, SkipOutOfScope(e2)
      PROVE  ev \in pending' \/ Accounted(ev)'
  BY <1>1, <1>3 DEF SkipOutOfScope
<1>4. ASSUME NEW e2, NEW end, Take(e2, end)
      PROVE  ev \in pending' \/ Accounted(ev)'
  BY <1>1, <1>4 DEF Take, Admit, Accounted
<1>5. ASSUME NEW e2, NEW end, SkipSeen(e2, end)
      PROVE  ev \in pending' \/ Accounted(ev)'
  <2>1. pending' = pending \ {e2} /\ seen[e2] # NotSeen
    BY <1>5 DEF SkipSeen, Admit, SaysNew
  <2>2. e2 = ev => Accounted(ev)
    BY <2>1 DEF SeenInv, SeenIsAccounted, Accounted
  <2>. QED
    BY <1>1, <2>1, <2>2
<1>6. ASSUME ~\E e2 \in pending : \/ SkipOutOfScope(e2)
                                  \/ \E end \in Endings : Take(e2, end) \/ SkipSeen(e2, end)
      PROVE  pending' = pending
  BY <1>6 DEF Next, Emit, Tick, Cancel, Stop, Crash, Restart, Loop, BeginPoll, List, ListFails,
         EndPoll, LeavePoll, Examine, Defer, Suppress, Proceed, Trip, Park, Consult, Decide,
         DecideFails, DecideSkips, DecideActs, OpenWindow, Execute, Finish
<1>. QED
  BY <1>1, <1>2, <1>3, <1>4, <1>5, <1>6

LEMMA StepPollInv ==
  ASSUME TypeOK, SeenInv, PollInv, NextHistory
  PROVE  PollInv'
<1>1. SUFFICES ASSUME pc' \in {"scan", "window", "breaker", "park", "decide", "mark", "exec"}
               PROVE  /\ calls' = processed'
                      /\ listed' \subseteq EventVersions
                      /\ \A ev \in listed' :
                            ev[1] \in InScope => Accounted(ev)' \/ ev \in pending'
  BY DEF PollInv
<1>2. Next /\ Observe
  BY DEF NextHistory
<1>3. CASE pc = "list"
  <2>1. List
    BY <1>1, <1>2, <1>3
       DEF Next, Emit, Tick, Cancel, Stop, Crash, Restart, Loop, BeginPoll, ListFails, EndPoll,
           LeavePoll, Examine, Defer, SkipOutOfScope, SkipSeen, Take, Admit, Suppress, Proceed,
           Trip, Park, Consult, Decide, DecideFails, DecideSkips, DecideActs, OpenWindow,
           Execute
  <2>2. listed' = pending' /\ calls' = 0 /\ processed' = 0
    BY <1>2, <1>3, <2>1 DEF Observe, List
  <2>3. pending' \subseteq EventVersions
    BY <1>2, StepTypeOK DEF TypeOK
  <2>. QED
    BY <2>2, <2>3
<1>4. CASE pc # "list"
  <2>1. pc # "idle"
    BY <1>1, <1>2, <1>4
       DEF Next, Emit, Tick, Cancel, Stop, Crash, Restart, Loop, BeginPoll, List, ListFails,
           EndPoll, LeavePoll, Examine, Defer, SkipOutOfScope, SkipSeen, Take, Admit, Suppress,
           Proceed, Trip, Park, Consult, Decide, DecideFails, DecideSkips, DecideActs,
           OpenWindow, Execute, Finish
  <2>2. /\ calls = processed /\ listed \subseteq EventVersions
        /\ \A ev \in listed : ev[1] \in InScope => Accounted(ev) \/ ev \in pending
    BY <1>4, <2>1 DEF PollInv, TypeOK, HandOK
  <2>3. /\ listed' = listed
        /\ calls' = IF pc' = "decide" /\ pc # "decide" THEN calls + 1 ELSE calls
    BY <1>1, <1>2, <1>4 DEF Observe
  <2>4. processed' = IF pc' = "decide" /\ pc # "decide" THEN processed + 1 ELSE processed
    BY <1>1, <1>2, <1>4
       DEF Next, Emit, Tick, Cancel, Stop, Crash, Restart, Loop, BeginPoll, List, ListFails,
           EndPoll, LeavePoll, Examine, Defer, SkipOutOfScope, SkipSeen, Take, Admit, Suppress,
           Proceed, Trip, Park, Consult, Decide, DecideFails, DecideSkips, DecideActs,
           OpenWindow, Execute, Finish
  <2>5. ASSUME NEW ev \in listed, ev[1] \in InScope
        PROVE  Accounted(ev)' \/ ev \in pending'
    BY <1>1, <1>2, <1>4, <2>2, <2>5, ListedStays
  <2>. QED
    BY <2>2, <2>3, <2>4, <2>5
<1>. QED
  BY <1>3, <1>4

LEMMA PollInvariant == SpecHistory => [](TypeOK /\ SeenInv /\ PollInv)
<1>1. InitHistory => PollInv
  BY DEF InitHistory, Init, PollInv
<1>2. TypeOK /\ SeenInv /\ PollInv /\ [NextHistory]_hvars => PollInv'
  <2>1. ASSUME UNCHANGED hvars, PollInv PROVE PollInv'
    BY <2>1 DEF hvars, vars, PollInv, Accounted
  <2>. QED
    BY <2>1, StepPollInv
<1>. QED
  BY <1>1, <1>2, HistoryObserves, TypeCorrect, SeenInvariant, PTL DEF SpecHistory

\* A poll leaves an in-scope event it was given to a later one only when it has
\* itself made MAX_EVENTS_PER_POLL calls or has less time left than a call needs,
\* whatever earlier polls, parked signals, failing calls and restarts have done
\* (the two breaks of runLoopWithStore and its reset of processed).
THEOREM PollsShare == SpecHistory => PollsDoTheirShare
<1>1. ASSUME TypeOK, SeenInv, PollInv, NextHistory,
             pc \notin {"idle", "list"}, pc' = "idle", restarts' = restarts
      PROVE  \/ \A ev \in listed : ev[1] \in InScope => ev \in handled
             \/ MaxEventsPerPoll > 0 /\ calls >= MaxEventsPerPoll
             \/ BudgetExhausted
  <2>1. EndPoll \/ \E ev \in pending : Defer(ev)
    <3>1. ~Restart
      BY <1>1 DEF Restart, TypeOK
    <3>. QED
      BY <1>1, <3>1
         DEF NextHistory, Next, Emit, Tick, Cancel, Stop, Crash, Loop, BeginPoll, List,
             ListFails, Examine, SkipOutOfScope, SkipSeen, Take, Admit, Suppress, Proceed,
             Trip, Park, Consult, Decide, DecideFails, DecideSkips, DecideActs, OpenWindow,
             Execute, Finish
  <2>2. /\ calls = processed /\ listed \subseteq EventVersions
        /\ \A ev \in listed : ev[1] \in InScope => Accounted(ev) \/ ev \in pending
    BY <1>1 DEF PollInv, TypeOK, HandOK
  <2>3. CASE EndPoll
    <3>1. pending = {} /\ current = NoEvent
      BY <1>1, <2>3, HandType DEF EndPoll
    <3>. QED
      BY <2>2, <3>1, NoEventIsNoVersion DEF Accounted
  <2>4. CASE \E ev \in pending : Defer(ev)
    BY <2>2, <2>4 DEF Defer, CapReached
  <2>. QED
    BY <2>1, <2>3, <2>4
<1>2. TypeOK /\ SeenInv /\ PollInv /\ [NextHistory]_hvars =>
        [/\ pc \notin {"idle", "list"} /\ pc' = "idle" /\ restarts' = restarts
         => \/ \A ev \in listed : ev[1] \in InScope => ev \in handled
            \/ MaxEventsPerPoll > 0 /\ calls >= MaxEventsPerPoll
            \/ BudgetExhausted]_hvars
  BY <1>1
<1>. QED
  BY <1>2, PollInvariant, PTL DEF SpecHistory, PollsDoTheirShare

=============================================================================
