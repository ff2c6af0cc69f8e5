--------------------------- MODULE AgentHA_proofs ---------------------------
(* Proofs about AgentHA, for any number of replicas, versions and signals. *)
EXTENDS AgentHA, FiniteSetTheorems, TLAPS

\* Redis remembers every version it has called new, until it expires.
HAInv == TypeOK /\ told \subseteq seen

LEMMA InitHAInv == Init => HAInv
<1> SUFFICES ASSUME Init PROVE HAInv
  OBVIOUS
<1>1. failed = FALSE /\ up = TRUE /\ local = [r \in Replicas |-> FALSE]
  BY DEF Init
<1>2. failed \in BOOLEAN /\ up \in BOOLEAN /\ local \in [Replicas -> BOOLEAN]
  BY ONLY <1>1, Zenon
<1>3. ~failed => up /\ \A r \in Replicas : ~local[r]
  BY <1>1
<1>. QED
  BY <1>2, <1>3, HAAssumption, SMT DEF Init, HAInv, TypeOK

LEMMA NextHAInv == HAInv /\ [Next]_vars => HAInv'
<1> SUFFICES ASSUME HAInv, [Next]_vars PROVE HAInv'
  OBVIOUS
<1> USE HAAssumption DEF HAInv, TypeOK, lease, redis, Goto
<1>1. CASE Expire
  <2>1. UNCHANGED <<mode, pc, current, up, redis, failed, local, told, acts>> /\ holder' = NoReplica
    BY <1>1 DEF Expire
  <2>. QED
    BY <2>1, SMT
<1>2. CASE Fail
  <2>1. /\ up' = FALSE /\ failed' = TRUE /\ acts' = [s \in Signals |-> 0]
        /\ UNCHANGED <<holder, mode, pc, current, seen, window, attempts, local, told>>
    BY <1>2 DEF Fail
  <2>2. up' \in BOOLEAN /\ failed' \in BOOLEAN /\ failed'
    BY ONLY <2>1, Zenon
  <2>3. acts' \in [Signals -> Nat]
    BY ONLY <2>1, SMT
  <2>4. TypeOK'
    BY ONLY <2>1, <2>2, <2>3, TypeOK, Zenon DEF TypeOK
  <2>. QED
    BY ONLY <2>1, <2>4, HAInv DEF HAInv
<1>3. CASE Recover
  BY <1>3, SMT DEF Recover
<1>4. ASSUME NEW s \in Signals, WindowExpires(s) PROVE HAInv'
  BY <1>4, SMT DEF WindowExpires
<1>5. ASSUME NEW s \in Signals, AttemptsExpire(s) PROVE HAInv'
  BY <1>5, SMT DEF AttemptsExpire
<1>6. ASSUME NEW r \in Replicas, Acquire(r) PROVE HAInv'
  BY <1>6, SMT DEF Acquire
<1>7. ASSUME NEW r \in Replicas, LoseLease(r) PROVE HAInv'
  BY <1>7, SMT DEF LoseLease
<1>8. ASSUME NEW r \in Replicas, Release(r) PROVE HAInv'
  BY <1>8, SMT DEF Release
<1>9. ASSUME NEW r \in Replicas, Exit(r) PROVE HAInv'
  <2>1. /\ mode' = [mode EXCEPT ![r] = "standby"] /\ pc' = [pc EXCEPT ![r] = "idle"]
        /\ current' = [current EXCEPT ![r] = NoVersion]
        /\ local' = [local EXCEPT ![r] = ~up]
        /\ UNCHANGED <<holder, up, seen, window, attempts, failed, told, acts>>
    BY <1>9 DEF Exit
  <2>2. local' \in [Replicas -> BOOLEAN]
    BY ONLY <2>1, TypeOK, SMT DEF TypeOK
  <2>3. ~failed' => up' /\ \A q \in Replicas : ~local'[q]
    BY ONLY <2>1, TypeOK, r \in Replicas, SMT DEF TypeOK
  <2>4. /\ mode' \in [Replicas -> {"standby", "leading", "stopping"}]
        /\ pc' \in [Replicas -> {"idle", "mark_seen", "is_fresh", "attempts", "decide",
                                 "park", "incr", "mark_signal", "execute"}]
        /\ current' \in [Replicas -> Versions \union {NoVersion}]
        /\ \A q \in Replicas : pc'[q] = "idle" <=> current'[q] = NoVersion
    BY <2>1, SMT
  <2>. QED
    BY <2>1, <2>2, <2>3, <2>4, SMT
<1>10. ASSUME NEW r \in Replicas, NEW v \in Versions, Pick(r, v) PROVE HAInv'
  BY <1>10, SMT DEF Pick
<1>11. ASSUME NEW r \in Replicas, MarkSeen(r) PROVE HAInv'
  BY <1>11, SMT DEF MarkSeen, Sent, Reached
<1>12. ASSUME NEW r \in Replicas, SkipSeen(r) PROVE HAInv'
  BY <1>12, SMT DEF SkipSeen
<1>13. ASSUME NEW r \in Replicas, IsSignalFresh(r) PROVE HAInv'
  BY <1>13, SMT DEF IsSignalFresh
<1>14. ASSUME NEW r \in Replicas, Attempts(r) PROVE HAInv'
  BY <1>14, SMT DEF Attempts
<1>15. ASSUME NEW r \in Replicas, Decide(r) PROVE HAInv'
  BY <1>15, SMT DEF Decide
<1>16. ASSUME NEW r \in Replicas, IncrAttempt(r) PROVE HAInv'
  BY <1>16, SMT DEF IncrAttempt, OneMore, Signal, Sent, Reached
<1>17. ASSUME NEW r \in Replicas, MarkSignal(r) PROVE HAInv'
  BY <1>17, SMT DEF MarkSignal, OneMore, Signal, Sent, Reached
<1>18. ASSUME NEW r \in Replicas, Execute(r) PROVE HAInv'
  BY <1>18, SMT DEF Execute
<1>19. ASSUME NEW v \in Versions, SeenExpires(v) PROVE HAInv'
  BY <1>19, SMT DEF SeenExpires
<1>20. CASE UNCHANGED vars
  BY <1>20, SMT DEF vars
<1>. QED
  BY <1>1, <1>2, <1>3, <1>4, <1>5, <1>6, <1>7, <1>8, <1>9, <1>10, <1>11, <1>12,
     <1>13, <1>14, <1>15, <1>16, <1>17, <1>18, <1>19, <1>20 DEF Next, Step

\* The inductive invariant of the replicas, types included.
THEOREM HAInvariant == Spec => []HAInv
BY InitHAInv, NextHAInv, PTL DEF Spec

\* The variables keep to their sets, and a version is in hand exactly while its
\* event is under way, also across the end of a process (runLoopWithStore).
THEOREM TypeCorrect == Spec => []TypeOK
<1>1. HAInv => TypeOK
  BY DEF HAInv
<1>. QED
  BY HAInvariant, <1>1, PTL

\* Where the questions to the store may lead.
LEMMA LookingUp ==
  ASSUME NEW r \in Replicas
  PROVE  /\ MarkSeen(r) => pc[r] = "mark_seen" /\ Goto(r, "is_fresh")
         /\ SkipSeen(r) => pc[r] = "mark_seen" /\ Goto(r, "idle")
         /\ IsSignalFresh(r) => \E next \in {"idle", "attempts"} : Goto(r, next)
         /\ Attempts(r) => pc[r] = "attempts" /\ \E next \in {"park", "decide"} : Goto(r, next)
<1>1. ASSUME IsSignalFresh(r) PROVE \E next \in {"idle", "attempts"} : Goto(r, next)
  <2>1. PICK fresh : Goto(r, IF fresh THEN "idle" ELSE "attempts")
    BY <1>1 DEF IsSignalFresh
  <2>2. CASE fresh
    BY <2>1, <2>2
  <2>3. CASE ~fresh
    BY <2>1, <2>3
  <2>. QED
    BY <2>2, <2>3
<1>2. ASSUME Attempts(r) PROVE \E next \in {"park", "decide"} : Goto(r, next)
  <2>1. PICK open : Goto(r, IF open THEN "park" ELSE "decide")
    BY <1>2 DEF Attempts
  <2>2. CASE open
    BY <2>1, <2>2
  <2>3. CASE ~open
    BY <2>1, <2>3
  <2>. QED
    BY <2>2, <2>3
<1>3. MarkSeen(r) => pc[r] = "mark_seen" /\ Goto(r, "is_fresh")
  BY Zenon DEF MarkSeen
<1>4. SkipSeen(r) => pc[r] = "mark_seen" /\ Goto(r, "idle")
  BY Zenon DEF SkipSeen
<1>. QED
  BY <1>1, <1>2, <1>3, <1>4, Zenon DEF Attempts

\* Only MarkSeen tells a replica that its version is new.
LEMMA ToldByMarkSeen ==
  ASSUME TypeOK, Next, NEW r \in Replicas, IsTold(r)
  PROVE  MarkSeen(r)
<1>1. pc[r] = "mark_seen" /\ pc'[r] = "is_fresh" /\ DOMAIN pc = Replicas
  <2>1. pc[r] = "mark_seen" /\ pc'[r] = "is_fresh"
    BY DEF IsTold
  <2>2. DOMAIN pc = Replicas
    BY SMT DEF TypeOK
  <2>. QED
    BY <2>1, <2>2
<1>2. pc' # pc
  BY <1>1, SMT
<1>3. ASSUME NEW p \in Replicas, Exit(p) PROVE FALSE
  <2>1. pc' = [pc EXCEPT ![p] = "idle"]
    BY <1>3 DEF Exit
  <2>. QED
    BY ONLY <1>1, <2>1, SMT
<1>4. ASSUME NEW p \in Replicas, NEW v \in Versions, Pick(p, v) PROVE FALSE
  <2>1. pc[p] = "idle" /\ pc' = [pc EXCEPT ![p] = "mark_seen"]
    BY <1>4 DEF Pick
  <2>. QED
    BY ONLY <1>1, <2>1, SMT
<1>5. ASSUME NEW p \in Replicas,
             SkipSeen(p) \/ IsSignalFresh(p) \/ Attempts(p) \/ Decide(p)
                \/ IncrAttempt(p) \/ MarkSignal(p) \/ Execute(p)
      PROVE  FALSE
  <2>1. \E next \in {"idle", "attempts", "park", "decide", "incr", "mark_signal", "execute"} :
           pc' = [pc EXCEPT ![p] = next]
    <3>1. CASE SkipSeen(p) \/ IsSignalFresh(p) \/ Attempts(p)
      <4>1. \E next \in {"idle", "attempts", "park", "decide"} : Goto(p, next)
        BY <3>1, LookingUp
      <4>. QED
        BY <4>1 DEF Goto
    <3>2. CASE Decide(p) \/ IncrAttempt(p) \/ MarkSignal(p) \/ Execute(p)
      BY <3>2, SMT DEF Decide, IncrAttempt, MarkSignal, Execute, Goto
    <3>. QED
      BY <1>5, <3>1, <3>2
  <2>. QED
    BY ONLY <1>1, <2>1, SMT
<1>6. ASSUME NEW p \in Replicas, MarkSeen(p) PROVE p = r
  <2>1. pc[p] = "mark_seen" /\ pc' = [pc EXCEPT ![p] = "is_fresh"]
    BY <1>6 DEF MarkSeen, Goto
  <2>. QED
    BY ONLY <1>1, <2>1, SMT
<1>7. \E p \in Replicas : Exit(p) \/ Step(p)
  BY <1>2 DEF Next, lease, Expire, Fail, Recover, SeenExpires, WindowExpires,
              AttemptsExpire, Acquire, LoseLease, Release
<1>. QED
  BY <1>3, <1>4, <1>5, <1>6, <1>7 DEF Step

\* SET NX is enough: Redis calls a version new once in its lifetime, however
\* the leases overlap, whatever process ends when and whatever answer is lost.
THEOREM NewToOneOnly == Spec => NewOnlyOnce
<1>1. ASSUME HAInv, Next, NEW r \in Replicas, IsTold(r)
      PROVE  current[r] \notin told
  <2>1. MarkSeen(r)
    BY <1>1, ToldByMarkSeen DEF HAInv
  <2>2. up /\ ~local[r]
    BY <1>1 DEF IsTold, Reached
  <2>3. current[r] \notin seen
    BY <2>1, <2>2 DEF MarkSeen, Says
  <2>. QED
    BY <1>1, <2>3 DEF HAInv
<1>2. HAInv /\ [Next]_vars =>
        [\A r \in Replicas : IsTold(r) => current[r] \notin told]_vars
  BY <1>1
<1>. QED
  BY <1>2, HAInvariant, PTL DEF Spec, NewOnlyOnce

-----------------------------------------------------------------------------
(* Counting replicas                                                       *)

\* A set of replicas is finite, and smaller without one of them.
LEMMA Counting ==
  ASSUME NEW A \in SUBSET Replicas, NEW B \in SUBSET A
  PROVE  /\ Cardinality(A) \in Nat /\ Cardinality(B) \in Nat
         /\ Cardinality(B) <= Cardinality(A)
         /\ \A r \in A : r \notin B => Cardinality(B) + 1 <= Cardinality(A)
<1>1. IsFiniteSet(A) /\ IsFiniteSet(B)
  BY FS_Subset, HAAssumption
<1>2. /\ Cardinality(A) \in Nat /\ Cardinality(B) \in Nat
      /\ Cardinality(B) <= Cardinality(A)
  BY <1>1, FS_Subset, FS_CardinalityType
<1>3. ASSUME NEW r \in A, r \notin B PROVE Cardinality(B) + 1 <= Cardinality(A)
  <2>1. IsFiniteSet(A \ {r}) /\ Cardinality(A \ {r}) = Cardinality(A) - 1
    BY <1>1, FS_RemoveElement
  <2>2. B \in SUBSET (A \ {r})
    BY <1>3
  <2>3. Cardinality(B) <= Cardinality(A \ {r})
    BY <2>1, <2>2, FS_Subset
  <2>. QED
    BY <1>2, <2>1, <2>3
<1>. QED
  BY <1>2, <1>3

\* The replicas that are somewhere in places with an event of s.
At(places, s) == {r \in Replicas : pc[r] \in places /\ Signal(r) = s}

\* What a step does to where a replica is.
LEMMA OneMoves ==
  ASSUME HAInv, NEW r \in Replicas, NEW next, Goto(r, next), NEW s \in Signals,
         NEW places
  PROVE  /\ \A q \in Replicas \ {r} : q \in At(places, s)' <=> q \in At(places, s)
         /\ r \in At(places, s)' => next \in places
         /\ next # "idle" => (r \in At(places, s)' <=> next \in places /\ Signal(r) = s)
<1>1. \A q \in Replicas \ {r} : pc'[q] = pc[q] /\ current'[q] = current[q]
  BY SMT DEF HAInv, TypeOK, Goto
<1>2. pc'[r] = next
  BY SMT DEF HAInv, TypeOK, Goto
<1>3. next # "idle" => current'[r] = current[r]
  BY DEF Goto
<1>. QED
  BY <1>1, <1>2, <1>3 DEF At, Signal

-----------------------------------------------------------------------------
(* Attempts                                                                *)

\* Past the breaker, and not counted yet.
Passed(s) == At({"decide", "incr"}, s)

\* Each of those may add one to a counter they saw below the limit.
Budgeted(s) ==
    attempts[s] + Cardinality(Passed(s)) <= SignalMaxAttempts - 1 + Cardinality(Replicas)

BudgetInv == ~failed => \A s \in Signals : Budgeted(s)

\* A counter that does not grow, past which nobody comes, keeps its budget; so
\* does one that is below the limit.
LEMMA BudgetKept ==
  ASSUME HAInv, HAInv', NEW s \in Signals, Budgeted(s),
         \/ Passed(s)' \subseteq Passed(s) /\ attempts'[s] <= attempts[s]
         \/ attempts'[s] < SignalMaxAttempts
         \/ /\ attempts'[s] <= attempts[s] + 1
            /\ \E r \in Passed(s) : Passed(s)' \subseteq Passed(s) \ {r}
  PROVE  Budgeted(s)'
<1>1. Passed(s) \in SUBSET Replicas /\ Passed(s)' \in SUBSET Replicas
  BY DEF Passed, At
<1>2. attempts[s] \in Nat /\ attempts'[s] \in Nat /\ SignalMaxAttempts \in Nat
  BY HAAssumption DEF HAInv, TypeOK
<1>3. /\ Cardinality(Passed(s)) \in Nat /\ Cardinality(Passed(s)') \in Nat
      /\ Cardinality(Replicas) \in Nat /\ Cardinality(Passed(s)') <= Cardinality(Replicas)
  BY <1>1, Counting
<1>4. CASE Passed(s)' \subseteq Passed(s) /\ attempts'[s] <= attempts[s]
  <2>1. Cardinality(Passed(s)') <= Cardinality(Passed(s))
    BY <1>1, <1>4, Counting
  <2>. QED
    BY <1>2, <1>3, <1>4, <2>1 DEF Budgeted
<1>5. CASE attempts'[s] < SignalMaxAttempts
  BY <1>2, <1>3, <1>5 DEF Budgeted
<1>6. CASE /\ attempts'[s] <= attempts[s] + 1
           /\ \E r \in Passed(s) : Passed(s)' \subseteq Passed(s) \ {r}
  <2>1. Cardinality(Passed(s)') + 1 <= Cardinality(Passed(s))
    BY <1>1, <1>6, Counting
  <2>. QED
    BY <1>2, <1>3, <1>6, <2>1 DEF Budgeted
<1>. QED
  BY <1>4, <1>5, <1>6

\* A place nobody enters keeps to those who were there.
LEMMA NobodyEnters ==
  ASSUME HAInv, NEW r \in Replicas, NEW next, Goto(r, next), NEW s \in Signals,
         NEW places, next \in places => pc[r] \in places, next # "idle" \/ "idle" \notin places
  PROVE  At(places, s)' \subseteq At(places, s)
<1>1. ASSUME r \in At(places, s)' PROVE r \in At(places, s)
  <2>1. next \in places /\ pc[r] \in places
    BY <1>1, OneMoves
  <2>2. Signal(r) = s
    BY <1>1, <2>1, OneMoves
  <2>. QED
    BY <2>1, <2>2 DEF At
<1>2. At(places, s)' \subseteq Replicas
  BY DEF At
<1>. QED
  BY <1>1, <1>2, OneMoves

\* Steps of the lease, of Redis and of the clock move nobody, and the end of a
\* process or the choice of an event puts nobody past its first check.
LEMMA NobodyMoves ==
  ASSUME HAInv, NEW s \in Signals, NEW places,
         "idle" \notin places, "mark_seen" \notin places,
         \/ UNCHANGED <<pc, current>>
         \/ \E r \in Replicas : Exit(r) \/ \E v \in Versions : Pick(r, v)
  PROVE  At(places, s)' \subseteq At(places, s)
<1>1. CASE UNCHANGED <<pc, current>>
  BY <1>1 DEF At, Signal
<1>2. ASSUME NEW r \in Replicas, Exit(r) \/ \E v \in Versions : Pick(r, v)
      PROVE  At(places, s)' \subseteq At(places, s)
  <2>1. pc'[r] \in {"idle", "mark_seen"}
    BY <1>2, SMT DEF HAInv, TypeOK, Exit, Pick
  <2>2. \A q \in Replicas \ {r} : pc'[q] = pc[q] /\ current'[q] = current[q]
    BY <1>2, SMT DEF HAInv, TypeOK, Exit, Pick
  <2>. QED
    BY <2>1, <2>2 DEF At, Signal
<1>. QED
  BY <1>1, <1>2

LEMMA NextBudget ==
  ASSUME HAInv, HAInv', BudgetInv, [Next]_vars
  PROVE  BudgetInv'
<1> SUFFICES ASSUME ~failed', NEW s \in Signals PROVE Budgeted(s)'
  BY DEF BudgetInv
<1>1. ~failed /\ up /\ \A r \in Replicas : Reached(r) /\ ~local[r]
  <2>1. ~failed
    BY DEF Next, Step, vars, lease, redis, Expire, Fail, Recover, SeenExpires, WindowExpires,
           AttemptsExpire, Acquire, LoseLease, Release, Exit, Pick, MarkSeen, SkipSeen,
           IsSignalFresh, Attempts, Decide, IncrAttempt, MarkSignal, Execute
  <2>. QED
    BY <2>1 DEF HAInv, TypeOK, Reached
<1>2. Budgeted(s)
  BY <1>1 DEF BudgetInv
<1>3. attempts[s] \in Nat
  BY DEF HAInv, TypeOK
<1> DEFINE Kept == Passed(s)' \subseteq Passed(s) /\ attempts'[s] <= attempts[s]
<1>4. CASE Kept
  BY <1>2, <1>4, BudgetKept
<1>5. ASSUME \/ UNCHANGED <<pc, current>>
             \/ \E r \in Replicas : Exit(r) \/ \E v \in Versions : Pick(r, v),
             attempts'[s] <= attempts[s]
      PROVE  Kept
  BY <1>5, NobodyMoves DEF Passed
<1>6. ASSUME NEW r \in Replicas, NEW next, Goto(r, next),
             next \notin {"decide", "incr"} \/ pc[r] \in {"decide", "incr"},
             UNCHANGED attempts
      PROVE  Kept
  <2>1. attempts'[s] <= attempts[s]
    BY <1>3, <1>6
  <2>2. next \in {"decide", "incr"} => pc[r] \in {"decide", "incr"}
    BY <1>6
  <2>3. next # "idle" \/ "idle" \notin {"decide", "incr"}
    OBVIOUS
  <2>. QED
    BY <1>6, <2>1, <2>2, <2>3, NobodyEnters DEF Passed
<1>7. CASE \/ UNCHANGED vars \/ Expire \/ Recover
           \/ \E v \in Versions : SeenExpires(v)
           \/ \E k \in Signals : WindowExpires(k)
           \/ \E r \in Replicas : Acquire(r) \/ LoseLease(r) \/ Release(r)
  <2>1. UNCHANGED <<pc, current, attempts>>
    BY <1>7, Zenon DEF vars, redis, Expire, Recover, SeenExpires, WindowExpires, Acquire,
                       LoseLease, Release
  <2>. QED
    BY <1>3, <1>4, <1>5, <2>1
<1>8. ASSUME NEW k \in Signals, AttemptsExpire(k) PROVE Budgeted(s)'
  <2>1. UNCHANGED <<pc, current>> /\ attempts' = [attempts EXCEPT ![k] = 0]
    BY <1>8 DEF AttemptsExpire
  <2>2. attempts'[s] <= attempts[s]
    BY <1>3, <2>1, SMT DEF HAInv, TypeOK
  <2>. QED
    BY <1>4, <1>5, <2>1, <2>2
<1>9. ASSUME NEW r \in Replicas, Exit(r) \/ \E v \in Versions : Pick(r, v)
      PROVE  Budgeted(s)'
  <2>1. UNCHANGED attempts
    BY <1>9 DEF Exit, Pick, redis
  <2>. QED
    BY <1>3, <1>4, <1>5, <1>9, <2>1
<1>10. ASSUME NEW r \in Replicas,
              MarkSeen(r) \/ SkipSeen(r) \/ IsSignalFresh(r) \/ Decide(r) \/ MarkSignal(r)
                 \/ Execute(r)
       PROVE  Budgeted(s)'
  <2>1. UNCHANGED attempts
    BY <1>10 DEF MarkSeen, SkipSeen, IsSignalFresh, Decide, MarkSignal, Execute, redis
  <2>2. \E next : /\ Goto(r, next)
                  /\ next \notin {"decide", "incr"} \/ pc[r] \in {"decide", "incr"}
    BY <1>10, LookingUp DEF Decide, MarkSignal, Execute
  <2>. QED
    BY <1>4, <1>6, <2>1, <2>2
<1>11. ASSUME NEW r \in Replicas, Attempts(r) PROVE Budgeted(s)'
  <2>1. UNCHANGED attempts
    BY <1>11 DEF Attempts, redis
  <2>2. CASE attempts[Signal(r)] >= SignalMaxAttempts
    <3>1. Goto(r, "park")
      BY <1>1, <1>11, <2>2 DEF Attempts, Says
    <3>. QED
      BY <1>4, <1>6, <2>1, <3>1
  <2>3. CASE ~(attempts[Signal(r)] >= SignalMaxAttempts)
    <3>1. Goto(r, "decide")
      BY <1>1, <1>11, <2>3 DEF Attempts, Says
    <3>2. CASE Signal(r) = s
      <4>1. attempts'[s] < SignalMaxAttempts
        BY <1>3, <2>1, <2>3, <3>2, HAAssumption
      <4>. QED
        BY <1>2, <4>1, BudgetKept
    <3>3. CASE Signal(r) # s
      <4>1. r \notin Passed(s)'
        BY <3>1, <3>3, OneMoves DEF Passed
      <4>2. \A q \in Replicas \ {r} : q \in Passed(s)' <=> q \in Passed(s)
        BY <3>1, OneMoves DEF Passed
      <4>3. Passed(s)' \subseteq Replicas
        BY DEF Passed, At
      <4>4. attempts'[s] <= attempts[s]
        BY <1>3, <2>1
      <4>. QED
        BY <1>4, <4>1, <4>2, <4>3, <4>4
    <3>. QED
      BY <3>2, <3>3
  <2>. QED
    BY <2>2, <2>3
<1>12. ASSUME NEW r \in Replicas, IncrAttempt(r) PROVE Budgeted(s)'
  <2>1. /\ pc[r] = "incr" /\ Goto(r, "mark_signal")
        /\ attempts' = [attempts EXCEPT ![Signal(r)] = OneMore(@)]
    BY <1>1, <1>12 DEF IncrAttempt, Sent
  <2>2. r \notin Passed(s)'
    BY <2>1, OneMoves DEF Passed
  <2>3. Passed(s)' \subseteq Passed(s)
    <3>1. \A q \in Replicas \ {r} : q \in Passed(s)' <=> q \in Passed(s)
      BY <2>1, OneMoves DEF Passed
    <3>2. Passed(s)' \subseteq Replicas
      BY DEF Passed, At
    <3>. QED
      BY <2>2, <3>1, <3>2
  <2>4. CASE Signal(r) = s
    <3>1. r \in Passed(s)
      BY <2>1, <2>4 DEF Passed, At
    <3>2. attempts'[s] <= attempts[s] + 1
      BY <1>3, <2>1, <2>4, SMT DEF OneMore, HAInv, TypeOK
    <3>. QED
      BY <1>2, <2>2, <2>3, <3>1, <3>2, BudgetKept
  <2>5. CASE Signal(r) # s
    <3>1. attempts'[s] <= attempts[s]
      BY <1>3, <2>1, <2>5, SMT DEF HAInv, TypeOK
    <3>. QED
      BY <1>4, <2>3, <3>1
  <2>. QED
    BY <2>4, <2>5
<1>13. ~Fail
  BY <1>1, Zenon DEF Fail
<1>. QED
  BY <1>7, <1>8, <1>9, <1>10, <1>11, <1>12, <1>13 DEF Next, Step

\* However the leases of any number of replicas overlap, a counter exceeds the
\* limit by at most one attempt for each replica but the first. (Attempts and
\* IncrAttempt are two calls, main.go:876 and 1006)
THEOREM ReplicasBoundAttempts == Spec => []AttemptsBounded
<1>1. ASSUME Init PROVE BudgetInv
  <2>1. ASSUME NEW s \in Signals PROVE Budgeted(s)
    <3>1. Passed(s) = {} /\ attempts[s] = 0
      BY <1>1, SMT DEF Init, Passed, At
    <3>2. Cardinality(Replicas) \in Nat
      BY HAAssumption, FS_CardinalityType
    <3>. QED
      BY <3>1, <3>2, FS_EmptySet, HAAssumption DEF Budgeted
  <2>. QED
    BY <2>1 DEF BudgetInv
<1>2. HAInv /\ BudgetInv => AttemptsBounded
  <2> SUFFICES ASSUME HAInv, BudgetInv, ~failed, NEW s \in Signals
               PROVE  attempts[s] <= SignalMaxAttempts + Cardinality(Replicas) - 1
    BY DEF AttemptsBounded
  <2>1. Budgeted(s)
    BY DEF BudgetInv
  <2>2. /\ attempts[s] \in Nat /\ Cardinality(Passed(s)) \in Nat
        /\ Cardinality(Replicas) \in Nat
    BY Counting DEF HAInv, TypeOK, Passed, At
  <2>. QED
    BY <2>1, <2>2, HAAssumption DEF Budgeted
<1>3. HAInv /\ HAInv' /\ BudgetInv /\ [Next]_vars => BudgetInv'
  BY NextBudget
<1>. QED
  BY <1>1, <1>2, <1>3, HAInvariant, PTL DEF Spec

-----------------------------------------------------------------------------
(* Decisions                                                               *)

\* Past the look at the window, and the window not opened yet.
Deciding(s) == At({"attempts", "decide", "park", "incr", "mark_signal"}, s)

\* Each of those may add one decision to an open window; none is in a closed one.
Shared(s) ==
    IF s \in window THEN acts[s] + Cardinality(Deciding(s)) <= Cardinality(Replicas)
    ELSE acts[s] = 0

SharedInv == ~failed => \A s \in Signals : Shared(s)

\* A window keeps its decisions while nobody joins, starts with none, and gets
\* one from a replica that is done deciding.
LEMMA SharedKept ==
  ASSUME HAInv, HAInv', NEW s \in Signals, Shared(s),
         \/ /\ Deciding(s)' \subseteq Deciding(s) /\ acts'[s] = acts[s]
            /\ s \in window' <=> s \in window
         \/ acts'[s] = 0
         \/ /\ s \in window' /\ acts'[s] <= acts[s] + 1
            /\ \E r \in Deciding(s) : Deciding(s)' \subseteq Deciding(s) \ {r}
  PROVE  Shared(s)'
<1>1. Deciding(s) \in SUBSET Replicas /\ Deciding(s)' \in SUBSET Replicas
  BY DEF Deciding, At
<1>2. acts[s] \in Nat /\ acts'[s] \in Nat
  BY DEF HAInv, TypeOK
<1>3. /\ Cardinality(Deciding(s)) \in Nat /\ Cardinality(Deciding(s)') \in Nat
      /\ Cardinality(Replicas) \in Nat
      /\ Cardinality(Deciding(s)) <= Cardinality(Replicas)
      /\ Cardinality(Deciding(s)') <= Cardinality(Replicas)
  BY <1>1, Counting
<1>4. CASE /\ Deciding(s)' \subseteq Deciding(s) /\ acts'[s] = acts[s]
           /\ s \in window' <=> s \in window
  <2>1. Cardinality(Deciding(s)') <= Cardinality(Deciding(s))
    BY <1>1, <1>4, Counting
  <2>. QED
    BY <1>2, <1>3, <1>4, <2>1 DEF Shared
<1>5. CASE acts'[s] = 0
  BY <1>3, <1>5 DEF Shared
<1>6. CASE /\ s \in window' /\ acts'[s] <= acts[s] + 1
           /\ \E r \in Deciding(s) : Deciding(s)' \subseteq Deciding(s) \ {r}
  <2>1. Cardinality(Deciding(s)') + 1 <= Cardinality(Deciding(s))
    BY <1>1, <1>6, Counting
  <2>. QED
    BY <1>2, <1>3, <1>6, <2>1 DEF Shared
<1>. QED
  BY <1>4, <1>5, <1>6

LEMMA NextShared ==
  ASSUME HAInv, HAInv', SharedInv, [Next]_vars
  PROVE  SharedInv'
<1> SUFFICES ASSUME ~failed', NEW s \in Signals PROVE Shared(s)'
  BY DEF SharedInv
<1>1. ~failed /\ up /\ \A r \in Replicas : Reached(r) /\ ~local[r]
  <2>1. ~failed
    BY DEF Next, Step, vars, lease, redis, Expire, Fail, Recover, SeenExpires, WindowExpires,
           AttemptsExpire, Acquire, LoseLease, Release, Exit, Pick, MarkSeen, SkipSeen,
           IsSignalFresh, Attempts, Decide, IncrAttempt, MarkSignal, Execute
  <2>. QED
    BY <2>1 DEF HAInv, TypeOK, Reached
<1>2. Shared(s)
  BY <1>1 DEF SharedInv
<1> DEFINE Places == {"attempts", "decide", "park", "incr", "mark_signal"}
           Kept == /\ Deciding(s)' \subseteq Deciding(s) /\ acts'[s] = acts[s]
                   /\ s \in window' <=> s \in window
<1>3. CASE Kept
  BY <1>2, <1>3, SharedKept
<1>4. CASE /\ \/ UNCHANGED <<pc, current>>
              \/ \E r \in Replicas : Exit(r) \/ \E v \in Versions : Pick(r, v)
           /\ UNCHANGED <<acts, window>>
  <2>1. Deciding(s)' \subseteq Deciding(s)
    BY <1>4, NobodyMoves DEF Deciding
  <2>. QED
    BY <1>3, <1>4, <2>1
<1>5. ASSUME NEW r \in Replicas, NEW next, Goto(r, next),
             next \notin Places \/ pc[r] \in Places
      PROVE  Deciding(s)' \subseteq Deciding(s)
  <2>1. next \in Places => pc[r] \in Places
    BY <1>5
  <2>2. next # "idle" \/ "idle" \notin Places
    OBVIOUS
  <2>. QED
    BY <1>5, <2>1, <2>2, NobodyEnters DEF Deciding
<1>6. CASE \/ UNCHANGED vars \/ Expire \/ Recover
           \/ \E v \in Versions : SeenExpires(v)
           \/ \E k \in Signals : AttemptsExpire(k)
           \/ \E r \in Replicas : Acquire(r) \/ LoseLease(r) \/ Release(r)
  <2>1. UNCHANGED <<pc, current, acts, window>>
    BY <1>6, Zenon DEF vars, redis, Expire, Recover, SeenExpires, AttemptsExpire, Acquire,
                       LoseLease, Release
  <2>. QED
    BY <1>4, <2>1
<1>7. ASSUME NEW k \in Signals, WindowExpires(k) PROVE Shared(s)'
  <2>1. /\ UNCHANGED <<pc, current>> /\ window' = window \ {k}
        /\ acts' = [acts EXCEPT ![k] = 0]
    BY <1>7 DEF WindowExpires
  <2>2. CASE k = s
    <3>1. acts'[s] = 0
      BY <2>1, <2>2, SMT DEF HAInv, TypeOK
    <3>. QED
      BY <1>2, <3>1, SharedKept
  <2>3. CASE k # s
    <3>1. acts'[s] = acts[s]
      BY <2>1, <2>3, SMT DEF HAInv, TypeOK
    <3>2. Deciding(s)' \subseteq Deciding(s)
      BY <2>1, NobodyMoves DEF Deciding
    <3>. QED
      BY <1>3, <2>1, <2>3, <3>1, <3>2
  <2>. QED
    BY <2>2, <2>3
<1>8. ASSUME NEW r \in Replicas, Exit(r) \/ \E v \in Versions : Pick(r, v)
      PROVE  Shared(s)'
  <2>1. UNCHANGED <<acts, window>>
    BY <1>8 DEF Exit, Pick, redis
  <2>. QED
    BY <1>4, <1>8, <2>1
<1>9. ASSUME NEW r \in Replicas,
             MarkSeen(r) \/ SkipSeen(r) \/ Attempts(r) \/ Decide(r) \/ IncrAttempt(r)
                \/ Execute(r)
      PROVE  Shared(s)'
  <2>1. UNCHANGED <<acts, window>>
    BY <1>9 DEF MarkSeen, SkipSeen, Attempts, Decide, IncrAttempt, Execute, redis
  <2>2. \E next : Goto(r, next) /\ (next \notin Places \/ pc[r] \in Places)
    BY <1>9, LookingUp DEF Decide, IncrAttempt, Execute
  <2>3. Deciding(s)' \subseteq Deciding(s)
    BY <1>5, <2>2
  <2>. QED
    BY <1>3, <2>1, <2>3
<1>10. ASSUME NEW r \in Replicas, IsSignalFresh(r) PROVE Shared(s)'
  <2>1. UNCHANGED <<acts, window>>
    BY <1>10 DEF IsSignalFresh, redis
  <2>2. CASE Signal(r) \in window
    <3>1. Goto(r, "idle")
      BY <1>1, <1>10, <2>2 DEF IsSignalFresh, Says
    <3>2. Deciding(s)' \subseteq Deciding(s)
      BY <1>5, <3>1
    <3>. QED
      BY <1>3, <2>1, <3>2
  <2>3. CASE Signal(r) \notin window /\ Signal(r) = s
    <3>1. acts'[s] = 0
      BY <1>2, <2>1, <2>3 DEF Shared
    <3>. QED
      BY <1>2, <3>1, SharedKept
  <2>4. CASE Signal(r) \notin window /\ Signal(r) # s
    <3>1. Goto(r, "attempts")
      BY <1>1, <1>10, <2>4 DEF IsSignalFresh, Says
    <3>2. r \notin Deciding(s)'
      BY <2>4, <3>1, OneMoves DEF Deciding
    <3>3. \A q \in Replicas \ {r} : q \in Deciding(s)' <=> q \in Deciding(s)
      BY <3>1, OneMoves DEF Deciding
    <3>4. Deciding(s)' \subseteq Replicas
      BY DEF Deciding, At
    <3>. QED
      BY <1>3, <2>1, <3>2, <3>3, <3>4
  <2>. QED
    BY <2>2, <2>3, <2>4
<1>11. ASSUME NEW r \in Replicas, MarkSignal(r) PROVE Shared(s)'
  <2>1. /\ pc[r] \in {"park", "mark_signal"}
        /\ \E next \in {"idle", "execute"} : Goto(r, next)
    BY <1>11 DEF MarkSignal
  <2>2. window' = window \union {Signal(r)}
    BY <1>1, <1>11 DEF MarkSignal, Sent, Reached
  <2>3. acts' = [acts EXCEPT ![Signal(r)] = IF pc[r] = "park" \/ failed THEN @ ELSE OneMore(@)]
    BY <1>11 DEF MarkSignal
  <2>4. Deciding(s)' \subseteq Deciding(s) /\ r \notin Deciding(s)'
    <3>1. PICK next \in {"idle", "execute"} : Goto(r, next)
      BY <2>1
    <3>2. Deciding(s)' \subseteq Deciding(s)
      BY <1>5, <3>1
    <3>3. r \notin Deciding(s)'
      BY <3>1, OneMoves DEF Deciding
    <3>. QED
      BY <3>2, <3>3
  <2>5. acts[s] \in Nat
    BY DEF HAInv, TypeOK
  <2>6. CASE Signal(r) = s
    <3>1. r \in Deciding(s)
      BY <2>1, <2>6 DEF Deciding, At
    <3>2. acts'[s] <= acts[s] + 1
      BY <2>3, <2>5, <2>6, SMT DEF OneMore, HAInv, TypeOK
    <3>. QED
      BY <1>2, <2>2, <2>4, <2>6, <3>1, <3>2, SharedKept
  <2>7. CASE Signal(r) # s
    <3>1. acts'[s] = acts[s]
      BY <2>3, <2>7, SMT DEF HAInv, TypeOK
    <3>. QED
      BY <1>3, <2>2, <2>4, <2>7, <3>1
  <2>. QED
    BY <2>6, <2>7
<1>12. ~Fail
  BY <1>1, Zenon DEF Fail
<1>. QED
  BY <1>6, <1>7, <1>8, <1>9, <1>10, <1>11, <1>12 DEF Next, Step

\* A window is paid for by one decision of each replica at most, whoever led
\* when it was opened. (IsSignalFresh and MarkSignal are two calls, with the
\* model's answer between them, main.go:864 and 1008)
THEOREM ReplicasBoundDecisions == Spec => []DecisionsPerWindow
<1>1. ASSUME Init PROVE SharedInv
  BY <1>1, SMT DEF Init, SharedInv, Shared
<1>2. HAInv /\ SharedInv => DecisionsPerWindow
  <2> SUFFICES ASSUME HAInv, SharedInv, ~failed, NEW s \in Signals
               PROVE  acts[s] <= Cardinality(Replicas)
    BY DEF DecisionsPerWindow
  <2>1. Shared(s)
    BY DEF SharedInv
  <2>2. /\ acts[s] \in Nat /\ Cardinality(Deciding(s)) \in Nat
        /\ Cardinality(Replicas) \in Nat
    BY Counting DEF HAInv, TypeOK, Deciding, At
  <2>. QED
    BY <2>1, <2>2 DEF Shared
<1>3. HAInv /\ HAInv' /\ SharedInv /\ [Next]_vars => SharedInv'
  BY NextShared
<1>. QED
  BY <1>1, <1>2, <1>3, HAInvariant, PTL DEF Spec

=============================================================================
