-------------------------- MODULE LoopHealth_proofs --------------------------
(***************************************************************************)
(* Proofs about LoopHealth, for any configuration of intervals: the        *)
(* heartbeat of a live loop is never too old, that of a stuck one is never *)
(* much older.                                                             *)
(***************************************************************************)
EXTENDS LoopHealth, TLAPS

-----------------------------------------------------------------------------
(* Types                                                                   *)

LEMMA InitType == InitLoop => TypeOK
<1> SUFFICES ASSUME InitLoop PROVE TypeOK
  OBVIOUS
<1>1. leading \in [Replicas -> BOOLEAN] /\ pending \in [Replicas -> BOOLEAN]
  BY Zenon DEF InitLoop
<1>2. TypeOKNotifier
  BY NotifierAssumption, SMT DEF InitLoop, InitNotifier, TypeOKNotifier, Free
<1>. QED
  BY <1>1, <1>2, LoopAssumption, SMT DEF InitLoop, TypeOK, Phases

LEMMA StopType ==
  ASSUME TypeOK, NEW r \in Replicas, Stop(r), faults' \in Nat
  PROVE  TypeOK'
<1>1. leading' \in [Replicas -> BOOLEAN] /\ pending' \in [Replicas -> BOOLEAN]
  BY Zenon DEF Stop, TypeOK
<1>2. TypeOKNotifier'
  BY NotifierAssumption, SMT DEF Stop, ForgetSends, TypeOK, TypeOKNotifier, Free
<1>3. lease' \in Replicas \union {Nobody} /\ timer' = timer
  BY SMT DEF Stop, TypeOK
<1>4. /\ phase' \in [Replicas -> Phases]
      /\ age' \in [Replicas -> Nat] /\ spent' \in [Replicas -> Nat]
      /\ sinceProbe' \in [Replicas -> 0 .. ProbePeriod]
      /\ fails' \in [Replicas -> Nat]
  BY LoopAssumption, SMT DEF Stop, TypeOK, Phases
<1>. QED
  BY <1>1, <1>2, <1>3, <1>4 DEF TypeOK

LEMMA StampType ==
  ASSUME TypeOK, NEW r \in Replicas, Stamp(r)
  PROVE  age' \in [Replicas -> Nat]
BY LoopAssumption, SMT DEF Stamp, TypeOK

LEMMA TickType == TypeOK /\ Tick => TypeOK'
<1> SUFFICES ASSUME TypeOK, Tick PROVE TypeOK'
  OBVIOUS
<1>1. leading' \in [Replicas -> BOOLEAN]
  BY DEF Tick, TypeOK
<1>2. pending' \in [Replicas -> BOOLEAN]
  BY Zenon DEF Tick
<1>3. TypeOKNotifier'
  <2>1. \A q \in Replicas : \A s \in Slots : slot[q][s] < SendTimeout
    BY DEF Tick, MayWait, SendsMayWait
  <2>. QED
    BY <2>1, NotifierAssumption, SMT DEF Tick, SendsAge, TypeOK, TypeOKNotifier, Free
<1>4. timer' \in [Replicas -> 0 .. PollSec - 1]
  BY LoopAssumption, SMT DEF Tick, TypeOK, Fires
<1>5. sinceProbe' \in [Replicas -> 0 .. ProbePeriod]
  <2>1. \A q \in Replicas : phase[q] # "down" => sinceProbe[q] < ProbePeriod
    BY DEF Tick, MayWait
  <2>. QED
    BY <2>1, LoopAssumption, SMT DEF Tick, TypeOK
<1>6. age' \in [Replicas -> Nat] /\ spent' \in [Replicas -> Nat]
  BY SMT DEF Tick, TypeOK
<1>. QED
  BY <1>1, <1>2, <1>3, <1>4, <1>5, <1>6 DEF Tick, TypeOK

LEMMA NextType == TypeOK /\ [NextLoop]_hvars => TypeOK'
<1> SUFFICES ASSUME TypeOK, [NextLoop]_hvars PROVE TypeOK'
  OBVIOUS
<1> USE LoopAssumption, NotifierAssumption
<1>1. CASE Tick
  BY <1>1, TickType
<1>2. ASSUME NEW r \in Replicas, Boot(r) PROVE TypeOK'
  BY <1>2, SMT DEF Boot, TypeOK, TypeOKNotifier, Phases, probes, notifier
<1>3. ASSUME NEW r \in Replicas, Elected(r) PROVE TypeOK'
  BY <1>3, SMT DEF Elected, TypeOK, TypeOKNotifier, Phases, probes, notifier
<1>4. ASSUME NEW r \in Replicas, StartLoop(r) PROVE TypeOK'
  <2>1. leading' \in [Replicas -> BOOLEAN] /\ pending' \in [Replicas -> BOOLEAN]
    BY <1>4, Zenon DEF StartLoop, TypeOK
  <2>2. age' \in [Replicas -> Nat]
    BY <1>4, StampType DEF StartLoop
  <2>. QED
    BY <1>4, <2>1, <2>2, SMT DEF StartLoop, TypeOK, TypeOKNotifier, Phases, probes, notifier
<1>5. ASSUME NEW r \in Replicas, BeginPoll(r) PROVE TypeOK'
  <2>1. pending' \in [Replicas -> BOOLEAN]
    BY <1>5, Zenon DEF BeginPoll, TypeOK
  <2>. QED
    BY <1>5, <2>1, SMT DEF BeginPoll, TypeOK, TypeOKNotifier, Phases, probes, notifier
<1>6. ASSUME NEW r \in Replicas, Notify(r) PROVE TypeOK'
  <2>1. TypeOKNotifier'
    BY <1>6, SMT DEF Notify, NotifyDecision, TypeOK, TypeOKNotifier, Free
  <2>. QED
    BY <1>6, <2>1 DEF Notify, TypeOK, loop, probes
<1>7. ASSUME NEW r \in Replicas, EndPoll(r) PROVE TypeOK'
  <2>1. age' \in [Replicas -> Nat]
    BY <1>7, StampType DEF EndPoll
  <2>2. phase' \in [Replicas -> Phases]
    BY <1>7, SMT DEF EndPoll, TypeOK, Phases
  <2>. QED
    BY <1>7, <2>1, <2>2 DEF EndPoll, TypeOK, TypeOKNotifier, probes, notifier
<1>8. ASSUME NEW r \in Replicas, Wedge(r) PROVE TypeOK'
  BY <1>8, SMT DEF Wedge, TypeOK, TypeOKNotifier, Phases, probes, notifier
<1>9. ASSUME NEW r \in Replicas, Exit(r) PROVE TypeOK'
  BY <1>9, StopType, SMT DEF Exit, TypeOK
<1>10. ASSUME NEW r \in Replicas, Probe(r) PROVE TypeOK'
  <2>1. fails' \in [Replicas -> Nat]
        /\ sinceProbe' \in [Replicas -> 0 .. ProbePeriod]
    BY <1>10, SMT DEF Probe, TypeOK
  <2>. QED
    BY <1>10, <2>1 DEF Probe, TypeOK, TypeOKNotifier, loop, notifier
<1>11. ASSUME NEW r \in Replicas, Kill(r) PROVE TypeOK'
  BY <1>11, StopType DEF Kill, TypeOK
<1>12. ASSUME NEW r \in Replicas, SendStep(r), UNCHANGED <<lease, loop, probes, faults>>
       PROVE  TypeOK'
  <2>1. ASSUME LeftReturns(r) PROVE TypeOKNotifier'
    BY <2>1, SMT DEF LeftReturns, TypeOK, TypeOKNotifier
  <2>2. ASSUME NEW s \in Slots, SendReturns(r, s) PROVE TypeOKNotifier'
    BY <2>2, SMT DEF SendReturns, TypeOK, TypeOKNotifier
  <2>3. ASSUME NEW s \in Slots, SendTimesOut(r, s) PROVE TypeOKNotifier'
    <3>1. left' \in [Replicas -> 0 .. MaxLeft]
      BY <2>3, SMT DEF SendTimesOut, TypeOK, TypeOKNotifier
    <3>. QED
      BY <2>3, <3>1, SMT DEF SendTimesOut, TypeOK, TypeOKNotifier
  <2>4. TypeOKNotifier'
    BY <1>12, <2>1, <2>2, <2>3 DEF SendStep, TypeOK
  <2>. QED
    BY <1>12, <2>4 DEF TypeOK, loop, probes
<1>13. CASE UNCHANGED hvars
  BY <1>13 DEF hvars, TypeOK, TypeOKNotifier, loop, probes, notifier
<1>. QED
  BY <1>1, <1>2, <1>3, <1>4, <1>5, <1>6, <1>7, <1>8, <1>9, <1>10, <1>11, <1>12, <1>13
     DEF NextLoop

\* The variables keep to their sets, whatever the configuration.
THEOREM TypeCorrect == SpecLoop => []TypeOK
BY InitType, NextType, PTL DEF SpecLoop

-----------------------------------------------------------------------------
(* The heartbeat                                                           *)

\* Between polls its age is covered by the ticker, in a poll by the deadline;
\* an old one is accounted for by the probes that failed.
Beat(r) ==
    /\ leading[r] <=> phase[r] \in {"idle", "polling", "wedged"}
    /\ phase[r] = "idle" =>
          age[r] <= Truncation + IF pending[r] THEN PollSec ELSE timer[r]
    /\ phase[r] = "polling" =>
          /\ age[r] <= Truncation + PollSec + spent[r]
          /\ spent[r] <= PollContextTimeout + Overrun
    /\ leading[r] => age[r] <= StaleAfter + fails[r] * ProbePeriod + sinceProbe[r]
    /\ fails[r] <= FailureThreshold
    /\ fails[r] = FailureThreshold => sinceProbe[r] = 0

HeartbeatInv == TypeOK /\ \A r \in Replicas : Beat(r)

LEMMA InitBeat == InitLoop => HeartbeatInv
<1> SUFFICES ASSUME InitLoop PROVE HeartbeatInv
  OBVIOUS
<1>1. ASSUME NEW r \in Replicas PROVE Beat(r)
  <2>1. leading[r] = FALSE /\ phase[r] = "down" /\ fails[r] = 0 /\ sinceProbe[r] = 0
    BY Zenon DEF InitLoop
  <2>. QED
    BY <2>1, LoopAssumption, SMT DEF Beat
<1>. QED
  BY <1>1, InitType DEF HeartbeatInv

\* What a unit of time does to one replica.
LEMMA TickOfOne ==
  ASSUME TypeOK, Tick, NEW r \in Replicas
  PROVE  /\ phase'[r] = phase[r] /\ leading'[r] = leading[r] /\ fails'[r] = fails[r]
         /\ fails[r] < FailureThreshold
         /\ leading[r] => age'[r] <= age[r] + 1
         /\ phase[r] # "down" => sinceProbe'[r] = sinceProbe[r] + 1
         /\ sinceProbe'[r] = 0 \/ sinceProbe'[r] = sinceProbe[r] + 1
         /\ phase[r] = "polling" => /\ spent'[r] = spent[r] + 1
                                   /\ spent[r] < PollContextTimeout + Overrun
         /\ leading[r] /\ Fires(r) => timer[r] + 1 = PollSec
         /\ leading[r] /\ ~Fires(r) => timer'[r] = timer[r] + 1
         /\ phase[r] = "idle" => ~pending[r]
         /\ pending'[r] <=> pending[r] \/ Fires(r)
<1>1. /\ phase'[r] = phase[r] /\ leading'[r] = leading[r] /\ fails'[r] = fails[r]
      /\ fails[r] < FailureThreshold
  BY DEF Tick, MayWait
<1>2. leading[r] => age'[r] <= age[r] + 1
  BY SMT DEF Tick, TypeOK
<1>3. /\ phase[r] # "down" => sinceProbe'[r] = sinceProbe[r] + 1
      /\ sinceProbe'[r] = 0 \/ sinceProbe'[r] = sinceProbe[r] + 1
  BY SMT DEF Tick
<1>4. phase[r] = "polling" => /\ spent'[r] = spent[r] + 1
                              /\ spent[r] < PollContextTimeout + Overrun
  BY SMT DEF Tick, MayWait
<1>5. /\ leading[r] /\ Fires(r) => timer[r] + 1 = PollSec
      /\ leading[r] /\ ~Fires(r) => timer'[r] = timer[r] + 1
  BY Zenon DEF Tick, Fires
<1>6. /\ phase[r] = "idle" => ~pending[r]
      /\ pending'[r] <=> pending[r] \/ Fires(r)
  BY Zenon DEF Tick, MayWait
<1>. QED
  BY <1>1, <1>2, <1>3, <1>4, <1>5, <1>6

LEMMA TickBeat ==
  ASSUME TypeOK, Tick, NEW r \in Replicas, Beat(r)
  PROVE  Beat(r)'
<1> DEFINE F == fails[r] * ProbePeriod
<1>1. /\ age[r] \in Nat /\ spent[r] \in Nat /\ timer[r] \in 0 .. PollSec - 1
      /\ sinceProbe[r] \in Nat /\ fails[r] \in Nat /\ age'[r] \in Nat
  BY TickType, LoopAssumption, SMT DEF TypeOK
<1>2. F \in Nat
  BY <1>1, LoopAssumption, SMT
<1>3. leading'[r] <=> phase'[r] \in {"idle", "polling", "wedged"}
  BY TickOfOne, Zenon DEF Beat
<1>4. ASSUME phase'[r] = "idle"
      PROVE  age'[r] <= Truncation + IF pending'[r] THEN PollSec ELSE timer'[r]
  <2>1. phase[r] = "idle" /\ leading[r] /\ ~pending[r]
    BY <1>4, TickOfOne, Zenon DEF Beat
  <2>2. age[r] <= Truncation + timer[r] /\ age'[r] <= age[r] + 1
    BY <2>1, TickOfOne DEF Beat
  <2>3. CASE Fires(r)
    <3>1. pending'[r] /\ timer[r] + 1 = PollSec
      BY <2>1, <2>3, TickOfOne
    <3>. QED
      BY <3>1, <2>2, <1>1, LoopAssumption, SMT
  <2>4. CASE ~Fires(r)
    <3>1. ~pending'[r] /\ timer'[r] = timer[r] + 1
      BY <2>1, <2>4, TickOfOne
    <3>. QED
      BY <3>1, <2>2, <1>1, LoopAssumption, SMT
  <2>. QED
    BY <2>3, <2>4
<1>5. ASSUME phase'[r] = "polling"
      PROVE  /\ age'[r] <= Truncation + PollSec + spent'[r]
             /\ spent'[r] <= PollContextTimeout + Overrun
  <2>1. phase[r] = "polling" /\ leading[r]
    BY <1>5, TickOfOne, Zenon DEF Beat
  <2>2. /\ age[r] <= Truncation + PollSec + spent[r] /\ age'[r] <= age[r] + 1
        /\ spent'[r] = spent[r] + 1 /\ spent[r] < PollContextTimeout + Overrun
    BY <2>1, TickOfOne DEF Beat
  <2>. QED
    BY <2>2, <1>1, LoopAssumption, SMT
<1>6. ASSUME leading'[r]
      PROVE  age'[r] <= StaleAfter + fails'[r] * ProbePeriod + sinceProbe'[r]
  <2>1. leading[r] /\ phase[r] # "down" /\ fails'[r] = fails[r]
    BY <1>6, TickOfOne, Zenon DEF Beat
  <2>2. /\ age'[r] <= age[r] + 1 /\ sinceProbe'[r] = sinceProbe[r] + 1
        /\ age[r] <= StaleAfter + F + sinceProbe[r]
    BY <2>1, TickOfOne DEF Beat
  <2>3. StaleAfter \in Nat
    BY LoopAssumption, SMT DEF StaleAfter
  <2>4. age'[r] <= StaleAfter + F + sinceProbe'[r]
    BY ONLY <2>2, <2>3, <1>1, <1>2, SMT
  <2>. QED
    BY <2>1, <2>4
<1>7. /\ fails'[r] <= FailureThreshold
      /\ fails'[r] = FailureThreshold => sinceProbe'[r] = 0
  <2>1. fails'[r] = fails[r] /\ fails[r] < FailureThreshold
    BY TickOfOne
  <2>. QED
    BY <2>1, <1>1, LoopAssumption, SMT
<1>. QED
  BY <1>3, <1>4, <1>5, <1>6, <1>7 DEF Beat

\* r takes no part in a step.
Same(r) ==
    /\ phase'[r] = phase[r] /\ leading'[r] = leading[r] /\ age'[r] = age[r]
    /\ spent'[r] = spent[r] /\ timer'[r] = timer[r] /\ pending'[r] = pending[r]
    /\ sinceProbe'[r] = sinceProbe[r] /\ fails'[r] = fails[r]

LEMMA SameBeat == ASSUME NEW r \in Replicas, Beat(r), Same(r) PROVE Beat(r)'
BY DEF Beat, Same

LEMMA StampOne ==
  ASSUME TypeOK, NEW p \in Replicas, Stamp(p)
  PROVE  /\ age'[p] \in 0 .. Truncation
         /\ \A r \in Replicas \ {p} : age'[r] = age[r]
BY SMT DEF Stamp, TypeOK

\* Its own heartbeat after each step of p.
StepOf(p) ==
    \/ Boot(p) \/ Elected(p) \/ StartLoop(p) \/ BeginPoll(p) \/ Notify(p) \/ EndPoll(p)
    \/ Wedge(p) \/ Exit(p) \/ Probe(p) \/ Kill(p)

LEMMA OneAtATime ==
  ASSUME TypeOK, NEW p \in Replicas, StepOf(p), NEW r \in Replicas \ {p}
  PROVE  Same(r)
<1>1. CASE Boot(p)
  BY <1>1, SMT DEF Boot, Same, TypeOK, probes
<1>2. CASE Elected(p)
  BY <1>2, SMT DEF Elected, Same, TypeOK, probes
<1>3. CASE StartLoop(p)
  BY <1>3, StampOne, SMT DEF StartLoop, Same, TypeOK, probes
<1>4. CASE BeginPoll(p)
  BY <1>4, SMT DEF BeginPoll, Same, TypeOK, probes
<1>5. CASE Notify(p)
  BY <1>5, SMT DEF Notify, Same, loop, probes
<1>6. CASE EndPoll(p)
  BY <1>6, StampOne, SMT DEF EndPoll, Same, TypeOK, probes
<1>7. CASE Wedge(p)
  BY <1>7, SMT DEF Wedge, Same, TypeOK, probes
<1>8. CASE Exit(p)
  BY <1>8, SMT DEF Exit, Stop, Same, TypeOK
<1>9. CASE Probe(p)
  BY <1>9, SMT DEF Probe, Same, TypeOK, loop
<1>10. CASE Kill(p)
  BY <1>10, SMT DEF Kill, Stop, Same, TypeOK
<1>. QED
  BY <1>1, <1>2, <1>3, <1>4, <1>5, <1>6, <1>7, <1>8, <1>9, <1>10 DEF StepOf

LEMMA OwnBeat ==
  ASSUME TypeOK, NEW r \in Replicas, Beat(r), StepOf(r)
  PROVE  Beat(r)'
<1>1. /\ age[r] \in Nat /\ spent[r] \in Nat /\ timer[r] \in 0 .. PollSec - 1
      /\ sinceProbe[r] \in Nat /\ fails[r] \in Nat /\ StaleAfter \in Nat
      /\ fails[r] * ProbePeriod \in Nat
  <2>1. /\ age[r] \in Nat /\ spent[r] \in Nat /\ timer[r] \in 0 .. PollSec - 1
        /\ sinceProbe[r] \in Nat /\ fails[r] \in Nat
    BY LoopAssumption, SMT DEF TypeOK
  <2>. QED
    BY <2>1, LoopAssumption, SMT DEF StaleAfter
<1>2. CASE Boot(r) \/ Elected(r)
  <2>1. /\ phase[r] \in {"down", "follower"} /\ phase'[r] \in {"follower", "syncing"}
        /\ UNCHANGED <<leading, sinceProbe, fails>>
    BY <1>2, SMT DEF Boot, Elected, TypeOK, probes
  <2>. QED
    BY <2>1, SMT DEF Beat
<1>3. CASE StartLoop(r)
  <2>1. /\ phase'[r] = "polling" /\ spent'[r] = 0 /\ UNCHANGED <<sinceProbe, fails>>
        /\ age'[r] \in 0 .. Truncation
    BY <1>3, StampOne, SMT DEF StartLoop, TypeOK, probes
  <2>2. leading'[r] = TRUE
    BY <1>3, Zenon DEF StartLoop, TypeOK
  <2>3. age'[r] <= StaleAfter + fails'[r] * ProbePeriod + sinceProbe'[r]
    BY <1>1, <2>1, LoopAssumption, SMT DEF StaleAfter
  <2>. QED
    BY <1>1, <2>1, <2>2, <2>3, LoopAssumption, SMT DEF Beat
<1>4. CASE BeginPoll(r)
  <2>1. /\ phase[r] = "idle" /\ pending[r] /\ phase'[r] = "polling" /\ spent'[r] = 0
        /\ UNCHANGED <<leading, age, sinceProbe, fails>>
    BY <1>4, SMT DEF BeginPoll, TypeOK, probes
  <2>. QED
    BY <1>1, <2>1, LoopAssumption, SMT DEF Beat
<1>5. CASE Notify(r)
  BY <1>5, SameBeat DEF Notify, Same, loop, probes
<1>6. CASE EndPoll(r)
  <2>1. /\ phase[r] = "polling" /\ phase'[r] = "idle"
        /\ UNCHANGED <<leading, timer, pending, sinceProbe, fails>>
        /\ age'[r] \in 0 .. Truncation
    BY <1>6, StampOne, SMT DEF EndPoll, TypeOK, probes
  <2>2. age'[r] <= StaleAfter + fails'[r] * ProbePeriod + sinceProbe'[r]
    BY <1>1, <2>1, LoopAssumption, SMT DEF StaleAfter
  <2>. QED
    BY <1>1, <2>1, <2>2, LoopAssumption, SMT DEF Beat
<1>7. CASE Wedge(r)
  <2>1. /\ phase[r] = "polling" /\ phase'[r] = "wedged"
        /\ UNCHANGED <<leading, age, sinceProbe, fails>>
    BY <1>7, SMT DEF Wedge, TypeOK, probes
  <2>. QED
    BY <1>1, <2>1, SMT DEF Beat
<1>8. CASE Exit(r) \/ Kill(r)
  <2>1. phase'[r] = "down" /\ fails'[r] = 0 /\ sinceProbe'[r] = 0
    BY <1>8, SMT DEF Exit, Kill, Stop, TypeOK
  <2>2. leading'[r] = FALSE
    BY <1>8, Zenon DEF Exit, Kill, Stop, TypeOK
  <2>. QED
    BY <2>1, <2>2, LoopAssumption, SMT DEF Beat
<1>9. CASE Probe(r)
  <2>1. /\ sinceProbe[r] = ProbePeriod /\ sinceProbe'[r] = 0
        /\ fails'[r] = IF Healthy(r) THEN 0 ELSE fails[r] + 1
        /\ UNCHANGED <<phase, leading, age, spent, timer, pending>>
    BY <1>9, SMT DEF Probe, TypeOK, loop
  <2>2. fails[r] # FailureThreshold
    BY <2>1, LoopAssumption, SMT DEF Beat
  <2>3. ASSUME leading[r]
        PROVE  age[r] <= StaleAfter + fails'[r] * ProbePeriod
    <3>1. CASE Healthy(r)
      BY <3>1, <2>1, <2>3, <1>1, LoopAssumption, SMT DEF Healthy
    <3>2. CASE ~Healthy(r)
      <4>1. fails'[r] * ProbePeriod = fails[r] * ProbePeriod + ProbePeriod
        BY <3>2, <2>1, <1>1, LoopAssumption, SMT
      <4>2. age[r] <= StaleAfter + fails[r] * ProbePeriod + ProbePeriod
        BY <2>1, <2>3 DEF Beat
      <4>. QED
        BY ONLY <4>1, <4>2, <1>1, LoopAssumption, SMT
    <3>. QED
      BY <3>1, <3>2
  <2>4. fails'[r] \in Nat /\ fails'[r] <= FailureThreshold
    <3>1. fails[r] <= FailureThreshold /\ FailureThreshold \in Nat \ {0}
      BY LoopAssumption, Zenon DEF Beat
    <3>2. fails'[r] = 0 \/ fails'[r] = fails[r] + 1
      BY <2>1
    <3>. QED
      BY ONLY <3>1, <3>2, <2>2, <1>1, SMT
  <2>5. leading[r] => age'[r] <= StaleAfter + fails'[r] * ProbePeriod + sinceProbe'[r]
    <3>1. fails'[r] * ProbePeriod \in Nat
      BY <2>4, LoopAssumption, SMT
    <3>. QED
      BY <3>1, <2>1, <2>3, <1>1, SMT
  <2>. QED
    BY <2>1, <2>4, <2>5 DEF Beat
<1>. QED
  BY <1>2, <1>3, <1>4, <1>5, <1>6, <1>7, <1>8, <1>9 DEF StepOf

LEMMA NextBeat == HeartbeatInv /\ [NextLoop]_hvars => HeartbeatInv'
<1> SUFFICES ASSUME HeartbeatInv, [NextLoop]_hvars, NEW r \in Replicas PROVE Beat(r)'
  BY NextType DEF HeartbeatInv
<1>1. TypeOK /\ Beat(r)
  BY DEF HeartbeatInv
<1>2. CASE Tick
  BY <1>1, <1>2, TickBeat
<1>3. ASSUME NEW p \in Replicas, StepOf(p) PROVE Beat(r)'
  <2>1. CASE p = r
    BY <1>1, <1>3, <2>1, OwnBeat
  <2>2. CASE p # r
    BY <1>1, <1>3, <2>2, OneAtATime, SameBeat
  <2>. QED
    BY <2>1, <2>2
<1>4. CASE UNCHANGED <<loop, probes>>
  BY <1>1, <1>4, SameBeat DEF Same, loop, probes
<1>. QED
  BY <1>2, <1>3, <1>4 DEF NextLoop, StepOf, hvars

\* The inductive invariant of the heartbeat.
THEOREM HeartbeatInvariant == SpecLoop => []HeartbeatInv
BY InitBeat, NextBeat, PTL DEF SpecLoop

\* A live loop always passes its probes, for every interval and timeout that
\* leaves a poll two intervals to come to its end.
THEOREM LiveLoopStaysHealthy == SpecLoop => []LiveLoopIsHealthy
<1>1. HeartbeatInv => LiveLoopIsHealthy
  <2> SUFFICES ASSUME HeartbeatInv, NEW r \in Replicas,
                      phase[r] \notin {"down", "wedged"}, leading[r]
               PROVE  age[r] <= StaleAfter
    BY DEF LiveLoopIsHealthy, Healthy
  <2>1. /\ age[r] \in Nat /\ spent[r] \in Nat /\ timer[r] \in 0 .. PollSec - 1
    BY LoopAssumption, SMT DEF HeartbeatInv, TypeOK
  <2>2. Beat(r)
    BY DEF HeartbeatInv
  <2>3. CASE phase[r] = "idle"
    <3>1. age[r] <= Truncation + PollSec
      BY <2>1, <2>2, <2>3, LoopAssumption, SMT DEF Beat
    <3>. QED
      BY <3>1, <2>1, LoopAssumption, SMT DEF StaleAfter
  <2>4. CASE phase[r] = "polling"
    BY <2>1, <2>2, <2>4, LoopAssumption, SMT DEF Beat, StaleAfter
  <2>. QED
    BY <2>2, <2>3, <2>4 DEF Beat
<1>. QED
  BY <1>1, HeartbeatInvariant, PTL

\* A stuck loop is killed by the probe within a bounded time.
THEOREM StallIsNoticedInTime == SpecLoop => []StallIsNoticed
<1>1. HeartbeatInv => StallIsNoticed
  <2> SUFFICES ASSUME HeartbeatInv, NEW r \in Replicas, leading[r]
               PROVE  age[r] <= StaleAfter + FailureThreshold * ProbePeriod
    BY DEF StallIsNoticed
  <2>1. /\ age[r] \in Nat /\ sinceProbe[r] \in 0 .. ProbePeriod /\ fails[r] \in Nat
        /\ StaleAfter \in Nat
    BY LoopAssumption, SMT DEF HeartbeatInv, TypeOK, StaleAfter
  <2>2. /\ age[r] <= StaleAfter + fails[r] * ProbePeriod + sinceProbe[r]
        /\ fails[r] <= FailureThreshold
        /\ fails[r] = FailureThreshold => sinceProbe[r] = 0
    BY DEF HeartbeatInv, Beat
  <2>3. CASE fails[r] = FailureThreshold
    <3>1. FailureThreshold * ProbePeriod \in Nat
      BY LoopAssumption, SMT
    <3>. QED
      BY ONLY <3>1, <2>1, <2>2, <2>3, SMT
  <2>4. CASE fails[r] # FailureThreshold
    <3>0. FailureThreshold \in Nat /\ ProbePeriod \in Nat
      BY LoopAssumption, SMT
    <3>1. \E rest \in Nat : FailureThreshold = fails[r] + 1 + rest
      <4>1. FailureThreshold - fails[r] - 1 \in Nat
        BY ONLY <3>0, <2>1, <2>2, <2>4, SMT
      <4>2. FailureThreshold = fails[r] + 1 + (FailureThreshold - fails[r] - 1)
        BY ONLY <3>0, <2>1, SMT
      <4>. QED
        BY <4>1, <4>2
    <3>2. PICK rest \in Nat : FailureThreshold = fails[r] + 1 + rest
      BY <3>1
    <3>3. /\ FailureThreshold * ProbePeriod
               = fails[r] * ProbePeriod + ProbePeriod + rest * ProbePeriod
          /\ rest * ProbePeriod \in Nat /\ fails[r] * ProbePeriod \in Nat
      BY ONLY <3>0, <3>2, <2>1, SMT
    <3>. QED
      BY ONLY <3>3, <2>1, <2>2, LoopAssumption, SMT
  <2>. QED
    BY <2>3, <2>4
<1>. QED
  BY <1>1, HeartbeatInvariant, PTL

=============================================================================
