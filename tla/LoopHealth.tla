----------------------------- MODULE LoopHealth -----------------------------
(***************************************************************************)
(* A replica of the agent as its supervisor sees it: the election, the     *)
(* sync of the event cache, the polling loop with its ticker and its       *)
(* deadline, the heartbeat behind /healthz (loopHealth), the liveness      *)
(* probe of deploy/agent.yaml, and the notifier the loop hands its         *)
(* decisions to.  What a poll does is PollLoop's subject; here a poll ends *)
(* in time, or never.                                                      *)
(*                                                                         *)
(* Time passes in Tick only, in units of a few seconds, for all clocks at  *)
(* once; the goroutines are taken to be scheduled within a unit.           *)
(***************************************************************************)
EXTENDS Notifier

CONSTANTS
    PollSec, PollContextTimeout,    \* of the configuration
    SyncTimeout,            \* 30s of newWarningEventSource
    Overrun,                \* what a poll needs once its context has ended
    Truncation,             \* the heartbeat is kept in whole seconds
    ProbePeriod, FailureThreshold,  \* livenessProbe
    Nobody,
    MaxFaults               \* loops that get stuck and processes that end

ASSUME LoopAssumption ==
    /\ {PollSec, PollContextTimeout, ProbePeriod, FailureThreshold}
          \subseteq Nat \ {0}
    /\ {SyncTimeout, Overrun, Truncation, MaxFaults} \subseteq Nat
    /\ Overrun + Truncation <= 2 * PollSec
    /\ Nobody \notin Replicas

VARIABLES
    lease,          \* holder of the lease
    phase,          \* phase[r]: see Phases
    leading, age,   \* the heartbeat: flag, and time since the stamp
    spent,          \* time spent in the sync or the poll at hand
    timer, pending, \* the ticker: time since it fired, a tick in its channel
    sinceProbe, fails,  \* the kubelet
    faults

loop   == <<phase, leading, age, spent, timer, pending>>
probes == <<sinceProbe, fails>>
hvars  == <<lease, loop, probes, faults, notifier>>

Phases == {"down", "follower", "syncing", "idle", "polling", "wedged"}

\* Bug form: no allowance for the idle interval.
StaleAfterPoll == PollContextTimeout

\* The threshold tolerates one full poll and a few idle intervals.
StaleAfter == PollContextTimeout + 3 * PollSec

\* The stopwatch of a heartbeat stops here; StallIsNoticed says it never does.
MaxAge == StaleAfter + FailureThreshold * ProbePeriod + 1

InitLoop ==
    /\ lease = Nobody
    /\ phase = [r \in Replicas |-> "down"]
    /\ leading = [r \in Replicas |-> FALSE]
    /\ age = [r \in Replicas |-> 0]
    /\ spent = [r \in Replicas |-> 0]
    /\ timer = [r \in Replicas |-> 0]
    /\ pending = [r \in Replicas |-> FALSE]
    /\ sinceProbe = [r \in Replicas |-> 0]
    /\ fails = [r \in Replicas |-> 0]
    /\ faults = 0
    /\ InitNotifier

-----------------------------------------------------------------------------
(* The heartbeat                                                           *)

\* A stamp looks older than it is by what is cut off.
Stamp(r) == \E lost \in 0 .. Truncation : age' = [age EXCEPT ![r] = lost]

\* Bug form: every replica with a server up reports healthy.
AnyHealthy(r) == phase[r] # "down"

Healthy(r) == leading[r] => age[r] <= StaleAfter

-----------------------------------------------------------------------------
(* The loop                                                                *)

Boot(r) ==
    /\ phase[r] = "down"
    /\ phase' = [phase EXCEPT ![r] = "follower"]
    /\ UNCHANGED <<lease, leading, age, spent, timer, pending, probes, faults, notifier>>

\* OnStartedLeading: the event source comes first, and leads nothing yet.
Elected(r) ==
    /\ phase[r] = "follower" /\ lease = Nobody
    /\ lease' = r
    /\ phase' = [phase EXCEPT ![r] = "syncing"]
    /\ spent' = [spent EXCEPT ![r] = 0]
    /\ UNCHANGED <<leading, age, timer, pending, probes, faults, notifier>>

\* The cache is synced or given up; the first poll is immediate.
StartLoop(r) ==
    /\ phase[r] = "syncing"
    /\ leading' = [leading EXCEPT ![r] = TRUE] /\ Stamp(r)
    /\ phase' = [phase EXCEPT ![r] = "polling"]
    /\ spent' = [spent EXCEPT ![r] = 0]
    /\ timer' = [timer EXCEPT ![r] = 0] /\ pending' = [pending EXCEPT ![r] = FALSE]
    /\ UNCHANGED <<lease, probes, faults, notifier>>

BeginPoll(r) ==
    /\ phase[r] = "idle" /\ pending[r]
    /\ phase' = [phase EXCEPT ![r] = "polling"]
    /\ spent' = [spent EXCEPT ![r] = 0]
    /\ pending' = [pending EXCEPT ![r] = FALSE]
    /\ UNCHANGED <<lease, leading, age, timer, probes, faults, notifier>>

Notify(r) ==
    /\ phase[r] = "polling"
    /\ NotifyDecision(r)
    /\ UNCHANGED <<lease, loop, probes, faults>>

\* Early returns stamp too (deferred).
EndPoll(r) ==
    /\ phase[r] = "polling"
    /\ Stamp(r)
    /\ phase' = [phase EXCEPT ![r] = "idle"]
    /\ UNCHANGED <<lease, leading, spent, timer, pending, probes, faults, notifier>>

\* A call that heeds no context keeps the loop; the lease goes on being renewed.
Wedge(r) ==
    /\ phase[r] = "polling" /\ faults < MaxFaults
    /\ phase' = [phase EXCEPT ![r] = "wedged"]
    /\ faults' = faults + 1
    /\ UNCHANGED <<lease, leading, age, spent, timer, pending, probes, notifier>>

\* The process is gone with all it knew, and its lease runs out.
Stop(r) ==
    /\ phase' = [phase EXCEPT ![r] = "down"]
    /\ leading' = [leading EXCEPT ![r] = FALSE]
    /\ age' = [age EXCEPT ![r] = 0]
    /\ spent' = [spent EXCEPT ![r] = 0]
    /\ sinceProbe' = [sinceProbe EXCEPT ![r] = 0]
    /\ fails' = [fails EXCEPT ![r] = 0]
    /\ lease' = IF lease = r THEN Nobody ELSE lease
    /\ ForgetSends(r)
    /\ UNCHANGED <<timer, pending>>

\* A crash, or a lease that is lost: RunOrDie returns and main ends, whether
\* the loop is stuck or not.
Exit(r) ==
    /\ phase[r] # "down" /\ faults < MaxFaults
    /\ Stop(r)
    /\ faults' = faults + 1

-----------------------------------------------------------------------------
(* The kubelet                                                             *)

Probe(r) ==
    /\ phase[r] # "down" /\ sinceProbe[r] = ProbePeriod
    /\ sinceProbe' = [sinceProbe EXCEPT ![r] = 0]
    /\ fails' = [fails EXCEPT ![r] = IF Healthy(r) THEN 0 ELSE @ + 1]
    /\ UNCHANGED <<lease, loop, faults, notifier>>

Kill(r) ==
    /\ fails[r] = FailureThreshold
    /\ Stop(r)
    /\ UNCHANGED faults

-----------------------------------------------------------------------------
(* Time                                                                    *)

MayWait(r) ==
    /\ phase[r] = "syncing" => spent[r] < SyncTimeout
    /\ phase[r] = "polling" => spent[r] < PollContextTimeout + Overrun
    /\ phase[r] = "idle" => ~pending[r]
    /\ phase[r] # "down" => sinceProbe[r] < ProbePeriod
    /\ fails[r] < FailureThreshold
    /\ SendsMayWait(r)

Fires(r) == leading[r] /\ timer[r] + 1 = PollSec

Tick ==
    /\ \A r \in Replicas : MayWait(r)
    /\ age' = [r \in Replicas |->
                  IF leading[r] /\ age[r] < MaxAge THEN age[r] + 1 ELSE age[r]]
    /\ spent' = [r \in Replicas |->
                    IF phase[r] \in {"syncing", "polling"} THEN spent[r] + 1 ELSE spent[r]]
    /\ timer' = [r \in Replicas |->
                    IF ~leading[r] THEN timer[r] ELSE IF Fires(r) THEN 0 ELSE timer[r] + 1]
    /\ pending' = [r \in Replicas |-> pending[r] \/ Fires(r)]
    /\ sinceProbe' = [r \in Replicas |->
                         IF phase[r] = "down" THEN 0 ELSE sinceProbe[r] + 1]
    /\ SendsAge
    /\ UNCHANGED <<lease, phase, leading, fails, faults, left>>

NextLoop ==
    \/ Tick
    \/ \E r \in Replicas :
          \/ Boot(r) \/ Elected(r) \/ StartLoop(r)
          \/ BeginPoll(r) \/ Notify(r) \/ EndPoll(r)
          \/ Wedge(r) \/ Exit(r) \/ Probe(r) \/ Kill(r)
          \/ SendStep(r) /\ UNCHANGED <<lease, loop, probes, faults>>

\* Time goes on, processes are restarted, goroutines are scheduled, contexts
\* end what waits for them and the kubelet probes.  Nothing is assumed of the
\* SMTP server, nor of a stuck loop.
Fairness ==
    /\ WF_hvars(Tick) /\ WF_hvars(\E r \in Replicas : Elected(r))
    /\ \A r \in Replicas :
          /\ WF_hvars(Boot(r)) /\ WF_hvars(StartLoop(r))
          /\ WF_hvars(BeginPoll(r)) /\ WF_hvars(EndPoll(r))
          /\ WF_hvars(Probe(r)) /\ WF_hvars(Kill(r))
          /\ \A s \in Slots :
                WF_hvars(SendTimesOut(r, s) /\ UNCHANGED <<lease, loop, probes, faults>>)

SpecLoop == InitLoop /\ [][NextLoop]_hvars /\ Fairness

-----------------------------------------------------------------------------
(* Properties                                                              *)

\* Phases, counters and the heartbeat keep to their sets.
TypeOK ==
    /\ lease \in Replicas \union {Nobody}
    /\ phase \in [Replicas -> Phases]
    /\ leading \in [Replicas -> BOOLEAN] /\ pending \in [Replicas -> BOOLEAN]
    /\ age \in [Replicas -> Nat]
    /\ spent \in [Replicas -> Nat]
    /\ timer \in [Replicas -> 0 .. PollSec - 1]
    /\ sinceProbe \in [Replicas -> 0 .. ProbePeriod]
    /\ fails \in [Replicas -> Nat]
    /\ faults \in Nat
    /\ TypeOKNotifier

\* "The threshold tolerates one full poll running to its context timeout": as
\* long as the loop is not stuck, /healthz never fails, neither in a poll that
\* runs into its deadline, between polls, nor while a leader starts.
LiveLoopIsHealthy ==
    \A r \in Replicas : phase[r] \notin {"down", "wedged"} => Healthy(r)

\* A loop that completes no poll is not left standing: its process is gone
\* after the threshold and as many probes as the kubelet wants to see fail.
StallIsNoticed ==
    \A r \in Replicas :
       leading[r] => age[r] <= StaleAfter + FailureThreshold * ProbePeriod

\* A stuck leader keeps renewing its lease; the probe is what makes some
\* replica poll again.
PollingResumes ==
    \A r \in Replicas :
       phase[r] = "wedged" ~> \E q \in Replicas : phase[q] = "polling"

\* A server that never answers takes no slot for good.
SlotsComeBack ==
    \A r \in Replicas : \A s \in Slots : slot[r][s] # Free ~> slot[r][s] = Free

=============================================================================
