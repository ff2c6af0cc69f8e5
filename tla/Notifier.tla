------------------------------ MODULE Notifier ------------------------------
(***************************************************************************)
(* The SMTP notifier of internal/notify: a decision is handed to a         *)
(* dispatcher that holds one of a fixed number of slots, and dropped when  *)
(* there is none.  The dispatcher waits for the goroutine that talks to    *)
(* the server, but no longer than its own timeout; that goroutine has no   *)
(* timeout and is left behind.                                             *)
(*                                                                         *)
(* Time passes in the module that composes this one with the poll loop.    *)
(***************************************************************************)
EXTENDS Integers, FiniteSets

CONSTANTS
    Replicas,
    Slots,              \* maxConcurrentSends of them
    SendTimeout,        \* 30s
    Severities, NotifyMinSeverity,  \* 1 is low; NOTIFY_MIN_SEVERITY
    MaxLeft             \* where the count of goroutines left behind stops

ASSUME NotifierAssumption ==
    /\ SendTimeout \in Nat \ {0} /\ MaxLeft \in Nat
    /\ Severities \subseteq Nat /\ NotifyMinSeverity \in Nat

Free == -1

VARIABLES
    slot,       \* slot[r][s]: how long s has been held, or Free
    left        \* left[r]: SMTP goroutines whose dispatcher has given up

notifier == <<slot, left>>

InitNotifier ==
    /\ slot = [r \in Replicas |-> [s \in Slots |-> Free]]
    /\ left = [r \in Replicas |-> 0]

Held(r) == {s \in Slots : slot[r][s] # Free}

\* What a process that ends takes with it.
ForgetSends(r) ==
    /\ slot' = [slot EXCEPT ![r] = [s \in Slots |-> Free]]
    /\ left' = [left EXCEPT ![r] = 0]

\* The select never waits: without a free slot the notification is dropped.
NotifyDecision(r) ==
    \E severity \in Severities :
       /\ IF severity < NotifyMinSeverity \/ Held(r) = Slots
          THEN UNCHANGED slot
          ELSE \E s \in Slots \ Held(r) : slot' = [slot EXCEPT ![r][s] = 0]
       /\ UNCHANGED left

\* The server accepts or rejects the message, and the connection ends.
SendReturns(r, s) ==
    /\ slot[r][s] # Free
    /\ slot' = [slot EXCEPT ![r][s] = Free]
    /\ UNCHANGED left

\* Bug form: the dispatcher waits for its sender whatever happens.
WaitForSender(r, s) ==
    /\ slot[r][s] = SendTimeout
    /\ UNCHANGED notifier

\* dispatch returns on its context; its sender goes on.
SendTimesOut(r, s) ==
    /\ slot[r][s] = SendTimeout
    /\ slot' = [slot EXCEPT ![r][s] = Free]
    /\ left' = [left EXCEPT ![r] = IF @ < MaxLeft THEN @ + 1 ELSE @]

\* A server that never answers keeps it for good.
LeftReturns(r) ==
    /\ left[r] > 0
    /\ left' = [left EXCEPT ![r] = @ - 1]
    /\ UNCHANGED slot

SendStep(r) == LeftReturns(r) \/ \E s \in Slots : SendReturns(r, s) \/ SendTimesOut(r, s)

\* One unit of time for the dispatchers, none of which overstays.
SendsMayWait(r) == \A s \in Slots : slot[r][s] < SendTimeout

SendsAge ==
    slot' = [r \in Replicas |-> [s \in Slots |->
                IF slot[r][s] = Free THEN Free ELSE slot[r][s] + 1]]

TypeOKNotifier ==
    /\ slot \in [Replicas -> [Slots -> {Free} \union 0 .. SendTimeout]]
    /\ left \in [Replicas -> 0 .. MaxLeft]

=============================================================================
