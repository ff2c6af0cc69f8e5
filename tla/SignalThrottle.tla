--------------------------- MODULE SignalThrottle ---------------------------
(***************************************************************************)
(* What the agent promises about one incident signal, with events, polls,  *)
(* caps, deadlines and executions left out: when the model may be asked    *)
(* about it, how long each answer silences it, and how little a fault of   *)
(* the store may cost.  A fault excuses the one step it happens in:  one   *)
(* question too early, one attempt not counted, one window not opened.     *)
(* PollLoop implements this module.                                        *)
(***************************************************************************)
EXTENDS Integers, Sequences

CONSTANTS
    Signals,            \* incident signals (namespace|kind|name|reason)
    NoSignal,           \* "no signal is in hand"
    DedupeTTL,          \* base window
    AttemptWindow,      \* how long a streak survives without an attempt
    SignalMaxAttempts,  \* attempts allowed in one streak, 0 = no limit
    Durable             \* windows and streaks survive a restart

VARIABLES
    time,               \* the clock the windows are measured on
    quietUntil,         \* quietUntil[s]: the signal is silenced before this
    streak,             \* streak[s]: attempts in the current streak
    streakEnds,         \* streakEnds[s]: last instant the streak is remembered
    hand,               \* the signal in hand
    stage,              \* what is known about it
    attempt,            \* the number of the attempt being made
    faults,             \* faults of the store so far
    lives,              \* restarts of the process so far
    left                \* windows and streaks a process without the store left there

throttle == <<quietUntil, streak, streakEnds>>
tvars    == <<time, throttle, hand, stage, attempt, faults, lives, left>>

Stages == {"free",      \* no signal is in hand
           "open",      \* its window is over
           "refused",   \* its attempts are used up
           "asked",     \* the model is being asked
           "counted"}   \* the model has answered, the attempt is counted

\* Doubling windows: 1, 2, 4 and from the fourth attempt on 8 base windows.
Backoff(n) == DedupeTTL * <<1, 2, 4, 8>>[IF n < 4 THEN n ELSE 4]

Nothing == [quietUntil |-> [s \in Signals |-> 0],
            streak     |-> [s \in Signals |-> 0],
            streakEnds |-> [s \in Signals |-> 0]]

InitThrottle ==
    /\ time \in Nat
    /\ quietUntil = Nothing.quietUntil
    /\ streak = Nothing.streak
    /\ streakEnds = Nothing.streakEnds
    /\ hand = NoSignal /\ stage = "free" /\ attempt = 0
    /\ faults \in Nat /\ lives \in Nat
    /\ left = Nothing

Limited == SignalMaxAttempts > 0

Works  == faults' = faults
Faults == faults' = faults + 1

\* A fault that concerns no promise made here.
Falter == Faults /\ UNCHANGED <<time, throttle, hand, stage, attempt, lives, left>>

\* A signal is taken up only when its window is over.
TakeUp(s) ==
    /\ stage = "free"
    /\ (Works /\ time >= quietUntil[s]) \/ Faults
    /\ hand' = s /\ stage' = "open"
    /\ UNCHANGED <<time, throttle, attempt, lives, left>>

\* The model is asked only when the streak has attempts left or is over.
Ask ==
    /\ stage = "open"
    /\ \/ Works /\ (Limited /\ streak[hand] >= SignalMaxAttempts => time >= streakEnds[hand])
       \/ Faults
    /\ stage' = "asked"
    /\ UNCHANGED <<time, throttle, hand, attempt, lives, left>>

\* It is refused only when the attempts are used up.
Refuse ==
    /\ stage = "open" /\ Works
    /\ Limited /\ streak[hand] >= SignalMaxAttempts /\ time <= streakEnds[hand]
    /\ stage' = "refused"
    /\ UNCHANGED <<time, throttle, hand, attempt, lives, left>>

PutDown == hand' = NoSignal /\ stage' = "free" /\ attempt' = 0

Silence(window) ==
    \/ /\ quietUntil' = [quietUntil EXCEPT ![hand] = time + window]
       /\ Works \/ Faults
    \/ UNCHANGED quietUntil /\ Faults

\* A refused signal is parked for longer than any attempt was allowed to
\* silence it, for 8 base windows if three attempts or more are allowed.
Park ==
    /\ stage = "refused" /\ PutDown
    /\ \E n \in {4} \union (SignalMaxAttempts + 1 .. 4) : Silence(Backoff(n))
    /\ UNCHANGED <<time, streak, streakEnds, lives, left>>

\* The streak grows, or a new one starts when the old one may be over; only
\* faults let it grow beyond its limit.
Grow(n) ==
    /\ n \in {1, streak[hand] + 1}
    /\ n # streak[hand] + 1 => time >= streakEnds[hand]
    /\ n <= SignalMaxAttempts + faults
    /\ streak' = [streak EXCEPT ![hand] = n]
    /\ streakEnds' = [streakEnds EXCEPT ![hand] = time + AttemptWindow]

Count ==
    /\ stage = "asked" /\ stage' = "counted"
    /\ \/ ~Limited /\ Works /\ attempt' = 1 /\ UNCHANGED <<streak, streakEnds>>
       \/ Limited /\ Works /\ \E n \in {1, streak[hand] + 1} : attempt' = n /\ Grow(n)
       \/ /\ Limited /\ Faults /\ attempt' = 1
          /\ \/ UNCHANGED <<streak, streakEnds>>
             \/ \E n \in {1, streak[hand] + 1} : Grow(n)
    /\ UNCHANGED <<time, quietUntil, hand, lives, left>>

\* Before an attempt is made its signal is silenced for the window of its number.
Attempt ==
    /\ stage = "counted" /\ PutDown
    /\ Silence(Backoff(attempt))
    /\ UNCHANGED <<time, streak, streakEnds, lives, left>>

\* The answer was filtered out as noise: a base window, no attempt counted.
Discard ==
    /\ stage = "asked" /\ PutDown
    /\ Silence(DedupeTTL)
    /\ UNCHANGED <<time, streak, streakEnds, lives, left>>

\* No answer: the signal is not silenced.
GiveUp ==
    /\ stage = "asked" /\ PutDown /\ Works
    /\ UNCHANGED <<time, throttle, lives, left>>

\* Time takes a window or a streak that is over, and nothing else.
Passed(quiet, n, ends) ==
    \A s \in Signals :
        /\ \/ quietUntil'[s] = quiet[s]
           \/ quietUntil'[s] = 0 /\ time' >= quiet[s]
        /\ \/ streak'[s] = n[s] /\ streakEnds'[s] = ends[s]
           \/ streak'[s] = 0 /\ streakEnds'[s] = 0 /\ time' >= ends[s]

Advance ==
    /\ time' >= time /\ Works
    /\ Passed(quietUntil, streak, streakEnds)
    /\ UNCHANGED <<hand, stage, attempt, lives, left>>

Forget ==
    /\ quietUntil' = Nothing.quietUntil
    /\ streak' = Nothing.streak
    /\ streakEnds' = Nothing.streakEnds

\* The process restarts.  What is durable stays; a process that cannot reach
\* the store does without, and the next one that can finds it as it was left.
Restarts ==
    /\ time' >= time
    /\ lives' = lives + 1
    /\ PutDown
    /\ \/ Durable /\ Works /\ UNCHANGED <<throttle, left>>
       \/ ~Durable /\ Works /\ Forget /\ UNCHANGED left
       \/ /\ Durable /\ Faults /\ Forget
          /\ left' \in {left, [quietUntil |-> quietUntil, streak |-> streak,
                               streakEnds |-> streakEnds]}
       \/ /\ Durable /\ Works
          /\ Passed(left.quietUntil, left.streak, left.streakEnds)
          /\ left' = Nothing

NextThrottle ==
    \/ \E s \in Signals : TakeUp(s)
    \/ Ask \/ Refuse \/ Park
    \/ Count \/ Attempt \/ Discard \/ GiveUp
    \/ Falter
    \/ Advance
    \/ Restarts

SpecThrottle == InitThrottle /\ [][NextThrottle]_tvars

=============================================================================
