----------------------------- MODULE DedupStore -----------------------------
(***************************************************************************)
(* The deduplication store of internal/dedup, as operators on its three    *)
(* tables.  Both backends keep the same tables and differ in three ways:   *)
(*                                                                         *)
(*   "memory"  compares expiry instants with the `now` its caller passes,  *)
(*             an attempt counter still lives AT its expiry instant, and   *)
(*             no call fails;                                              *)
(*   "redis"   ignores that argument, the server's own clock decides, a    *)
(*             key is gone at its expiry instant, and a call may fail.     *)
(*                                                                         *)
(* A call ends "done", "failed" (no effect) or "lost" (it took effect but  *)
(* the reply was lost or came too late).  The caller of a call that is not *)
(* "done" gets the answer that lets it go on: new, not fresh, no attempts, *)
(* first attempt.                                                          *)
(*                                                                         *)
(* The tables are total functions; an absent entry is NotSeen, 0 or        *)
(* NoAttempts.  Time is counted in ticks from 0.                           *)
(***************************************************************************)
EXTENDS Integers

Backends == {"memory", "redis"}
Endings  == {"done", "lost", "failed"}

NotSeen    == -1
NoAttempts == [count |-> 0, expires |-> 0]

AttemptEntry == [count : Nat, expires : Nat]

-----------------------------------------------------------------------------
(* seen: key -> instant it was marked, or NotSeen                          *)

\* Bug form: an error is taken for "already seen".
SaysNewFailingClosed(seen, key, end) == end = "done" /\ seen[key] = NotSeen

\* MarkSeen's answer: the key was not there yet, or Redis could not tell.
SaysNew(seen, key, end) == end = "done" => seen[key] = NotSeen

MarkSeen(seen, key, t, end) ==
    [seen EXCEPT ![key] = IF @ = NotSeen /\ end # "failed" THEN t ELSE @]

SeenExpired(markedAt, t, ttl) == markedAt # NotSeen /\ t - markedAt >= ttl

EvictSeen(seen, t, ttl) ==
    [key \in DOMAIN seen |->
        IF SeenExpired(seen[key], t, ttl) THEN NotSeen ELSE seen[key]]

-----------------------------------------------------------------------------
(* signalExpiry: signal -> end of its window, or 0                         *)

IsSignalFresh(signalExpiry, signal, t) == t < signalExpiry[signal]

\* IsSignalFresh's answer.
SaysFresh(signalExpiry, signal, t, end) ==
    end = "done" /\ IsSignalFresh(signalExpiry, signal, t)

MarkSignal(signalExpiry, signal, t, ttl, end) ==
    [signalExpiry EXCEPT ![signal] = IF end # "failed" THEN t + ttl ELSE @]

EvictSignals(signalExpiry, t) ==
    [s \in DOMAIN signalExpiry |->
        IF IsSignalFresh(signalExpiry, s, t) THEN signalExpiry[s] ELSE 0]

-----------------------------------------------------------------------------
(* attempts: signal -> [count, expires]                                    *)

AttemptsExpired(backend, entry, t) ==
    IF backend = "memory" THEN t > entry.expires ELSE t >= entry.expires

Attempts(backend, attempts, signal, t) ==
    IF AttemptsExpired(backend, attempts[signal], t) THEN 0
                                                     ELSE attempts[signal].count

\* Attempts' answer.
SaysAttempts(backend, attempts, signal, t, end) ==
    IF end = "done" THEN Attempts(backend, attempts, signal, t) ELSE 0

\* Bug form: the window of a running counter does not slide.
IncrAttemptFixedWindow(backend, attempts, signal, t, window, end) ==
    IF end = "failed" THEN attempts
    ELSE [attempts EXCEPT ![signal] =
            [count   |-> Attempts(backend, attempts, signal, t) + 1,
             expires |-> IF Attempts(backend, attempts, signal, t) = 0
                         THEN t + window ELSE @.expires]]

IncrAttempt(backend, attempts, signal, t, window, end) ==
    IF end = "failed" THEN attempts
    ELSE [attempts EXCEPT ![signal] =
            [count   |-> Attempts(backend, attempts, signal, t) + 1,
             expires |-> t + window]]

\* IncrAttempt's answer.
SaysCount(backend, attempts, signal, t, end) ==
    IF end = "done" THEN Attempts(backend, attempts, signal, t) + 1 ELSE 1

EvictAttempts(backend, attempts, t) ==
    [s \in DOMAIN attempts |->
        IF AttemptsExpired(backend, attempts[s], t) THEN NoAttempts
                                                    ELSE attempts[s]]

=============================================================================
