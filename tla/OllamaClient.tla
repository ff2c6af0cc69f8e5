--------------------------- MODULE OllamaClient ---------------------------
(***************************************************************************)
(* Decide, the call to the language model: the rate limiter, the attempts, *)
(* the backoff between them, the timeout of each and the deadline of the   *)
(* poll, and the one repetition without the think parameter.  Seconds are  *)
(* counted by clock.  Only the polling loop calls Decide.                  *)
(***************************************************************************)
EXTENDS Integers

CONSTANTS
    OllamaMaxRetries,
    HttpTimeout,        \* OLLAMA_HTTP_TIMEOUT_SECONDS
    CallMargin,         \* llmCallBudget is HttpTimeout + CallMargin
    LookupTime,         \* of the lookups between the check of the budget and
                        \* the call
    PollContextTimeout,
    TokenPeriod,        \* seconds between tokens of the limiter, 1/OLLAMA_RPS
    Backoff,            \* Backoff[n]: seconds before attempt n, 2^n
    Think,              \* whether requests are to carry the think parameter
    MaxClock            \* bound on the clock

Attempts == IF OllamaMaxRetries + 1 < 1 THEN 1 ELSE OllamaMaxRetries + 1

\* MaxRetries may be negative: Decide makes one attempt then.  The margin of
\* 15 seconds is "for the rate limiter and the Kubernetes lookups".
ASSUME OllamaAssumption ==
    /\ OllamaMaxRetries \in Int
    /\ HttpTimeout \in Nat \ {0} /\ PollContextTimeout \in Nat
    /\ {CallMargin, LookupTime, TokenPeriod} \subseteq Nat
    /\ LookupTime + TokenPeriod <= CallMargin
    /\ Backoff \in [1 .. Attempts -> Nat]
    /\ Think \in BOOLEAN /\ MaxClock \in Nat

VARIABLES
    clock,
    pc,             \* "idle", "limiter", "request" or "backoff"
    deadline,       \* of the poll's context
    token,          \* when the limiter has its next token
    attempt,        \* of Decide's loop
    until,          \* when the request times out or the backoff ends
    thinkUnsupported,
    sent,           \* history: requests sent since Decide was called
    lastError,      \* of the last attempt
    result          \* history: what the last Decide returned

ovars == <<clock, pc, deadline, token, attempt, until, thinkUnsupported, sent,
           lastError, result>>

\* 500s, refused connections, DNS failures and I/O timeouts are retried; the
\* errors of http.Client.Timeout and of the context match no retryable text.
Retryable == {"unavailable"}
Errors == {"unavailable", "rejected", "unusable", "no_thinking", "client_timeout", "deadline"}

Init ==
    /\ clock = 0 /\ pc = "idle" /\ deadline = 0 /\ token = 0
    /\ attempt = 0 /\ until = 0
    /\ thinkUnsupported = FALSE
    /\ sent = 0 /\ lastError = "none" /\ result = "none"

-----------------------------------------------------------------------------

\* The loop calls Decide with what is left of its poll.
Call(headroom) ==
    /\ pc = "idle"
    /\ pc' = "limiter"
    /\ deadline' = clock + headroom
    /\ sent' = 0 /\ lastError' = "none" /\ result' = "none"
    /\ UNCHANGED <<clock, token, attempt, until, thinkUnsupported>>

\* Bug form: any time left is enough for a call.
DecideWithoutBudget ==
    \E headroom \in CallMargin .. PollContextTimeout, spent \in 0 .. LookupTime :
        Call(headroom - spent)

Decide ==
    \E headroom \in HttpTimeout + CallMargin .. PollContextTimeout,
       spent \in 0 .. LookupTime :
        Call(headroom - spent)

Return(outcome) ==
    /\ pc' = "idle"
    /\ result' = outcome

\* Wait fails at once if the token would come after the deadline.
LimiterRefuses ==
    /\ pc = "limiter" /\ (clock >= deadline \/ token > deadline)
    /\ Return("deadline")
    /\ UNCHANGED <<clock, deadline, token, attempt, until, thinkUnsupported, sent, lastError>>

Send(n) ==
    /\ pc' = "request"
    /\ attempt' = n
    /\ sent' = sent + 1
    /\ until' = IF clock + HttpTimeout < deadline THEN clock + HttpTimeout ELSE deadline

LimiterAdmits ==
    /\ pc = "limiter" /\ clock < deadline /\ token <= clock
    /\ token' = clock + TokenPeriod
    /\ Send(0)
    /\ UNCHANGED <<clock, deadline, thinkUnsupported, lastError, result>>

Answer ==
    /\ pc = "request"
    /\ Return("decision")
    /\ UNCHANGED <<clock, deadline, token, attempt, until, thinkUnsupported, sent, lastError>>

\* How a request fails: at any time, or because its time is up.
Fails(error) ==
    /\ pc = "request"
    /\ error = "client_timeout" => clock >= until /\ until < deadline
    /\ error = "deadline" => clock >= deadline
    /\ error = "no_thinking" => Think /\ ~thinkUnsupported
    /\ lastError' = error

\* Bug form: the call is repeated but nothing is latched.
RetryUnlatched ==
    /\ Fails("no_thinking")
    /\ pc' = "limiter"
    /\ UNCHANGED <<clock, deadline, token, attempt, until, thinkUnsupported, sent, result>>

RetryWithoutThink ==
    /\ Fails("no_thinking")
    /\ thinkUnsupported' = TRUE
    /\ pc' = "limiter"
    /\ UNCHANGED <<clock, deadline, token, attempt, until, sent, result>>

\* Bug form: one attempt more than configured.
BackOffOnceMore ==
    /\ \E error \in Retryable : Fails(error)
    /\ IF attempt < Attempts
       THEN /\ pc' = "backoff" /\ until' = clock + Backoff[attempt + 1]
            /\ UNCHANGED result
       ELSE Return("exhausted") /\ UNCHANGED until
    /\ UNCHANGED <<clock, deadline, token, attempt, thinkUnsupported, sent>>

BackOff ==
    /\ \E error \in Retryable : Fails(error)
    /\ IF attempt + 1 < Attempts
       THEN /\ pc' = "backoff" /\ until' = clock + Backoff[attempt + 1]
            /\ UNCHANGED result
       ELSE Return("exhausted") /\ UNCHANGED until
    /\ UNCHANGED <<clock, deadline, token, attempt, thinkUnsupported, sent>>

GiveUp(errors) ==
    /\ \E error \in errors : Fails(error) /\ Return(error)
    /\ UNCHANGED <<clock, deadline, token, attempt, until, thinkUnsupported, sent>>

Reject  == GiveUp({"rejected", "unusable"})
TimeOut == GiveUp({"client_timeout", "deadline"})

Retry ==
    /\ pc = "backoff" /\ clock >= until
    /\ Send(attempt + 1)
    /\ UNCHANGED <<clock, deadline, token, thinkUnsupported, lastError, result>>

\* Bug form: the backoff is slept through.
BackoffUninterrupted ==
    /\ pc = "backoff" /\ clock >= deadline /\ clock >= until
    /\ Return("deadline")
    /\ UNCHANGED <<clock, deadline, token, attempt, until, thinkUnsupported, sent, lastError>>

BackoffInterrupted ==
    /\ pc = "backoff" /\ clock >= deadline
    /\ Return("deadline")
    /\ UNCHANGED <<clock, deadline, token, attempt, until, thinkUnsupported, sent, lastError>>

\* Requests and waits do not outlive their time.
Tick ==
    /\ clock < MaxClock
    /\ CASE pc = "idle"    -> TRUE
         [] pc = "limiter" -> clock < token /\ token <= deadline
         [] pc = "request" -> clock < until
         [] pc = "backoff" -> clock < until /\ clock < deadline
    /\ clock' = clock + 1
    /\ UNCHANGED <<pc, deadline, token, attempt, until, thinkUnsupported, sent,
                   lastError, result>>

Timers ==
    \/ LimiterRefuses \/ LimiterAdmits
    \/ TimeOut
    \/ Retry \/ BackoffInterrupted

Next ==
    \/ Tick \/ Timers
    \/ Decide
    \/ Answer \/ Reject \/ BackOff \/ RetryWithoutThink

Spec == Init /\ [][Next]_ovars

\* Time passes and timers fire; the server need not answer.
FairSpec == Spec /\ WF_ovars(Tick) /\ WF_ovars(Timers)

-----------------------------------------------------------------------------
(* Properties                                                              *)

TypeOK ==
    /\ clock \in Nat /\ deadline \in Nat /\ token \in Nat /\ until \in Nat
    /\ pc \in {"idle", "limiter", "request", "backoff"}
    /\ attempt \in 0 .. Attempts - 1
    /\ thinkUnsupported \in BOOLEAN
    /\ sent \in Nat
    /\ lastError \in Errors \union {"none"}
    /\ result \in Errors \union {"none", "decision", "exhausted"}

\* "The latch makes the recursion depth at most one": no call sends more than
\* twice the attempts of one loop.
AttemptsBounded == sent <= 2 * Attempts

\* The budget of the loop is enough: the first request of a call has the whole
\* of its own timeout before the poll's deadline, whatever the lookups and the
\* limiter took.
FirstRequestHasItsTime ==
    [][sent = 0 /\ sent' = 1 => clock + HttpTimeout <= deadline]_ovars

\* Every call comes to an end, also if the server never answers.
DecideReturns == pc # "idle" ~> pc = "idle" \/ clock = MaxClock

=============================================================================
