------------------------- MODULE OllamaClient_proofs -------------------------
(***************************************************************************)
(* Proofs about OllamaClient, for any number of retries, any timeouts and  *)
(* any rate.                                                               *)
(***************************************************************************)
EXTENDS OllamaClient, TLAPS

\* How many requests a call may have sent by now: those of the loop it is in
\* and, if the think parameter was given up, those of the loop before.
Spent == IF thinkUnsupported THEN Attempts ELSE 0

\* A call that waits for a token has sent nothing in this loop, one that backs
\* off has an attempt left, and only a call that has come out has sent more than
\* its loops so far allow.
Counted ==
    /\ pc = "limiter" => sent <= Spent
    /\ pc \in {"request", "backoff"} => 1 <= sent /\ sent <= Spent + attempt + 1
    /\ pc = "backoff" => attempt + 1 < Attempts
    /\ AttemptsBounded

\* While the first token has not come there is time for a whole request, now and
\* when the token comes.
TimeIsLeft ==
    /\ token <= clock + TokenPeriod
    /\ pc = "limiter" /\ sent = 0 =>
          /\ clock + HttpTimeout <= deadline
          /\ token > clock => token + HttpTimeout <= deadline

CallInv == TypeOK /\ Counted /\ TimeIsLeft

-----------------------------------------------------------------------------
(* The inductive invariant                                                 *)

LEMMA AttemptsIsPositive == Attempts \in Nat \ {0}
BY OllamaAssumption, SMT DEF Attempts

LEMMA InitCall == Init => CallInv
<1> SUFFICES ASSUME Init PROVE CallInv
  OBVIOUS
<1>1. TypeOK
  <2>1. 0 \in 0 .. Attempts - 1
    BY AttemptsIsPositive, SMT
  <2>. QED
    BY <2>1 DEF Init, TypeOK
<1>2. Counted
  BY AttemptsIsPositive, SMT DEF Init, Counted, AttemptsBounded
<1>3. TimeIsLeft
  BY OllamaAssumption, SMT DEF Init, TimeIsLeft
<1>. QED
  BY <1>1, <1>2, <1>3 DEF CallInv

\* The budget of the loop covers the lookups, the wait for a token and a whole
\* request.
LEMMA DecideStep == ASSUME CallInv, Decide PROVE CallInv'
<1>1. PICK headroom \in HttpTimeout + CallMargin .. PollContextTimeout,
           spent \in 0 .. LookupTime :
        Call(headroom - spent)
  BY DEF Decide
<1>2. /\ headroom - spent \in Nat
      /\ headroom - spent >= HttpTimeout + TokenPeriod
  BY OllamaAssumption, SMT
<1>3. TypeOK'
  BY <1>1, <1>2, SMT DEF CallInv, TypeOK, Call
<1>4. Counted'
  BY <1>1, AttemptsIsPositive, SMT DEF CallInv, Counted, AttemptsBounded, Spent, Call
<1>5. TimeIsLeft'
  BY <1>1, <1>2, OllamaAssumption, SMT DEF CallInv, TypeOK, TimeIsLeft, Call
<1>. QED
  BY <1>3, <1>4, <1>5 DEF CallInv

LEMMA LimiterStep == ASSUME CallInv, LimiterRefuses \/ LimiterAdmits PROVE CallInv'
<1>1. CASE LimiterRefuses
  BY <1>1, SMT DEF LimiterRefuses, Return, CallInv, TypeOK, Counted, AttemptsBounded,
                   Spent, TimeIsLeft, Errors
<1>2. CASE LimiterAdmits
  <2>1. TypeOK'
    BY <1>2, AttemptsIsPositive, OllamaAssumption, SMT
       DEF LimiterAdmits, Send, CallInv, TypeOK
  <2>2. Counted'
    BY <1>2, AttemptsIsPositive, SMT
       DEF LimiterAdmits, Send, CallInv, TypeOK, Counted, AttemptsBounded, Spent
  <2>3. TimeIsLeft'
    BY <1>2, OllamaAssumption, SMT DEF LimiterAdmits, Send, CallInv, TypeOK, TimeIsLeft
  <2>. QED
    BY <2>1, <2>2, <2>3 DEF CallInv
<1>. QED
  BY <1>1, <1>2

\* A call that comes out, by an answer or an error.
LEMMA OutcomeStep ==
  ASSUME CallInv, Answer \/ Reject \/ TimeOut \/ BackoffInterrupted
  PROVE  CallInv'
<1>1. /\ pc' = "idle"
      /\ result' \in Errors \union {"decision"}
      /\ lastError' = lastError \/ lastError' \in Errors
      /\ UNCHANGED <<clock, deadline, token, attempt, until, thinkUnsupported, sent>>
  BY DEF Answer, Reject, TimeOut, BackoffInterrupted, GiveUp, Fails, Return, Errors
<1>2. TypeOK'
  BY <1>1 DEF CallInv, TypeOK
<1>3. Counted' /\ TimeIsLeft'
  BY <1>1 DEF CallInv, Counted, AttemptsBounded, Spent, TimeIsLeft
<1>. QED
  BY <1>2, <1>3 DEF CallInv

\* The latch is set once: what the first loop has sent is at most one loop.
LEMMA LatchStep == ASSUME CallInv, RetryWithoutThink PROVE CallInv'
<1>1. /\ pc = "request" /\ pc' = "limiter"
      /\ ~thinkUnsupported /\ thinkUnsupported'
      /\ lastError' \in Errors
      /\ UNCHANGED <<clock, deadline, token, attempt, until, sent, result>>
  BY DEF RetryWithoutThink, Fails, Errors
<1>2. TypeOK'
  BY <1>1 DEF CallInv, TypeOK, RetryWithoutThink
<1>3. 1 <= sent /\ sent <= attempt + 1 /\ sent \in Nat /\ attempt \in 0 .. Attempts - 1
  BY <1>1, SMT DEF CallInv, TypeOK, Counted, Spent
<1>4. Counted'
  BY <1>1, <1>3, AttemptsIsPositive, SMT DEF CallInv, Counted, AttemptsBounded, Spent
<1>5. TimeIsLeft'
  BY <1>1, <1>3, SMT DEF CallInv, TimeIsLeft
<1>. QED
  BY <1>2, <1>4, <1>5 DEF CallInv

LEMMA BackOffStep == ASSUME CallInv, BackOff PROVE CallInv'
<1>1. /\ pc = "request" /\ lastError' \in Errors
      /\ \/ /\ attempt + 1 < Attempts /\ pc' = "backoff"
            /\ until' = clock + Backoff[attempt + 1] /\ result' = result
         \/ pc' = "idle" /\ result' = "exhausted" /\ until' = until
      /\ UNCHANGED <<clock, deadline, token, attempt, thinkUnsupported, sent>>
  BY DEF BackOff, Fails, Return, Retryable, Errors
<1>2. attempt + 1 < Attempts => clock + Backoff[attempt + 1] \in Nat
  BY OllamaAssumption, AttemptsIsPositive, SMT DEF CallInv, TypeOK
<1>3. TypeOK'
  BY <1>1, <1>2 DEF CallInv, TypeOK
<1>4. Counted'
  BY <1>1, SMT DEF CallInv, Counted, AttemptsBounded, Spent
<1>5. TimeIsLeft'
  BY <1>1, SMT DEF CallInv, TimeIsLeft
<1>. QED
  BY <1>3, <1>4, <1>5 DEF CallInv

LEMMA RetryStep == ASSUME CallInv, Retry PROVE CallInv'
<1>1. TypeOK'
  BY OllamaAssumption, AttemptsIsPositive, SMT DEF Retry, Send, CallInv, TypeOK, Counted
<1>2. Counted'
  BY AttemptsIsPositive, SMT
     DEF Retry, Send, CallInv, TypeOK, Counted, AttemptsBounded, Spent
<1>3. TimeIsLeft'
  BY SMT DEF Retry, Send, CallInv, TimeIsLeft
<1>. QED
  BY <1>1, <1>2, <1>3 DEF CallInv

\* Time passes in the limiter only up to the token.
LEMMA TickStep == ASSUME CallInv, Tick PROVE CallInv'
<1>1. /\ clock' = clock + 1 /\ clock \in Nat
      /\ pc = "limiter" => clock < token
      /\ UNCHANGED <<pc, deadline, token, attempt, until, thinkUnsupported, sent,
                     lastError, result>>
  <2>1. pc = "limiter" => clock < token
    <3> DEFINE limiter == clock < token /\ token <= deadline
               request == clock < until
               backoff == clock < until /\ clock < deadline
    <3>1. (CASE pc = "idle" -> TRUE
             [] pc = "limiter" -> limiter
             [] pc = "request" -> request
             [] pc = "backoff" -> backoff)
      BY DEF Tick
    <3>2. pc = "limiter" => limiter
      <4> HIDE DEF limiter, request, backoff
      <4>. QED
        BY <3>1
    <3>. QED
      BY <3>2
  <2>. QED
    BY <2>1 DEF Tick, CallInv, TypeOK
<1>2. TypeOK'
  BY <1>1, SMT DEF CallInv, TypeOK
<1>3. Counted'
  BY <1>1 DEF CallInv, Counted, AttemptsBounded, Spent
<1>4. TimeIsLeft'
  BY <1>1, OllamaAssumption, SMT DEF CallInv, TypeOK, TimeIsLeft
<1>. QED
  BY <1>2, <1>3, <1>4 DEF CallInv

LEMMA NextCall == CallInv /\ [Next]_ovars => CallInv'
<1> SUFFICES ASSUME CallInv, [Next]_ovars PROVE CallInv'
  OBVIOUS
<1>1. CASE Tick
  BY <1>1, TickStep
<1>2. CASE Timers
  BY <1>2, LimiterStep, OutcomeStep, RetryStep DEF Timers
<1>3. CASE Decide
  BY <1>3, DecideStep
<1>4. CASE Answer \/ Reject \/ BackOff \/ RetryWithoutThink
  BY <1>4, OutcomeStep, BackOffStep, LatchStep
<1>5. CASE UNCHANGED ovars
  BY <1>5 DEF ovars, CallInv, TypeOK, Counted, AttemptsBounded, Spent, TimeIsLeft
<1>. QED
  BY <1>1, <1>2, <1>3, <1>4, <1>5 DEF Next

-----------------------------------------------------------------------------
(* The theorems                                                            *)

\* The inductive invariant: types, requests counted loop by loop, and the time
\* left for the first of them.
THEOREM CallInvariant == Spec => []CallInv
BY InitCall, NextCall, PTL DEF Spec

\* The variables keep to their sets; no attempt is beyond the last.
THEOREM TypeCorrect == Spec => []TypeOK
<1>1. CallInv => TypeOK
  BY DEF CallInv
<1>. QED
  BY CallInvariant, <1>1, PTL

\* One call of Decide sends at most twice as many requests as one loop has
\* attempts, since thinkUnsupported is latched before the call is repeated.
THEOREM CallsAreBounded == Spec => []AttemptsBounded
<1>1. CallInv => AttemptsBounded
  BY DEF CallInv, Counted
<1>. QED
  BY CallInvariant, <1>1, PTL

\* The first request of a call is sent while the deadline of the poll leaves it
\* its whole timeout (llmCallBudget of runLoopWithStore).
THEOREM BudgetIsEnough == Spec => FirstRequestHasItsTime
<1> DEFINE HasItsTime == sent = 0 /\ sent' = 1 => clock + HttpTimeout <= deadline
<1>1. ASSUME CallInv, Next PROVE HasItsTime
  <2>1. CASE LimiterAdmits
    BY <1>1, <2>1 DEF LimiterAdmits, CallInv, TimeIsLeft
  <2>2. CASE Retry
    BY <1>1, <2>2, SMT DEF Retry, CallInv, Counted
  <2>3. CASE Decide
    BY <2>3 DEF Decide, Call
  <2>4. CASE ~LimiterAdmits /\ ~Retry /\ ~Decide
    <3>1. sent' = sent
      BY <1>1, <2>4 DEF Next, Timers, Tick, LimiterRefuses, TimeOut, Reject, GiveUp,
                        BackoffInterrupted, Answer, BackOff, RetryWithoutThink
    <3>. QED
      BY <3>1
  <2>. QED
    BY <2>1, <2>2, <2>3, <2>4
<1>2. CallInv /\ [Next]_ovars => [HasItsTime]_ovars
  BY <1>1
<1>. QED
  BY <1>2, CallInvariant, PTL DEF Spec, FirstRequestHasItsTime

=============================================================================
