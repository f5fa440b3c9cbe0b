---------------------------- MODULE PipelineProofs ----------------------------
(***************************************************************************)
(* Safety of a retry composed with a circuit breaker, in either order, for *)
(* any number of calls, limits, time outs and delays.                      *)
(***************************************************************************)
EXTENDS Pipeline, FiniteSetTheorems, TLAPS

-----------------------------------------------------------------------------
(* The loop of the retry                                                   *)

\* The counter after so many increments of an int that starts from 0.
Wrapped(n) == IF n <= IntMax THEN n ELSE n - 2 * IntMax - 2

\* The failures after which an array of time outs cannot be read.
Readable == IF dispatcher.provider # "array" THEN Retries
            ELSE IF dispatcher.length = 0 THEN 0 ELSE IntMax + 1

\* The counter and the number of attempts go together.
CountInv ==
  \A c \in Calls :
    /\ attempts[c] <= Retries + 1
    /\ pc[c] \in {"ready", "waiting"} =>
         attempts[c] <= Retries /\ attempts[c] <= Readable /\ count[c] = Wrapped(attempts[c])
    /\ pc[c] = "running" =>
         0 < attempts[c] /\ attempts[c] <= Readable + 1 /\ count[c] = Wrapped(attempts[c] - 1)
    /\ pc[c] = "exhausted" => attempts[c] = Retries + 1
    /\ pc[c] = "waiting" =>
         0 < attempts[c] /\ dispatcher.provider # "none" /\ wait[c] = TimeOut(attempts[c] - 1)
    /\ pc[c] = "outOfRange" => dispatcher.provider = "array" /\ attempts[c] = Readable + 1

RetryInv == TypeOK /\ CountInv

\* A call that a breaker before the loop does not let in.
Refused(c) ==
  /\ Goes(c, "ready", "refused")
  /\ UNCHANGED <<dispatcher, count, token, wait, attempts>>

LEMMA Limits ==
  ASSUME dispatcher \in Dispatchers
  PROVE  /\ IntMax \in Nat
         /\ MaxRetry \in -IntMax - 1 .. IntMax /\ MaxRetry = dispatcher.maxRetry
         /\ dispatcher.provider \in Providers
         /\ dispatcher.length \in Nat
         /\ Retries \in 0 .. 2 * IntMax + 1 /\ MaxRetry = Wrapped(Retries)
         /\ Readable \in Nat
  BY RetryAssumption DEF MaxRetry, Retries, Wrapped, Readable, Providers

\* The array can be read at a counter exactly until Readable.
LEMMA Reads ==
  ASSUME dispatcher \in Dispatchers, NEW n \in 0 .. Retries, n <= Readable
  PROVE  /\ InRange(Wrapped(n)) => (dispatcher.provider = "array" => n < Readable)
         /\ InRange(Wrapped(n)) => TimeOut(Wrapped(n)) = TimeOut(n)
         /\ ~InRange(Wrapped(n)) => dispatcher.provider = "array" /\ n = Readable
         /\ TimeOut(Wrapped(n)) \in Int
         /\ InRange(Wrapped(n)) => TimeOut(Wrapped(n)) \in {0} \cup -1 .. dispatcher.length - 1
  BY Limits DEF InRange, IndexOf, TimeOut, Wrapped, Readable

LEMMA RetryInit == Init => RetryInv
  BY RetryAssumption, Limits DEF Init, RetryInv, TypeOK, CountInv, Places, Outcomes, Wrapped

LEMMA RetryStep ==
  ASSUME RetryInv, Next \/ UNCHANGED vars \/ \E c \in Calls : Refused(c)
  PROVE  RetryInv'
<1> USE DEF RetryInv, TypeOK, CountInv, Goes, Places, Outcomes
<1>l. /\ IntMax \in Nat
      /\ MaxRetry \in -IntMax - 1 .. IntMax
      /\ dispatcher.provider \in Providers /\ dispatcher.length \in Nat
      /\ Retries \in 0 .. 2 * IntMax + 1 /\ MaxRetry = Wrapped(Retries)
      /\ Readable \in Nat
  BY Limits
<1>u. ASSUME UNCHANGED dispatcher
      PROVE  /\ MaxRetry' = MaxRetry /\ Retries' = Retries /\ Readable' = Readable
             /\ \A k : TimeOut(k)' = TimeOut(k)
  BY <1>u DEF MaxRetry, Retries, Readable, TimeOut, IndexOf
<1>1. ASSUME NEW c \in Calls, Attempt(c) PROVE RetryInv'
  <2>1. UNCHANGED dispatcher
    BY <1>1 DEF Attempt
  <2>2. attempts[c] \in Nat /\ attempts[c] + 1 - 1 = attempts[c]
    OBVIOUS
  <2> QED
    BY <1>1, <1>l, <1>u, <2>1, <2>2 DEF Attempt
<1>2. ASSUME NEW c \in Calls, ThrowCanceled(c) \/ Succeed(c) \/ RethrowFiltered(c) \/ Refused(c)
      PROVE  RetryInv'
  <2>1. UNCHANGED dispatcher
    BY <1>2 DEF ThrowCanceled, Succeed, RethrowFiltered, Refused
  <2> QED
    BY <1>2, <1>l, <1>u, <2>1 DEF ThrowCanceled, Succeed, RethrowFiltered, Refused
<1>3. ASSUME NEW c \in Calls, RethrowLast(c) PROVE RetryInv'
  <2>1. UNCHANGED dispatcher /\ pc[c] = "running" /\ count[c] = MaxRetry
    BY <1>3 DEF RethrowLast
  <2>2. attempts[c] \in Nat /\ attempts[c] <= Retries + 1 /\ Wrapped(attempts[c] - 1) = Wrapped(Retries)
    BY <1>l, <2>1
  <2>3. attempts[c] = Retries + 1
    BY <1>l, <2>1, <2>2 DEF Wrapped
  <2> QED
    BY <1>3, <1>l, <1>u, <2>1, <2>3 DEF RethrowLast
<1>4. ASSUME NEW c \in Calls, Fail(c) \/ ThrowOutOfRange(c) PROVE RetryInv'
  <2> DEFINE n == attempts[c] - 1
  <2>1. UNCHANGED <<dispatcher, token, attempts>> /\ pc[c] = "running" /\ count[c] # MaxRetry
        /\ count' = [count EXCEPT ![c] = Increment(@)]
    BY <1>4 DEF Fail, ThrowOutOfRange
  <2>2. n \in 0 .. Retries /\ n <= Readable /\ count[c] = Wrapped(n)
    BY <1>l, <2>1
  <2>3. n # Retries
    BY <1>l, <2>1, <2>2
  <2>4. Increment(count[c]) = Wrapped(attempts[c]) /\ Increment(count[c]) \in -IntMax - 1 .. IntMax
    BY <1>l, <2>2, <2>3 DEF Increment, Wrapped
  <2>5. /\ InRange(count[c]) => (dispatcher.provider = "array" => n < Readable)
        /\ InRange(count[c]) => TimeOut(count[c]) = TimeOut(n)
        /\ ~InRange(count[c]) => dispatcher.provider = "array" /\ n = Readable
        /\ InRange(count[c]) => TimeOut(count[c]) \in {0} \cup -1 .. dispatcher.length - 1
    BY <2>2, Reads
  <2>6. InRange(count[c]) => attempts[c] <= Readable
    <3>1. CASE dispatcher.provider = "array"
      BY <1>l, <2>2, <2>5, <3>1
    <3>2. CASE dispatcher.provider # "array"
      BY <1>l, <2>2, <2>3, <3>2 DEF Readable
    <3> QED
      BY <3>1, <3>2
  <2>7. CASE Fail(c)
    <3>1. InRange(count[c])
      BY <2>7 DEF Fail
    <3> QED
      BY <2>7, <1>l, <1>u, <2>1, <2>2, <2>3, <2>4, <2>5, <2>6, <3>1 DEF Fail
  <2>8. CASE ThrowOutOfRange(c)
    BY <2>8, <1>l, <1>u, <2>1, <2>2, <2>4, <2>5 DEF ThrowOutOfRange
  <2> QED
    BY <1>4, <2>7, <2>8
<1>5. ASSUME NEW c \in Calls, WaitOver(c) \/ RequestCancel(c) PROVE RetryInv'
  <2>1. UNCHANGED dispatcher
    BY <1>5 DEF WaitOver, RequestCancel
  <2> QED
    BY <1>5, <1>l, <1>u, <2>1 DEF WaitOver, RequestCancel
<1>6. CASE UNCHANGED vars
  BY <1>6, <1>u DEF vars
<1> QED
  BY <1>1, <1>2, <1>3, <1>4, <1>5, <1>6 DEF Next, CallStep

-----------------------------------------------------------------------------
(* The passage of the breaker                                              *)

NoAction == {"refused", "fallback", "skipped"}

PassageType ==
  /\ first \in {"retry", "breaker"}
  /\ entering \subseteq Calls
  /\ running \subseteq Calls
  /\ answer \in [Calls -> [kind : Breaker!Kinds, with : Breaker!Answers]]

\* Before the loop, the breaker holds a call that has passed it until the loop ends.
PassedOnce ==
  \A c \in Calls :
    /\ c \in entering => pc[c] = "ready" /\ attempts[c] = 0 /\ c \notin running
    /\ c \in running => pc[c] \notin Outcomes
    /\ c \notin entering /\ ~Detached(c) /\ pc[c] \notin Outcomes => c \in running

\* After it, every attempt is before the breaker, behind it, or answered by it.
PassedEachTime ==
  \A c \in Calls :
    /\ c \in entering => pc[c] = "running" /\ c \notin running
    /\ c \in running => pc[c] = "running"
    /\ pc[c] = "running" /\ c \notin entering \cup running => answer[c].with \in NoAction

PassageInv ==
  /\ PassageType
  /\ first = "breaker" => PassedOnce
  /\ first = "retry" => PassedEachTime
  /\ OutcomesAreRecorded

\* What Enter does: it lets the call in, or answers it.
LEMMA EnterFacts ==
  ASSUME PassageType, NEW c \in Calls, NEW kind \in {"void", "value"}, Breaker!Enter(c, kind)
  PROVE  /\ c \notin running
         /\ \E with \in NoAction \cup {"none"} :
              /\ answer' = [answer EXCEPT ![c] = [kind |-> kind, with |-> with]]
              /\ running' = IF with = "none" THEN running \cup {c} ELSE running
  BY DEF PassageType, Breaker!Enter, Breaker!EnterClosed, Breaker!EnterHalfOpen, Breaker!EnterOpen,
         Breaker!EnterAfterDelay, Breaker!LetIn, Breaker!Answer, Breaker!OnOpen, NoAction

\* The end of an action: the call leaves, with an answer of its own.
Leaves(c, with) ==
  /\ c \in running
  /\ running' = running \ {c}
  /\ answer' = [answer EXCEPT ![c] = [kind |-> answer[c].kind, with |-> with]]

LEMMA LeaveFacts ==
  ASSUME NEW c \in Calls
  PROVE  /\ Breaker!Succeed(c) => Leaves(c, "done")
         /\ BreakerFailure(c) => Leaves(c, "failed")
  BY DEF BreakerFailure, Breaker!Succeed, Breaker!Fail, Breaker!FailFiltered, Breaker!Leave,
         Breaker!Answer, Leaves

LEMMA FirstStays == [PipelineNext]_pipelineVars => UNCHANGED <<first, mode>>
  BY DEF PipelineNext, pipelineVars, PipelineStep, Cancel, Tick, Waited, DetachedAttemptEnds, LoopEnds,
         FailInside, AttemptInside, EnterOnce, ActionEnds, AnsweredByBreaker, EnterAgain, AttemptToEnter,
         Enter

LEMMA DispatcherStays == [PipelineNext]_pipelineVars => UNCHANGED dispatcher
<1> SUFFICES ASSUME [PipelineNext]_pipelineVars PROVE UNCHANGED dispatcher
  OBVIOUS
<1>1. ASSUME NEW c \in Calls, CallStep(c) \/ RequestCancel(c) PROVE UNCHANGED dispatcher
  BY <1>1 DEF CallStep, RequestCancel, Attempt, ThrowCanceled, Succeed, RethrowFiltered, RethrowLast,
              Fail, ThrowOutOfRange, WaitOver
<1>2. ASSUME NEW c \in Calls, PipelineStep(c) \/ Cancel(c)
      PROVE  CallStep(c) \/ RequestCancel(c) \/ UNCHANGED dispatcher
  BY <1>2 DEF PipelineStep, Cancel, AttemptToEnter, EnterAgain, AnsweredByBreaker, ActionEnds, EnterOnce,
              AttemptInside, FailInside, LoopEnds, LoopThrows, DetachedAttemptEnds, Waited, FailedAttempt,
              CallStep, vars
<1>3. CASE Tick \/ UNCHANGED pipelineVars
  BY <1>3 DEF Tick, vars, pipelineVars
<1> QED
  BY <1>1, <1>2, <1>3 DEF PipelineNext

(* retry.Then(breaker) *)

LEMMA RetryFirstStep ==
  ASSUME TypeOK, PassageInv, first = "retry", [PipelineNext]_pipelineVars
  PROVE  PassageInv'
<1> USE DEF TypeOK, PassageInv, PassageType, PassedEachTime, OutcomesAreRecorded, Ended, Goes, Outcomes,
            Places
<1>f. UNCHANGED <<first, mode>>
  BY FirstStays
<1>1. ASSUME NEW c \in Calls, AttemptToEnter(c) PROVE PassageInv'
  BY <1>1 DEF AttemptToEnter, Attempt, breakerVars
<1>2. ASSUME NEW c \in Calls, EnterAgain(c) PROVE PassageInv'
  <2>1. PICK kind \in {"void", "value"} : Breaker!Enter(c, kind)
    BY <1>2 DEF EnterAgain, Enter
  <2>2. PICK with \in NoAction \cup {"none"} :
          /\ answer' = [answer EXCEPT ![c] = [kind |-> kind, with |-> with]]
          /\ running' = IF with = "none" THEN running \cup {c} ELSE running
    BY <2>1, EnterFacts
  <2>3. c \in entering /\ entering' = entering \ {c} /\ UNCHANGED pc
    BY <1>2 DEF EnterAgain, Enter, vars
  <2> QED
    BY <1>f, <2>2, <2>3 DEF NoAction, Breaker!Kinds, Breaker!Answers
<1>3. ASSUME NEW c \in Calls, AnsweredByBreaker(c) PROVE PassageInv'
  <2>1. /\ pc[c] = "running" /\ c \notin entering \cup running
        /\ \E to \in Places : pc' = [pc EXCEPT ![c] = to]
        /\ UNCHANGED <<running, answer, entering>>
    BY <1>3 DEF AnsweredByBreaker, breakerVars, RethrowLast, RethrowFiltered, Fail, ThrowOutOfRange, Succeed
  <2>2. \/ answer[c].with = "refused" /\ pc'[c] \in {"exhausted", "filtered", "outOfRange", "ready", "waiting"}
        \/ answer[c].with \in {"fallback", "skipped"} /\ pc'[c] = "done"
    BY <1>3 DEF AnsweredByBreaker, RethrowLast, RethrowFiltered, Fail, ThrowOutOfRange, Succeed, NoAction
  <2> QED
    BY <1>f, <2>1, <2>2
<1>4. ASSUME NEW c \in Calls, ActionEnds(c) PROVE PassageInv'
  <2>1. pc[c] = "running" /\ UNCHANGED entering /\ \E to \in Places : pc' = [pc EXCEPT ![c] = to]
    BY <1>4 DEF ActionEnds, FailedAttempt, RethrowLast, RethrowFiltered, Fail, ThrowOutOfRange, Succeed
  <2>2. \/ Leaves(c, "done") /\ pc'[c] = "done"
        \/ Leaves(c, "failed") /\ pc'[c] \in {"exhausted", "filtered", "outOfRange", "ready", "waiting"}
    BY <1>4, LeaveFacts DEF ActionEnds, FailedAttempt, RethrowLast, RethrowFiltered, Fail, ThrowOutOfRange, Succeed
  <2> QED
    BY <1>f, <2>1, <2>2, SMTT(30) DEF Leaves, Breaker!Answers
<1>5. ASSUME NEW c \in Calls, Waited(c) PROVE PassageInv'
  BY <1>5 DEF Waited, WaitOver, ThrowCanceled, breakerVars
<1>6. ASSUME NEW c \in Calls, Cancel(c) PROVE PassageInv'
  BY <1>6 DEF Cancel, RequestCancel, breakerVars
<1>7. CASE Tick \/ UNCHANGED pipelineVars
  BY <1>f, <1>7 DEF Tick, Breaker!Tick, vars, breakerVars, pipelineVars
<1> QED
  BY <1>1, <1>2, <1>3, <1>4, <1>5, <1>6, <1>7
     DEF PipelineNext, PipelineStep, EnterOnce, AttemptInside, FailInside, LoopEnds, DetachedAttemptEnds

(* breaker.Then(retry) *)

LEMMA BreakerFirstStep ==
  ASSUME RetryInv, PassageInv, first = "breaker", [PipelineNext]_pipelineVars
  PROVE  PassageInv'
<1>f. /\ UNCHANGED <<first, mode>> /\ \A c \in Calls : Detached(c)' = Detached(c)
      /\ pc \in [Calls -> Places] /\ attempts \in [Calls -> Nat]
  BY FirstStays, DispatcherStays DEF Detached, RetryInv, TypeOK
<1> USE DEF PassageInv, PassageType, PassedOnce, OutcomesAreRecorded, Ended, Goes, Outcomes, Places
<1>1. ASSUME NEW c \in Calls, EnterOnce(c) PROVE PassageInv'
  <2>1. PICK kind \in {"void", "value"} : Breaker!Enter(c, kind)
    BY <1>1 DEF EnterOnce, Enter
  <2>2. PICK with \in NoAction \cup {"none"} :
          /\ answer' = [answer EXCEPT ![c] = [kind |-> kind, with |-> with]]
          /\ running' = IF with = "none" THEN running \cup {c} ELSE running
    BY <2>1, EnterFacts
  <2>3. c \in entering /\ entering' = entering \ {c} /\ UNCHANGED attempts
        /\ pc' = IF c \in running' THEN pc ELSE [pc EXCEPT ![c] = "refused"]
    BY <1>1 DEF EnterOnce, Enter
  <2> QED
    BY <1>f, <2>2, <2>3 DEF NoAction, Breaker!Kinds, Breaker!Answers
<1>2. ASSUME NEW c \in Calls, AttemptInside(c) PROVE PassageInv'
  BY <1>f, <1>2 DEF AttemptInside, Attempt, breakerVars
<1>3. ASSUME NEW c \in Calls, FailInside(c) PROVE PassageInv'
  <2>1. /\ pc[c] = "running"
        /\ \E to \in {"ready", "waiting"} : pc' = [pc EXCEPT ![c] = to]
        /\ UNCHANGED <<entering, attempts, running, answer>>
    BY <1>3 DEF FailInside, Fail, breakerVars
  <2>2. /\ pc' \in [Calls -> Places]
        /\ pc'[c] \notin Outcomes /\ pc'[c] # "running"
        /\ \A d \in Calls \ {c} : pc'[d] = pc[d]
    BY <1>f, <2>1
  <2>3. Ended' = Ended /\ \A d \in Ended : pc'[d] = pc[d]
    BY <2>1, <2>2
  <2>4. OutcomesAreRecorded'
    BY <1>f, <2>1, <2>3
  <2>5. PassedOnce'
    BY <1>f, <2>1, <2>2
  <2> QED
    BY <1>f, <2>1, <2>4, <2>5
<1>4. ASSUME NEW c \in Calls, LoopEnds(c) PROVE PassageInv'
  <2>1. pc[c] # "refused" /\ UNCHANGED <<entering, attempts>>
        /\ \E to \in Places : pc' = [pc EXCEPT ![c] = to]
    BY <1>4 DEF LoopEnds, LoopThrows, RethrowLast, RethrowFiltered, ThrowOutOfRange, ThrowCanceled, Succeed
  <2>2. \/ Leaves(c, "done") /\ pc'[c] = "done"
        \/ Leaves(c, "failed") /\ pc'[c] \in {"exhausted", "filtered", "outOfRange", "canceled"}
    BY <1>f, <1>4, LeaveFacts
       DEF LoopEnds, LoopThrows, RethrowLast, RethrowFiltered, ThrowOutOfRange, ThrowCanceled, Succeed
  <2>3. /\ c \in running /\ running' = running \ {c}
        /\ \A d \in Calls \ {c} : pc'[d] = pc[d] /\ answer'[d] = answer[d]
        /\ pc'[c] \in Outcomes /\ pc'[c] # "refused"
        /\ answer'[c].with = IF pc'[c] = "done" THEN "done" ELSE "failed"
    BY <1>f, <2>1, <2>2 DEF Leaves
  <2>4. PassageType'
    BY <1>f, <2>1, <2>2 DEF Leaves, Breaker!Answers
  <2>5. OutcomesAreRecorded'
    <3>1. \A d \in Ended' : d = c \/ (d \in Ended /\ d \in Calls \ {c})
      BY <2>3
    <3>2. ASSUME NEW d \in Ended, d # c
          PROVE  /\ d \notin running'
                 /\ first' = "breaker" /\ ~Detached(d)' =>
                      CASE pc'[d] = "done" -> answer'[d].with = "done"
                        [] pc'[d] = "refused" -> attempts'[d] = 0
                        [] OTHER -> answer'[d].with = "failed"
      BY <1>f, <2>1, <2>3, <3>2
    <3>3. /\ c \notin running'
          /\ CASE pc'[c] = "done" -> answer'[c].with = "done"
               [] pc'[c] = "refused" -> attempts'[c] = 0
               [] OTHER -> answer'[c].with = "failed"
      BY <2>3
    <3> QED
      BY <1>f, <3>1, <3>2, <3>3
  <2>6. PassedOnce'
    BY <1>f, <2>1, <2>3
  <2> QED
    BY <1>f, <2>4, <2>5, <2>6
<1>5. ASSUME NEW c \in Calls, DetachedAttemptEnds(c) PROVE PassageInv'
  <2>1. pc[c] = "running" /\ Detached(c) /\ UNCHANGED <<entering, attempts>>
        /\ \E to \in Places \ {"refused"} : pc' = [pc EXCEPT ![c] = to]
    BY <1>5 DEF DetachedAttemptEnds, FailedAttempt, RethrowLast, RethrowFiltered, Fail, ThrowOutOfRange, Succeed
  <2>2. Leaves(c, "done") \/ (c \notin running /\ UNCHANGED <<running, answer>>)
    BY <1>5, LeaveFacts DEF DetachedAttemptEnds, breakerVars
  <2> QED
    BY <1>f, <2>1, <2>2, SMTT(30) DEF Leaves, Breaker!Answers
<1>6. ASSUME NEW c \in Calls, Waited(c) PROVE PassageInv'
  BY <1>f, <1>6 DEF Waited, WaitOver, breakerVars
<1>7. ASSUME NEW c \in Calls, Cancel(c) PROVE PassageInv'
  BY <1>f, <1>7 DEF Cancel, RequestCancel, breakerVars
<1>8. CASE Tick \/ UNCHANGED pipelineVars
  BY <1>f, <1>8 DEF Tick, Breaker!Tick, vars, breakerVars, pipelineVars
<1> QED
  BY <1>1, <1>2, <1>3, <1>4, <1>5, <1>6, <1>7, <1>8
     DEF PipelineNext, PipelineStep, AttemptToEnter, EnterAgain, AnsweredByBreaker, ActionEnds

-----------------------------------------------------------------------------

IInv == RetryInv /\ PassageInv

\* What a step of the composition is to the retry.
LEMMA RetrySteps ==
  ASSUME PassageInv, [PipelineNext]_pipelineVars
  PROVE  Next \/ UNCHANGED vars \/ \E c \in Calls : Refused(c)
<1>1. ASSUME NEW c \in Calls, EnterOnce(c) PROVE UNCHANGED vars \/ Refused(c)
  BY <1>1 DEF EnterOnce, Enter, PassageInv, PassedOnce, Refused, Goes, vars
<1>2. ASSUME NEW c \in Calls, EnterAgain(c) PROVE UNCHANGED vars
  BY <1>2 DEF EnterAgain
<1>3. ASSUME NEW c \in Calls,
             \/ AttemptToEnter(c) \/ AnsweredByBreaker(c) \/ ActionEnds(c) \/ AttemptInside(c)
             \/ FailInside(c) \/ LoopEnds(c) \/ DetachedAttemptEnds(c) \/ Waited(c)
      PROVE  CallStep(c)
  BY <1>3 DEF AttemptToEnter, AnsweredByBreaker, ActionEnds, AttemptInside, FailInside, LoopEnds,
              LoopThrows, DetachedAttemptEnds, Waited, FailedAttempt, CallStep
<1>4. ASSUME NEW c \in Calls, Cancel(c) PROVE RequestCancel(c)
  BY <1>4 DEF Cancel
<1>5. CASE Tick \/ UNCHANGED pipelineVars
  BY <1>5 DEF Tick, pipelineVars
<1> QED
  BY <1>1, <1>2, <1>3, <1>4, <1>5 DEF PipelineNext, PipelineStep, Next

LEMMA InitIInv == PipelineInit => IInv
<1> SUFFICES ASSUME PipelineInit PROVE IInv
  OBVIOUS
<1>1. RetryInv
  BY RetryInit DEF PipelineInit
<1>2. PassageInv
  BY DEF PipelineInit, Init, Breaker!Init, PassageInv, PassageType, PassedOnce, PassedEachTime,
         OutcomesAreRecorded, Ended, Outcomes, Breaker!Kinds, Breaker!Answers
<1> QED
  BY <1>1, <1>2 DEF IInv

LEMMA NextIInv == IInv /\ [PipelineNext]_pipelineVars => IInv'
<1> SUFFICES ASSUME IInv, [PipelineNext]_pipelineVars PROVE IInv'
  OBVIOUS
<1>1. RetryInv'
  BY RetrySteps, RetryStep DEF IInv
<1>2. PassageInv'
  BY RetryFirstStep, BreakerFirstStep DEF IInv, RetryInv, PassageInv, PassageType
<1> QED
  BY <1>1, <1>2 DEF IInv

(***************************************************************************)
(* The inductive invariant holds in every behaviour of the composition.    *)
(***************************************************************************)
THEOREM Inductive == PipelineSpec => []IInv
<1>1. QED
  BY InitIInv, NextIInv, PTL DEF PipelineSpec

(***************************************************************************)
(* With any maximum, a call gives up after exactly the retries that it     *)
(* stands for, on either side of a breaker: as many as it says or, when it *)
(* is negative, those after which the wrapped counter meets it.            *)
(***************************************************************************)
THEOREM RetriesAreCounted == PipelineSpec => []RetriesCounted
<1>1. IInv => RetriesCounted
  BY DEF IInv, RetryInv, CountInv, RetriesCounted
<1>2. QED
  BY <1>1, Inductive, PTL

(***************************************************************************)
(* With any number of time outs, each wait is the one that its retry has.  *)
(* An array is read out of its bounds at the first failure, when it is     *)
(* empty, or past the wrap of the counter.                                 *)
(***************************************************************************)
THEOREM WaitsAreInOrder == PipelineSpec => []WaitsInOrder
<1>1. IInv => WaitsInOrder
  <2> SUFFICES ASSUME IInv, NEW c \in Calls
               PROVE  /\ pc[c] = "waiting" =>
                           CASE dispatcher.provider = "single" -> wait[c] = 0
                             [] dispatcher.provider = "array" ->
                                  wait[c] = (IF attempts[c] > dispatcher.length THEN dispatcher.length
                                                                                ELSE attempts[c]) - 1
                             [] OTHER -> FALSE
                      /\ pc[c] = "outOfRange" =>
                           /\ dispatcher.provider = "array"
                           /\ attempts[c] = IF dispatcher.length = 0 THEN 1 ELSE IntMax + 2
    BY DEF WaitsInOrder
  <2>1. /\ dispatcher.provider \in Providers /\ dispatcher.length \in Nat /\ IntMax \in Nat
        /\ attempts[c] \in Nat
    BY Limits DEF IInv, RetryInv, TypeOK
  <2>2. ASSUME pc[c] = "waiting"
        PROVE  dispatcher.provider \in {"single", "array"} /\ wait[c] = TimeOut(attempts[c] - 1)
    BY <2>1, <2>2 DEF IInv, RetryInv, CountInv, Providers
  <2>3. ASSUME pc[c] = "outOfRange"
        PROVE  dispatcher.provider = "array" /\ attempts[c] = Readable + 1
    BY <2>3 DEF IInv, RetryInv, CountInv
  <2>4. pc[c] = "waiting" =>
          CASE dispatcher.provider = "single" -> wait[c] = 0
            [] dispatcher.provider = "array" ->
                 wait[c] = (IF attempts[c] > dispatcher.length THEN dispatcher.length ELSE attempts[c]) - 1
            [] OTHER -> FALSE
    BY <2>1, <2>2 DEF TimeOut, IndexOf
  <2>5. pc[c] = "outOfRange" =>
          /\ dispatcher.provider = "array"
          /\ attempts[c] = IF dispatcher.length = 0 THEN 1 ELSE IntMax + 2
    BY <2>1, <2>3 DEF Readable
  <2> QED
    BY <2>4, <2>5
<1>2. QED
  BY <1>1, Inductive, PTL

(***************************************************************************)
(* What the breaker is told and what the caller is told agree, whatever    *)
(* the order of the two dispatchers and the number of the calls.           *)
(***************************************************************************)
THEOREM OutcomesRecorded == PipelineSpec => []OutcomesAreRecorded
<1>1. IInv => OutcomesAreRecorded
  BY DEF IInv, PassageInv
<1>2. QED
  BY <1>1, Inductive, PTL

-----------------------------------------------------------------------------
(* How often the breaker counts, behind which the retries are              *)

LoopInv == fails \in Nat /\ LoopsCountOnce

\* A step leaves the calls that failed alone, but for one that fails with it, and
\* then only does the breaker count.
LEMMA CountedSteps ==
  ASSUME RetryInv, PassageInv, first = "breaker", [PipelineNext]_pipelineVars, fails \in Nat
  PROVE  \/ fails' \in {0, fails} /\ FailedCalls \subseteq FailedCalls'
         \/ /\ fails' \in {fails, fails + 1}
            /\ \E c \in Calls \ FailedCalls : FailedCalls' = FailedCalls \cup {c}
<1> DEFINE Keeps == fails' \in {0, fails} /\ FailedCalls \subseteq FailedCalls'
<1> USE DEF RetryInv, TypeOK, PassageInv, PassageType, PassedOnce, FailedCalls, Ended, Goes, Outcomes, Places
<1>1. ASSUME NEW c \in Calls, pc[c] \notin Outcomes, fails' \in {0, fails},
             \A d \in Calls \ {c} : pc'[d] = pc[d] /\ answer'[d] = answer[d]
      PROVE  Keeps
  BY <1>1
<1>2. ASSUME NEW c \in Calls, EnterOnce(c) PROVE Keeps
  <2>1. PICK kind \in {"void", "value"} : Breaker!Enter(c, kind)
    BY <1>2 DEF EnterOnce, Enter
  <2>2. fails' = fails
    BY <2>1 DEF Breaker!Enter, Breaker!EnterClosed, Breaker!EnterHalfOpen, Breaker!EnterOpen,
                Breaker!EnterAfterDelay
  <2>3. \A d \in Calls \ {c} : answer'[d] = answer[d]
    BY <2>1, EnterFacts
  <2>4. pc[c] = "ready" /\ \A d \in Calls \ {c} : pc'[d] = pc[d]
    BY <1>2 DEF EnterOnce, Enter
  <2> QED
    BY <1>1, <2>2, <2>3, <2>4
<1>3. ASSUME NEW c \in Calls, AttemptInside(c) \/ FailInside(c) PROVE Keeps
  BY <1>1, <1>3 DEF AttemptInside, Attempt, FailInside, Fail, breakerVars
<1>4. ASSUME NEW c \in Calls, LoopEnds(c)
      PROVE  \/ Keeps
             \/ fails' \in {fails, fails + 1} /\ c \notin FailedCalls /\ FailedCalls' = FailedCalls \cup {c}
  <2>1. /\ pc[c] \notin Outcomes /\ pc'[c] \in Outcomes
        /\ \A d \in Calls \ {c} : pc'[d] = pc[d]
    BY <1>4 DEF LoopEnds, LoopThrows, RethrowLast, RethrowFiltered, ThrowOutOfRange, ThrowCanceled, Succeed
  <2>2. CASE Breaker!Succeed(c)
    <3>1. fails' = 0 /\ Leaves(c, "done")
      BY <2>2, LeaveFacts DEF Breaker!Succeed
    <3> QED
      BY <1>1, <2>1, <3>1 DEF Leaves
  <2>3. CASE BreakerFailure(c)
    <3>1. fails' \in {fails, fails + 1} /\ Leaves(c, "failed")
      BY <2>3, LeaveFacts DEF BreakerFailure, Breaker!Fail, Breaker!FailFiltered
    <3> QED
      BY <2>1, <3>1 DEF Leaves
  <2> QED
    BY <1>4, <2>2, <2>3 DEF LoopEnds
<1>5. ASSUME NEW c \in Calls, DetachedAttemptEnds(c) PROVE Keeps
  <2>1. pc[c] = "running" /\ \A d \in Calls \ {c} : pc'[d] = pc[d]
    BY <1>5 DEF DetachedAttemptEnds, FailedAttempt, RethrowLast, RethrowFiltered, Fail, ThrowOutOfRange, Succeed
  <2>2. /\ fails' \in {0, fails}
        /\ Leaves(c, "done") \/ UNCHANGED answer
    BY <1>5, LeaveFacts DEF DetachedAttemptEnds, Breaker!Succeed, breakerVars
  <2> QED
    BY <1>1, <2>1, <2>2 DEF Leaves
<1>6. ASSUME NEW c \in Calls, Waited(c) \/ Cancel(c) PROVE Keeps
  BY <1>6 DEF Waited, WaitOver, Cancel, RequestCancel, breakerVars
<1>7. CASE Tick \/ UNCHANGED pipelineVars
  BY <1>7 DEF Tick, Breaker!Tick, vars, breakerVars, pipelineVars
<1> QED
  BY <1>2, <1>3, <1>4, <1>5, <1>6, <1>7
     DEF PipelineNext, PipelineStep, AttemptToEnter, EnterAgain, AnsweredByBreaker, ActionEnds

LEMMA FailsStayNatural == fails \in Nat /\ [PipelineNext]_pipelineVars => fails' \in Nat
<1> SUFFICES ASSUME fails \in Nat, [PipelineNext]_pipelineVars PROVE fails' \in {0, fails, fails + 1}
  OBVIOUS
<1> DEFINE Counted == fails' \in {0, fails, fails + 1}
<1>1. ASSUME NEW c \in Calls, Enter(c) PROVE Counted
  BY <1>1 DEF Enter, Breaker!Enter, Breaker!EnterClosed, Breaker!EnterHalfOpen,
              Breaker!EnterOpen, Breaker!EnterAfterDelay
<1>2. ASSUME NEW c \in Calls, Breaker!Succeed(c) PROVE Counted
  BY <1>2 DEF Breaker!Succeed
<1>3. ASSUME NEW c \in Calls, BreakerFailure(c) PROVE Counted
  BY <1>3 DEF BreakerFailure, Breaker!Fail, Breaker!FailFiltered
<1>4. CASE UNCHANGED breakerVars
  BY <1>4 DEF breakerVars
<1>5. CASE Tick \/ UNCHANGED pipelineVars
  BY <1>5 DEF Tick, Breaker!Tick, pipelineVars, breakerVars
<1>6. ASSUME NEW c \in Calls, PipelineStep(c) \/ Cancel(c) PROVE Counted
  <2>1. \/ Enter(c) \/ Breaker!Succeed(c) \/ BreakerFailure(c) \/ UNCHANGED breakerVars
    BY <1>6 DEF PipelineStep, Cancel, AttemptToEnter, EnterAgain, AnsweredByBreaker, ActionEnds,
                EnterOnce, AttemptInside, FailInside, LoopEnds, DetachedAttemptEnds, Waited
  <2> QED
    BY <2>1, <1>1, <1>2, <1>3, <1>4
<1> QED
  BY <1>5, <1>6 DEF PipelineNext

LEMMA LoopStep == IInv /\ LoopInv /\ [PipelineNext]_pipelineVars => LoopInv'
<1> SUFFICES ASSUME IInv, LoopInv, [PipelineNext]_pipelineVars PROVE LoopInv'
  OBVIOUS
<1>1. IsFiniteSet(FailedCalls) /\ IsFiniteSet(FailedCalls')
  BY CallsAssumption, FS_Subset DEF FailedCalls, Ended
<1>2. Cardinality(FailedCalls) \in Nat /\ Cardinality(FailedCalls') \in Nat
  BY <1>1, FS_CardinalityType
<1>3. ASSUME first = "breaker" PROVE fails' <= Cardinality(FailedCalls')
  <2>1. fails <= Cardinality(FailedCalls) /\ fails \in Nat
    BY <1>3 DEF LoopInv, LoopsCountOnce
  <2>2. CASE fails' \in {0, fails} /\ FailedCalls \subseteq FailedCalls'
    <3>1. Cardinality(FailedCalls) <= Cardinality(FailedCalls')
      BY <1>1, <2>2, FS_Subset
    <3> QED
      BY <1>2, <2>1, <2>2, <3>1
  <2>3. ASSUME fails' \in {fails, fails + 1}, NEW c \in Calls \ FailedCalls,
               FailedCalls' = FailedCalls \cup {c}
        PROVE  fails' <= Cardinality(FailedCalls')
    <3>1. Cardinality(FailedCalls') = Cardinality(FailedCalls) + 1
      BY <1>1, <2>3, FS_AddElement
    <3> QED
      BY <1>2, <2>1, <2>3, <3>1
  <2> QED
    BY <1>3, <2>1, <2>2, <2>3, CountedSteps DEF IInv
<1> QED
  BY <1>3, FailsStayNatural, FirstStays DEF LoopInv, LoopsCountOnce

(***************************************************************************)
(* Behind the breaker, however many retries the calls make, the breaker    *)
(* counts no more failures than there are calls that failed.               *)
(***************************************************************************)
THEOREM LoopsAreCountedOnce == PipelineSpec => []LoopsCountOnce
<1>1. PipelineInit => LoopInv
  <2> SUFFICES ASSUME PipelineInit PROVE LoopInv
    OBVIOUS
  <2>1. IsFiniteSet(FailedCalls)
    BY CallsAssumption, FS_Subset DEF FailedCalls, Ended
  <2>2. Cardinality(FailedCalls) \in Nat /\ fails = 0
    BY <2>1, FS_CardinalityType DEF PipelineInit, Breaker!Init
  <2> QED
    BY <2>2 DEF LoopInv, LoopsCountOnce
<1>2. LoopInv => LoopsCountOnce
  BY DEF LoopInv
<1> QED
  BY <1>1, <1>2, LoopStep, Inductive, PTL DEF PipelineSpec

-----------------------------------------------------------------------------
(* The breaker of the composition is a breaker                             *)

\* The theorems about CircuitBreaker, of the breaker that is composed here.
BP == INSTANCE CircuitBreakerProofs WITH Callers <- Calls, FilterIgnores <- BreakerIgnores

LEMMA BreakerSteps == [PipelineNext]_pipelineVars => [BP!Next]_BP!vars
<1> SUFFICES ASSUME [PipelineNext]_pipelineVars PROVE BP!Next \/ UNCHANGED BP!vars
  OBVIOUS
<1>1. ASSUME NEW c \in Calls, Enter(c) PROVE BP!Next
  <2>1. PICK kind \in BP!Kinds : Breaker!Enter(c, kind)
    BY <1>1 DEF Enter, BP!Kinds
  <2>2. BP!Enter(c, kind)
    BY <2>1 DEF Breaker!Enter, Breaker!EnterClosed, Breaker!EnterHalfOpen, Breaker!EnterOpen,
                Breaker!EnterAfterDelay, Breaker!LetIn, Breaker!OnOpen, Breaker!Answer,
                BP!Enter, BP!EnterClosed, BP!EnterHalfOpen, BP!EnterOpen, BP!EnterAfterDelay,
                BP!LetIn, BP!OnOpen, BP!Answer
  <2> QED
    BY <2>2 DEF BP!Next
<1>2. ASSUME NEW c \in Calls, Breaker!Succeed(c) \/ BreakerFailure(c) PROVE BP!Next
  <2>1. BP!Finish(c)
    BY <1>2 DEF BreakerFailure, Breaker!Succeed, Breaker!Fail, Breaker!FailFiltered, Breaker!Leave,
                Breaker!Answer, BP!Finish, BP!Succeed, BP!Fail, BP!FailFiltered, BP!Leave, BP!Answer
  <2> QED
    BY <2>1 DEF BP!Next
<1>3. CASE Tick
  BY <1>3 DEF Tick, Breaker!Tick, Breaker!Later, BP!Tick, BP!Later, BP!Next
<1>4. CASE UNCHANGED breakerVars
  BY <1>4 DEF breakerVars, BP!vars
<1>5. ASSUME NEW c \in Calls, PipelineStep(c) \/ Cancel(c)
      PROVE  Enter(c) \/ Breaker!Succeed(c) \/ BreakerFailure(c) \/ UNCHANGED breakerVars
  BY <1>5 DEF PipelineStep, Cancel, AttemptToEnter, EnterAgain, AnsweredByBreaker, ActionEnds,
              EnterOnce, AttemptInside, FailInside, LoopEnds, DetachedAttemptEnds, Waited
<1> QED
  BY <1>1, <1>2, <1>3, <1>4, <1>5 DEF PipelineNext, pipelineVars, breakerVars

(***************************************************************************)
(* A breaker in a composition, before a retry or after it, goes through    *)
(* nothing that a breaker alone does not go through: Enter, the end of an  *)
(* action and the clock are all that its partner makes of it.              *)
(***************************************************************************)
THEOREM BreakerIsUsed == PipelineSpec => Breaker!Spec
<1>1. [BP!Next]_BP!vars => [Breaker!Next]_Breaker!vars
  BY DEF BP!Next, BP!vars, BP!Kinds, BP!Enter, BP!EnterClosed, BP!EnterHalfOpen, BP!EnterOpen,
         BP!EnterAfterDelay, BP!LetIn, BP!OnOpen, BP!Answer, BP!Finish, BP!Succeed, BP!Fail,
         BP!FailFiltered, BP!Leave, BP!Tick, BP!Later,
         Breaker!Next, Breaker!vars, Breaker!Kinds, Breaker!Enter, Breaker!EnterClosed,
         Breaker!EnterHalfOpen, Breaker!EnterOpen, Breaker!EnterAfterDelay, Breaker!LetIn,
         Breaker!OnOpen, Breaker!Answer, Breaker!Finish, Breaker!Succeed, Breaker!Fail,
         Breaker!FailFiltered, Breaker!Leave, Breaker!Tick, Breaker!Later
<1> QED
  BY <1>1, BreakerSteps, PTL DEF PipelineSpec, PipelineInit, Breaker!Spec

(***************************************************************************)
(* Composed with a retry, in either order, the breaker keeps what it       *)
(* promises alone: it is closed exactly while fewer than Threshold         *)
(* failures were recorded since the last success, half-open only with its  *)
(* probe at work, and once open lets in nobody but its probes, a whole     *)
(* Delay apart, however often the loops of the retry knock.                *)
(***************************************************************************)
THEOREM ComposedBreakerIsSafe ==
  PipelineSpec => /\ [](Breaker!FailsDecideState /\ Breaker!HalfOpenIsProbing)
                  /\ Breaker!ProbesSpaced /\ Breaker!OnlyProbesEnter
<1>1. PipelineInit => BP!Init
  BY DEF PipelineInit, Breaker!Init, BP!Init
<1>2. BP!BreakerAssumption
  BY PipelineAssumption DEF BP!BreakerAssumption
<1>3. PipelineSpec => BP!Spec
  BY <1>1, BreakerSteps, PTL DEF PipelineSpec, BP!Spec
<1>4. BP!FailsDecideState /\ BP!HalfOpenIsProbing => Breaker!FailsDecideState /\ Breaker!HalfOpenIsProbing
  BY DEF BP!FailsDecideState, BP!HalfOpenIsProbing, Breaker!FailsDecideState, Breaker!HalfOpenIsProbing
<1>5. BP!Spec => [](Breaker!FailsDecideState /\ Breaker!HalfOpenIsProbing)
  BY <1>2, <1>4, BP!StateFollowsFails, BP!HalfOpenHasProbe, PTL
<1>6. BP!Spec => Breaker!ProbesSpaced
  BY <1>2, BP!SpacedProbes DEF BP!ProbesSpaced, Breaker!ProbesSpaced, BP!vars, Breaker!vars
<1>7. BP!Spec => Breaker!OnlyProbesEnter
  BY <1>2, BP!ProbesOnly DEF BP!OnlyProbesEnter, Breaker!OnlyProbesEnter, BP!vars, Breaker!vars
<1> QED
  BY <1>3, <1>5, <1>6, <1>7, PTL
=============================================================================
