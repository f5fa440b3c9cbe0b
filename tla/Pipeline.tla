------------------------------ MODULE Pipeline ------------------------------
(***************************************************************************)
(* A retry and a circuit breaker composed by ComposedDispatcher, in either *)
(* order: retry.Then(breaker), where every attempt of a call has to pass   *)
(* the breaker, or breaker.Then(retry), where the breaker is passed once   *)
(* and sees the outcome of the whole loop.  Calls run at the same time and *)
(* share both dispatchers, as do those of a clone: Clone() of a composed   *)
(* dispatcher keeps the two that it was made of.                           *)
(*                                                                         *)
(* The calls of Retry are the callers of CircuitBreaker.                   *)
(***************************************************************************)
EXTENDS Retry, FiniteSets

CONSTANTS
  Threshold, Delay, VoidThrows, HasFallback, BreakerIgnores,  \* of the breaker
  RefusalsRetried    \* the filter of the retry lets CircuitBreakerOpenException be retried

\* The breaker's are those of CircuitBreaker.
ASSUME PipelineAssumption ==
  /\ RefusalsRetried \in BOOLEAN
  /\ ~RefusalsRetried => FilterIgnores
  /\ Threshold \in Nat \ {0}
  /\ Delay \in Nat
  /\ {VoidThrows, HasFallback, BreakerIgnores} \subseteq BOOLEAN

\* So many calls were made.
ASSUME CallsAssumption == IsFiniteSet(Calls)

VARIABLES
  first,             \* the _First of the composed dispatcher
  mode,              \* each call: Dispatch, Enqueue of an action, or of a function
  entering,          \* the calls that are before the door of the breaker
  state, fails, sinceFail, running, answer, probe, sinceProbe   \* see CircuitBreaker

Breaker == INSTANCE CircuitBreaker WITH Callers <- Calls, FilterIgnores <- BreakerIgnores

breakerVars == <<state, fails, sinceFail, running, answer, probe, sinceProbe>>
pipelineVars == <<vars, breakerVars, first, mode, entering>>

PipelineInit ==
  /\ Init
  /\ Breaker!Init
  /\ first \in {"retry", "breaker"}
  /\ mode \in [Calls -> {"dispatch", "void", "value"}]
  /\ entering = IF first = "breaker" THEN Calls ELSE {}

Enter(c) ==
  /\ c \in entering
  /\ entering' = entering \ {c}
  /\ Breaker!Enter(c, IF mode[c] = "value" THEN "value" ELSE "void")
  /\ UNCHANGED <<first, mode>>

\* The failure of an attempt, in the catch of the loop.
FailedAttempt(c) == RethrowFiltered(c) \/ RethrowLast(c) \/ Fail(c) \/ ThrowOutOfRange(c)

BreakerFailure(c) == Breaker!Fail(c) \/ Breaker!FailFiltered(c)

----------------------------------------------------------------------------
(* retry.Then(breaker) *)

AttemptToEnter(c) ==
  /\ first = "retry"
  /\ c \notin entering
  /\ Attempt(c)
  /\ entering' = entering \cup {c}
  /\ UNCHANGED <<breakerVars, first, mode>>

EnterAgain(c) == first = "retry" /\ Enter(c) /\ UNCHANGED vars

\* What the breaker says in place of the action: an exception, or nothing wrong.
AnsweredByBreaker(c) ==
  /\ first = "retry"
  /\ pc[c] = "running" /\ c \notin entering \cup running
  /\ IF answer[c].with = "refused"
       THEN IF RefusalsRetried THEN RethrowLast(c) \/ Fail(c) \/ ThrowOutOfRange(c)
                                ELSE RethrowFiltered(c)
       ELSE Succeed(c)
  /\ UNCHANGED <<breakerVars, first, mode, entering>>

ActionEnds(c) ==
  /\ first = "retry"
  /\ \/ Breaker!Succeed(c) /\ Succeed(c)
     \/ BreakerFailure(c) /\ FailedAttempt(c)
  /\ UNCHANGED <<first, mode, entering>>

----------------------------------------------------------------------------
(* breaker.Then(retry) *)

\* Dispatch gives no token; DispatcherAdapter drops the task, so that a loop which
\* waits goes on after the breaker was told of a success.
Detached(c) == mode[c] = "dispatch" /\ dispatcher.provider # "none"

EnterOnce(c) ==
  /\ first = "breaker"
  /\ Enter(c)
  /\ pc' = IF c \in running' THEN pc ELSE [pc EXCEPT ![c] = "refused"]
  /\ UNCHANGED <<dispatcher, count, token, wait, attempts>>

AttemptInside(c) ==
  /\ first = "breaker"
  /\ c \notin entering
  /\ Attempt(c)
  /\ UNCHANGED <<breakerVars, first, mode, entering>>

\* Faulty variant: the breaker is told of every attempt.
FailInsideCounted(c) ==
  /\ first = "breaker"
  /\ ~Detached(c)
  /\ Fail(c)
  /\ Breaker!Fail(c)
  /\ UNCHANGED <<first, mode, entering>>

FailInside(c) ==
  /\ first = "breaker"
  /\ ~Detached(c)
  /\ Fail(c)
  /\ UNCHANGED <<breakerVars, first, mode, entering>>

LoopThrows(c) == RethrowFiltered(c) \/ RethrowLast(c) \/ ThrowOutOfRange(c) \/ ThrowCanceled(c)

\* Faulty variant: the composed dispatcher does not wait for the second one.
LoopEndsUnseen(c) ==
  /\ first = "breaker"
  /\ ~Detached(c)
  /\ c \in running
  /\ Breaker!Succeed(c)
  /\ Succeed(c) \/ LoopThrows(c)
  /\ UNCHANGED <<first, mode, entering>>

\* The exception of a cancelled loop is one like another to the breaker.
LoopEnds(c) ==
  /\ first = "breaker"
  /\ ~Detached(c)
  /\ c \in running
  /\ \/ Breaker!Succeed(c) /\ Succeed(c)
     \/ BreakerFailure(c) /\ LoopThrows(c)
  /\ UNCHANGED <<first, mode, entering>>

DetachedAttemptEnds(c) ==
  /\ first = "breaker"
  /\ Detached(c)
  /\ Succeed(c) \/ FailedAttempt(c)
  /\ IF c \in running THEN Breaker!Succeed(c) ELSE UNCHANGED breakerVars
  /\ UNCHANGED <<first, mode, entering>>

----------------------------------------------------------------------------

Waited(c) ==
  /\ WaitOver(c) \/ (first = "retry" /\ ThrowCanceled(c))
  /\ UNCHANGED <<breakerVars, first, mode, entering>>

PipelineStep(c) ==
  \/ AttemptToEnter(c) \/ EnterAgain(c) \/ AnsweredByBreaker(c) \/ ActionEnds(c)
  \/ EnterOnce(c) \/ AttemptInside(c) \/ FailInside(c) \/ LoopEnds(c)
  \/ DetachedAttemptEnds(c) \/ Waited(c)

Cancel(c) ==
  /\ mode[c] # "dispatch"
  /\ RequestCancel(c)
  /\ UNCHANGED <<breakerVars, first, mode, entering>>

Tick == Breaker!Tick /\ UNCHANGED <<vars, first, mode, entering>>

PipelineNext == Tick \/ \E c \in Calls : PipelineStep(c) \/ Cancel(c)

PipelineSpec == PipelineInit /\ [][PipelineNext]_pipelineVars

\* Actions end, and delays elapse.
PipelineFairness == \A c \in Calls : WF_pipelineVars(PipelineStep(c))

FairPipelineSpec == PipelineSpec /\ PipelineFairness

----------------------------------------------------------------------------
(* Properties                                                              *)

Ended == {c \in Calls : pc[c] \in Outcomes}

(***************************************************************************)
(* The breaker is told what the caller is told.  After the breaker, a loop *)
(* of retries counts once, as the success or the failure that it ends      *)
(* with; before it, a call that ends well was let through or answered, and *)
(* one that gives up was last refused or has failed.  Only a Dispatch of a *)
(* loop that waits is out of sight.                                        *)
(***************************************************************************)
OutcomesAreRecorded ==
  \A c \in Ended :
    /\ c \notin running
    /\ first = "breaker" /\ ~Detached(c) =>
         CASE pc[c] = "done" -> answer[c].with = "done"
           [] pc[c] = "refused" -> attempts[c] = 0
           [] OTHER -> answer[c].with = "failed"
    /\ first = "retry" =>
         CASE pc[c] = "done" -> answer[c].with \in {"done", "fallback", "skipped"}
           [] pc[c] \in {"exhausted", "filtered", "outOfRange"} -> answer[c].with \in {"failed", "refused"}
           [] OTHER -> TRUE

FailedCalls == {c \in Ended : answer[c].with = "failed"}

(***************************************************************************)
(* Behind the breaker, the retries of one call do not open it: it counts   *)
(* no more failures than there are calls that failed.                      *)
(***************************************************************************)
LoopsCountOnce ==
  first = "breaker" => fails <= Cardinality(FailedCalls)
=============================================================================
