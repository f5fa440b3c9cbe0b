------------------------------- MODULE Retry -------------------------------
(***************************************************************************)
(* RetryDispatcher and RetryDispatcherAsync: calls that share a dispatcher *)
(* (Clone returns the dispatcher itself) and retry their own action, each  *)
(* with a counter and a cancellation token of its own.                     *)
(*                                                                         *)
(* The two classes differ in what follows a failure: nothing, or a wait    *)
(* that a ITimeOutProvider gives for the number of the retry.  Nothing of  *)
(* what the builder is given is checked: the maximum may be negative, and  *)
(* the array of time outs empty.  Time outs are not negative here, and a   *)
(* time out of zero is a wait that is over at once.                        *)
(***************************************************************************)
EXTENDS Integers

CONSTANTS
  Calls,
  Dispatchers,     \* the dispatchers that the builder may have made
  IntMax,          \* int.MaxValue: the counter is an int and wraps after it
  FilterIgnores    \* the filter excludes some of the exceptions from retrying

\* No time outs are given to RetryDispatcher.  A single one, or a function, answers
\* whatever it is asked; an array has a length.
Providers == {"none", "single", "array"}

ASSUME RetryAssumption ==
  /\ IntMax \in Nat
  /\ Dispatchers \subseteq [maxRetry : -IntMax - 1 .. IntMax, provider : Providers, length : Nat]
  /\ FilterIgnores \in BOOLEAN

VARIABLES
  dispatcher,      \* the dispatcher that the calls share: nothing assigns its fields
  pc,              \* where each call is, its outcome included
  count,           \* the local count
  token,           \* "live" or "requested"
  wait,            \* index of the time out that was last asked for, or -1
  attempts         \* history: how many times the action was started

vars == <<dispatcher, pc, count, token, wait, attempts>>

\* "refused" is of a call that a dispatcher composed before this one has kept.
Outcomes == {"done", "filtered", "exhausted", "outOfRange", "canceled", "refused"}
Places == {"ready", "running", "waiting"} \cup Outcomes

\* _MaxRetry; ForEver() takes int.MaxValue.
MaxRetry == dispatcher.maxRetry

TypeOK ==
  /\ dispatcher \in Dispatchers
  /\ pc \in [Calls -> Places]
  /\ count \in [Calls -> -IntMax - 1 .. IntMax]
  /\ token \in [Calls -> {"live", "requested"}]
  /\ wait \in [Calls -> {0} \cup -1 .. dispatcher.length - 1]
  /\ attempts \in [Calls -> Nat]

Init ==
  /\ dispatcher \in Dispatchers
  /\ pc = [c \in Calls |-> "ready"]
  /\ count = [c \in Calls |-> 0]
  /\ token = [c \in Calls |-> "live"]
  /\ wait = [c \in Calls |-> -1]
  /\ attempts = [c \in Calls |-> 0]

Goes(c, from, to) == pc[c] = from /\ pc' = [pc EXCEPT ![c] = to]

\* count++ of a C# int.
Increment(k) == IF k = IntMax THEN -IntMax - 1 ELSE k + 1

\* The time out that _TimeSpans is asked for: the last one serves all the retries
\* beyond.
IndexOf(k) == IF k > dispatcher.length - 1 THEN dispatcher.length - 1 ELSE k

InRange(k) == dispatcher.provider = "array" => IndexOf(k) \in 0 .. dispatcher.length - 1

\* Faulty variant: the second time out comes first.
TimeOutShifted(k) == IF dispatcher.provider = "array" THEN IndexOf(k + 1) ELSE 0

\* GetTimeOutForRetry
TimeOut(k) == IF dispatcher.provider = "array" THEN IndexOf(k) ELSE 0

\* The top of the loop: ThrowIfCancellationRequested, then the action.
Attempt(c) ==
  /\ token[c] = "live"
  /\ Goes(c, "ready", "running")
  /\ attempts' = [attempts EXCEPT ![c] = @ + 1]
  /\ UNCHANGED <<dispatcher, count, token, wait>>

\* Either at the top of the loop or out of Task.Delay.
ThrowCanceled(c) ==
  /\ token[c] = "requested"
  /\ Goes(c, "ready", "canceled") \/ Goes(c, "waiting", "canceled")
  /\ UNCHANGED <<dispatcher, count, token, wait, attempts>>

Succeed(c) ==
  /\ Goes(c, "running", "done")
  /\ UNCHANGED <<dispatcher, count, token, wait, attempts>>

RethrowFiltered(c) ==
  /\ FilterIgnores
  /\ Goes(c, "running", "filtered")
  /\ UNCHANGED <<dispatcher, count, token, wait, attempts>>

\* Faulty variant: one retry is lost.
RethrowLastEarly(c) ==
  /\ count[c] + 1 >= MaxRetry
  /\ Goes(c, "running", "exhausted")
  /\ UNCHANGED <<dispatcher, count, token, wait, attempts>>

RethrowLast(c) ==
  /\ count[c] = MaxRetry
  /\ Goes(c, "running", "exhausted")
  /\ UNCHANGED <<dispatcher, count, token, wait, attempts>>

Fail(c) ==
  /\ count[c] # MaxRetry
  /\ InRange(count[c])
  /\ count' = [count EXCEPT ![c] = Increment(@)]
  /\ IF dispatcher.provider = "none"
       THEN Goes(c, "running", "ready") /\ UNCHANGED wait
       ELSE Goes(c, "running", "waiting") /\ wait' = [wait EXCEPT ![c] = TimeOut(count[c])]
  /\ UNCHANGED <<dispatcher, token, attempts>>

\* _TimeSpans is read at an index that it has not, and the catch throws that.
ThrowOutOfRange(c) ==
  /\ count[c] # MaxRetry
  /\ ~InRange(count[c])
  /\ Goes(c, "running", "outOfRange")
  /\ count' = [count EXCEPT ![c] = Increment(@)]
  /\ UNCHANGED <<dispatcher, token, wait, attempts>>

\* Faulty variant: a wait that only the cancellation ends.
WaitOverNever(c) ==
  /\ token[c] = "requested"
  /\ Goes(c, "waiting", "ready")
  /\ UNCHANGED <<dispatcher, count, token, wait, attempts>>

WaitOver(c) ==
  /\ Goes(c, "waiting", "ready")
  /\ UNCHANGED <<dispatcher, count, token, wait, attempts>>

RequestCancel(c) ==
  /\ token[c] = "live"
  /\ token' = [token EXCEPT ![c] = "requested"]
  /\ UNCHANGED <<dispatcher, pc, count, wait, attempts>>

CallStep(c) ==
  \/ Attempt(c) \/ ThrowCanceled(c) \/ Succeed(c) \/ RethrowFiltered(c)
  \/ RethrowLast(c) \/ Fail(c) \/ ThrowOutOfRange(c) \/ WaitOver(c)

Next == \E c \in Calls : CallStep(c) \/ RequestCancel(c)

Spec == Init /\ [][Next]_vars

\* Actions end, by a result or by an exception, and delays elapse.
Fairness == \A c \in Calls : WF_vars(CallStep(c))

FairSpec == Spec /\ Fairness

----------------------------------------------------------------------------
(* Properties                                                              *)

\* How many retries a maximum stands for: the counter reaches a negative one, too,
\* once it has wrapped.
Retries == IF MaxRetry >= 0 THEN MaxRetry ELSE MaxRetry + 2 * IntMax + 2

(***************************************************************************)
(* A call gives up on exceptions that are to be retried after as many      *)
(* retries as its maximum stands for, no sooner and no later: as many as   *)
(* it says, and 2^31 or more when it is negative.                          *)
(***************************************************************************)
RetriesCounted ==
  \A c \in Calls :
    /\ attempts[c] <= Retries + 1
    /\ pc[c] = "exhausted" => attempts[c] = Retries + 1

(***************************************************************************)
(* The wait before the n-th retry is the n-th of the time outs, the last   *)
(* one when there are fewer, whatever the calls that share the dispatcher  *)
(* do meanwhile.  The array is read out of its bounds in two cases only:   *)
(* at the first failure when it is empty, and at the one that follows the  *)
(* wrap of the counter, which needs a negative maximum.                    *)
(***************************************************************************)
WaitsInOrder ==
  \A c \in Calls :
    /\ pc[c] = "waiting" =>
         CASE dispatcher.provider = "single" -> wait[c] = 0
           [] dispatcher.provider = "array" ->
                wait[c] = (IF attempts[c] > dispatcher.length THEN dispatcher.length ELSE attempts[c]) - 1
           [] OTHER -> FALSE
    /\ pc[c] = "outOfRange" =>
         /\ dispatcher.provider = "array"
         /\ attempts[c] = IF dispatcher.length = 0 THEN 1 ELSE IntMax + 2

\* A call ends, whatever its action does.
CallEnds == \A c \in Calls : <>(pc[c] \in Outcomes)
=============================================================================
