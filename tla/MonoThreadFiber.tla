-------------------------- MODULE MonoThreadFiber --------------------------
(***************************************************************************)
(* MonoThreadedFiber (ThreadPoolFiber is the same but for its thread) with *)
(* its work items: what callers of Dispatch, Enqueue and DisposeAsync and  *)
(* holders of cancellation tokens can see.  The queue between the callers  *)
(* and the consumer's thread is MpscFifo, which BlockingMpscQueue is shown *)
(* to implement, behind the check of the queue's own token.                *)
(*                                                                         *)
(* A work item goes through the queue as <<w, "start">>.  An asynchronous  *)
(* action that awaits leaves the thread, and what it awaited posts the     *)
(* rest of it on the fiber's SynchronizationContext: <<w, "resume">>, an   *)
(* ActionWorkItem whose own task nobody looks at.  An action awaits once   *)
(* at most (a bound of the model).                                         *)
(***************************************************************************)
EXTENDS Naturals, Sequences

CONSTANTS
  Works,           \* work items, one call of Dispatch or Enqueue each
  Dispatched,      \* DispatchItem: no task
  Killers,         \* dispatched actions that throw OperationCanceledException
  Async,           \* AsyncWorkItem and AsyncCancellableWorkItem
  Cancellable,     \* created with a cancellation token, one for each
  Null

ASSUME WorksAssumption ==
  /\ Dispatched \cup Async \cup Cancellable \subseteq Works
  /\ Killers \subseteq Dispatched
  /\ Dispatched \cap (Async \cup Cancellable) = {}

VARIABLES
  order, linked, served, taken, phase,   \* the queue: see MpscFifo
  stopping,        \* CompleteAdding was called
  call,            \* where the Enqueue of each queue item is
  task,            \* the state of the task that the caller holds
  token,           \* each work item's token: "live", then "requested"
  registered,      \* its registration is there and has not run
  code,            \* how far Do is with each work item
  current,         \* what the consumer's thread is doing
  ended            \* _EndFiber has its result

Items == Works \X {"start", "resume"}

ASSUME NullAssumption == Null \notin Items

Queue == INSTANCE MpscFifo

queueVars == <<order, linked, served, taken, phase>>
itemVars == <<task, token, registered, code>>
vars == <<queueVars, itemVars, stopping, call, current, ended>>

CallPlaces == {"new", "created", "checked", "pushed", "queued", "rejected"}
CodePlaces == {"idle", "skipped", "entered", "running", "suspended", "done"}
Outcomes == {"result", "faulted", "canceled"}

TypeOK ==
  /\ Queue!TypeOK
  /\ stopping \in BOOLEAN
  /\ call \in [Items -> CallPlaces]
  /\ task \in [Works -> {"none", "pending"} \cup Outcomes]
  /\ token \in [Works -> {"live", "requested"}]
  /\ registered \in [Works -> BOOLEAN]
  /\ code \in [Works -> CodePlaces]
  /\ current \in Items \cup {Null}
  /\ ended \in BOOLEAN

Init ==
  /\ Queue!Init
  /\ stopping = FALSE
  /\ call = [j \in Items |-> "new"]
  /\ task = [w \in Works |-> "none"]
  /\ token = [w \in Works |-> "live"]
  /\ registered = [w \in Works |-> FALSE]
  /\ code = [w \in Works |-> "idle"]
  /\ current = Null
  /\ ended = FALSE

CallGoes(j, from, to) == call[j] = from /\ call' = [call EXCEPT ![j] = to]

CodeGoes(w, from, to) == code[w] = from /\ code' = [code EXCEPT ![w] = to]

\* TrySetResult, TrySetException and TrySetCanceled: the first one wins.
TrySet(w, outcome) ==
  task' = [task EXCEPT ![w] = IF @ = "pending" THEN outcome ELSE @]

----------------------------------------------------------------------------
(* Dispatch and Enqueue                                                    *)

\* The constructor of the work item; Register runs Cancel at once when the
\* token is already cancelled.
Create(w) ==
  /\ CallGoes(<<w, "start">>, "new", "created")
  /\ task' = [task EXCEPT ![w] = CASE w \in Dispatched -> "none"
                                   [] token[w] = "requested" -> "canceled"
                                   [] OTHER -> "pending"]
  /\ registered' = [registered EXCEPT ![w] = w \in Cancellable /\ token[w] = "live"]
  /\ UNCHANGED <<queueVars, token, code, stopping, current, ended>>

\* The awaited operation completes and Post enqueues the rest of the action.
Awaited(w) ==
  /\ code[w] = "suspended"
  /\ CallGoes(<<w, "resume">>, "new", "created")
  /\ UNCHANGED <<queueVars, itemVars, stopping, current, ended>>

\* A rejected Enqueue returns Task.FromCanceled in place of the item's task;
\* a rejected Dispatch or Post says nothing.
CheckToken(j) ==
  /\ CallGoes(j, "created", IF stopping THEN "rejected" ELSE "checked")
  /\ task' = IF stopping /\ j[2] = "start" /\ j[1] \notin Dispatched
               THEN [task EXCEPT ![j[1]] = "canceled"]
               ELSE task
  /\ UNCHANGED <<queueVars, token, registered, code, stopping, current, ended>>

Push(j) ==
  /\ CallGoes(j, "checked", "pushed")
  /\ Queue!Push(j)
  /\ UNCHANGED <<itemVars, stopping, current, ended>>

Link(j) ==
  /\ CallGoes(j, "pushed", "queued")
  /\ Queue!Link(j)
  /\ UNCHANGED <<itemVars, stopping, current, ended>>

----------------------------------------------------------------------------
(* Cancellation tokens: the flag is set first, the callbacks run after.    *)

RequestCancel(w) ==
  /\ w \in Cancellable
  /\ token[w] = "live"
  /\ token' = [token EXCEPT ![w] = "requested"]
  /\ UNCHANGED <<queueVars, task, registered, code, stopping, call, current, ended>>

FireCallback(w) ==
  /\ token[w] = "requested"
  /\ registered[w]
  /\ registered' = [registered EXCEPT ![w] = FALSE]
  /\ TrySet(w, "canceled")
  /\ UNCHANGED <<queueVars, token, code, stopping, call, current, ended>>

----------------------------------------------------------------------------
(* The consumer's thread: OnElements(action => action.Do())                *)

Serve ==
  /\ current = Null
  /\ Queue!Serve
  /\ current' = order[taken + 1]
  /\ UNCHANGED <<itemVars, stopping, call, ended>>

\* CancellableWorkItem.Do returns without a word when the token is cancelled.
CheckCancelled(w) ==
  /\ current = <<w, "start">>
  /\ w \in Cancellable
  /\ IF token[w] = "requested"
       THEN CodeGoes(w, "idle", "skipped") /\ current' = Null
       ELSE CodeGoes(w, "idle", "entered") /\ UNCHANGED current
  /\ UNCHANGED <<queueVars, task, token, registered, stopping, call, ended>>

Unregister(w) ==
  /\ CodeGoes(w, "entered", "running")
  /\ registered' = [registered EXCEPT ![w] = FALSE]
  /\ UNCHANGED <<queueVars, task, token, stopping, call, current, ended>>

Start(w) ==
  /\ current = <<w, "start">>
  /\ w \notin Cancellable
  /\ CodeGoes(w, "idle", "running")
  /\ UNCHANGED <<queueVars, task, token, registered, stopping, call, current, ended>>

Suspend(w) ==
  /\ w \in Async
  /\ current = <<w, "start">>
  /\ CodeGoes(w, "running", "suspended")
  /\ current' = Null
  /\ UNCHANGED <<queueVars, task, token, registered, stopping, call, ended>>

Resume(w) ==
  /\ current = <<w, "resume">>
  /\ CodeGoes(w, "suspended", "running")
  /\ UNCHANGED <<queueVars, task, token, registered, stopping, call, current, ended>>

\* An asynchronous action that ends on its own cancelled token is cancelled;
\* any other exception, or a token of somebody else, faults the task.
OutcomesOf(w) ==
  IF w \in Async \cap Cancellable /\ token[w] = "requested"
    THEN Outcomes
    ELSE {"result", "faulted"}

\* Faulty variant: an exception of the action is swallowed.
FinishSwallows(w) ==
  /\ w \notin Killers
  /\ CodeGoes(w, "running", "done")
  /\ TrySet(w, "result") \/ UNCHANGED task
  /\ current' = Null
  /\ UNCHANGED <<queueVars, token, registered, stopping, call, ended>>

Finish(w) ==
  /\ w \notin Killers
  /\ CodeGoes(w, "running", "done")
  /\ \E outcome \in OutcomesOf(w) : TrySet(w, outcome)
  /\ current' = Null
  /\ UNCHANGED <<queueVars, token, registered, stopping, call, ended>>

----------------------------------------------------------------------------
(* The end of Consume                                                      *)

\* The exception of a dispatched action leaves OnElements as Wait's does.
Killed(w) ==
  /\ w \in Killers
  /\ CodeGoes(w, "running", "done")
  /\ Queue!Stop
  /\ current' = Null
  /\ UNCHANGED <<task, token, registered, stopping, call, ended>>

\* Faulty variant: the loop looks at its token only when an item is there.
LeaveLoopWithItem ==
  /\ stopping
  /\ current = Null
  /\ Queue!Visible
  /\ Queue!Stop
  /\ UNCHANGED <<itemVars, stopping, call, current, ended>>

LeaveLoop ==
  /\ stopping
  /\ current = Null
  /\ Queue!Stop
  /\ UNCHANGED <<itemVars, stopping, call, current, ended>>

\* Faulty variant: what is drained is forgotten.
CancelNextForgets ==
  /\ Queue!Drop
  /\ UNCHANGED <<itemVars, stopping, call, current, ended>>

\* Faulty variant: a drained continuation cancels the task of its action.
CancelNextOfBegun ==
  /\ Queue!Drop
  /\ TrySet(order[taken + 1][1], "canceled")
  /\ UNCHANGED <<token, registered, code, stopping, call, current, ended>>

\* Cancel() on a posted continuation only cancels the post's own task.
CancelNext ==
  /\ Queue!Drop
  /\ LET j == order[taken + 1]
     IN  IF j[2] = "start" THEN TrySet(j[1], "canceled") ELSE UNCHANGED task
  /\ UNCHANGED <<token, registered, code, stopping, call, current, ended>>

EndDrain ==
  /\ Queue!End
  /\ UNCHANGED <<itemVars, stopping, call, current, ended>>

EndFiber ==
  /\ phase = "ended"
  /\ ~ended
  /\ ended' = TRUE
  /\ UNCHANGED <<queueVars, itemVars, stopping, call, current>>

\* CompleteAdding throws, and DisposeAsync ignores it, once the queue has
\* disposed of its token source.
DisposeAsync ==
  /\ ~ended
  /\ ~stopping
  /\ stopping' = TRUE
  /\ UNCHANGED <<queueVars, itemVars, call, current, ended>>

----------------------------------------------------------------------------
DoStep(w) ==
  \/ CheckCancelled(w) \/ Unregister(w) \/ Start(w) \/ Suspend(w) \/ Resume(w)
  \/ Finish(w) \/ Killed(w)

ConsumerStep ==
  \/ \E w \in Works : DoStep(w)
  \/ Serve \/ LeaveLoop \/ CancelNext \/ EndDrain \/ EndFiber

CallStep(j) == CheckToken(j) \/ Push(j) \/ Link(j)

Next ==
  \/ ConsumerStep
  \/ \E j \in Items : CallStep(j)
  \/ \E w \in Works : Create(w) \/ Awaited(w) \/ RequestCancel(w) \/ FireCallback(w)
  \/ DisposeAsync

Spec == Init /\ [][Next]_vars

(***************************************************************************)
(* The consumer's thread runs, actions end, a call that has begun returns, *)
(* a cancelled source runs its callbacks and what an action awaits         *)
(* completes.  No call, no cancellation and no disposal has to happen.     *)
(***************************************************************************)
Fairness ==
  /\ WF_vars(ConsumerStep)
  /\ \A j \in Items : WF_vars(CallStep(j))
  /\ \A w \in Works : WF_vars(FireCallback(w)) /\ WF_vars(Awaited(w))

FairSpec == Spec /\ Fairness

----------------------------------------------------------------------------
(* Properties                                                              *)

Settled(w) == task[w] \in Outcomes

TakenFromQueue(w) == \E p \in 1 .. taken : order[p] = <<w, "start">>

(***************************************************************************)
(* A synchronous item that the consumer is through with, by running it or  *)
(* by draining it, has a settled task; the one exception is an item that   *)
(* Do skipped, whose token callback is bound to run.  In particular every  *)
(* item drained is settled before the task of DisposeAsync completes.      *)
(***************************************************************************)
TakenAreSettled ==
  \A w \in Works \ (Async \cup Dispatched) :
    TakenFromQueue(w) /\ current # <<w, "start">> =>
      \/ Settled(w)
      \/ code[w] = "skipped" /\ token[w] = "requested" /\ registered[w]

\* What runs when the fiber is disposed of goes on to its own outcome: unless its
\* own token says so, the task of an action that has begun is never cancelled.
DisposalSparesTheRunning ==
  \A w \in Works :
    code[w] \in {"running", "suspended", "done"} /\ token[w] = "live" => task[w] # "canceled"

\* Every task handed out is settled as long as the consumer is not stopped, by
\* DisposeAsync or by a dispatched action.
EnqueuedIsSettled ==
  \A w \in Works : task[w] = "pending" ~> Settled(w) \/ phase # "consuming"

\* DisposeAsync completes, whatever is queued or suspended at that moment.
DisposalEnds == stopping ~> ended

(***************************************************************************)
(* Expected by the tests, not kept by the code: see the findings.          *)
(***************************************************************************)

\* An asynchronous action that has begun settles its task.
BegunIsSettled == \A w \in Async : code[w] = "suspended" ~> Settled(w)
=============================================================================
