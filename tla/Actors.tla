------------------------------- MODULE Actors -------------------------------
(***************************************************************************)
(* Actors: ProxyFactory over the dispatcher managers that                  *)
(* ActorFactoryBuilder and ProxyFactoryBuilder give it, the calls that go  *)
(* through the proxies, the Send that a method of an actor may make on the *)
(* SynchronizationContext of another one, and the disposal of the factory, *)
(* at any moment.                                                          *)
(*                                                                         *)
(* A fiber is what its users see of it (MonoThreadFiber and the queue have *)
(* the details): a check of the token and a push for a fiber with a        *)
(* thread, a single step for the exclusive scheduler of a                  *)
(* TaskSchedulerFiber, which is external; on disposal the former cancels   *)
(* what is queued and the latter runs it.                                  *)
(*                                                                         *)
(* The managers: "standard", a fiber per actor (so is the one that takes   *)
(* threads of the pool); "task", a scheduler per actor; "shared", a fiber  *)
(* of the manager's; "owned" and "given", a fiber of the user's that the   *)
(* factory has to dispose of, or not.                                      *)
(***************************************************************************)
EXTENDS Naturals, Sequences, FiniteSets, SequencesExt

CONSTANTS
  ActorSet,
  Calls,           \* calls through a proxy
  Target,          \* the actor of each call
  Sendings,        \* to which actors the calls may Send: functions, None for not at all
  Common,          \* the one fiber of "shared", "owned" and "given"
  None

ASSUME ActorsAssumption == /\ Target \in [Calls -> ActorSet]
                           /\ Sendings \subseteq [Calls -> ActorSet \cup {None}]
                           /\ Common \notin ActorSet

\* What goes through a fiber: the call of a method, the Send that it makes, the
\* construction that BuildAsync asks for.
Frames == (Calls \X {"call", "send"}) \cup (ActorSet \X {"create"})

VARIABLES
  manager,
  sends,           \* the actor to whose fiber the method of each call Sends, or None
  built,           \* of each actor: "new", "got" (its dispatcher), "added", "built"
  disposables,     \* the ConcurrentQueue of _ComposableAsyncDisposable
  factory,         \* "open", "disposing", "waiting", "disposed"
  snapshot,        \* what ToArray returned and is not disposed of yet
  early,           \* history: the actors added when ToArray was called
  place,           \* of each frame
  queue, current,  \* of each fiber: the frames in line, the one on its thread
  stopping, ended  \* the fibers that were told to stop, those that have

factoryVars == <<manager, sends, built, disposables, factory, snapshot, early>>
fiberVars == <<place, queue, current, stopping, ended>>
vars == <<factoryVars, fiberVars>>

Fibers == ActorSet \cup {Common}

FiberOf(a) == IF manager \in {"standard", "task"} THEN a ELSE Common

DisposeDispatcher == manager \in {"standard", "task", "owned"}

\* DisposeAsync of the manager stops its fiber.
ManagerDisposes == manager \in {"shared", "owned"}

Threaded == manager # "task"

Init ==
  /\ manager \in {"standard", "task", "shared", "owned", "given"}
  /\ sends \in Sendings
  /\ built = [a \in ActorSet |-> "new"]
  /\ disposables = IF ManagerDisposes THEN <<Common>> ELSE <<>>
  /\ factory = "open"
  /\ snapshot = <<>>
  /\ early = {}
  /\ place = [frame \in Frames |-> "new"]
  /\ queue = [f \in Fibers |-> <<>>]
  /\ current = [f \in Fibers |-> None]
  /\ stopping = {}
  /\ ended = {}

----------------------------------------------------------------------------
(* Enqueue *)

Goes(frame, to) == place' = [place EXCEPT ![frame] = to]

\* A refused Enqueue returns a cancelled task.
CallFiber(frame, f) ==
  IF f \in stopping THEN Goes(frame, "canceled") /\ UNCHANGED queue
  ELSE IF Threaded THEN Goes(frame, "checked") /\ UNCHANGED queue
  ELSE Goes(frame, "queued") /\ queue' = [queue EXCEPT ![f] = Append(@, frame)]

FiberOfFrame(frame) ==
  FiberOf(CASE frame[2] = "call" -> Target[frame[1]]
            [] frame[2] = "send" -> sends[frame[1]]
            [] frame[2] = "create" -> frame[1])

\* Nothing holds the caller between the check of the token and the push.
Push(frame) ==
  /\ place[frame] = "checked"
  /\ Goes(frame, "queued")
  /\ queue' = [queue EXCEPT ![FiberOfFrame(frame)] = Append(@, frame)]
  /\ UNCHANGED <<factoryVars, current, stopping, ended>>

----------------------------------------------------------------------------
(* ProxyFactory *)

GetDispatcher(a) ==
  /\ built[a] = "new"
  /\ built' = [built EXCEPT ![a] = "got"]
  /\ UNCHANGED <<manager, sends, disposables, factory, snapshot, early, fiberVars>>

\* Build is over with this; BuildAsync goes on with CreateOnFiber.
AddDispatcher(a) ==
  /\ built[a] = "got"
  /\ disposables' = IF DisposeDispatcher THEN Append(disposables, FiberOf(a)) ELSE disposables
  /\ \E next \in {"added", "built"} : built' = [built EXCEPT ![a] = next]
  /\ UNCHANGED <<manager, sends, factory, snapshot, early, fiberVars>>

CreateOnFiber(a) ==
  /\ built[a] = "added"
  /\ place[<<a, "create">>] = "new"
  /\ CallFiber(<<a, "create">>, FiberOf(a))
  /\ UNCHANGED <<factoryVars, current, stopping, ended>>

Call(c) ==
  /\ built[Target[c]] = "built"
  /\ place[<<c, "call">>] = "new"
  /\ CallFiber(<<c, "call">>, FiberOf(Target[c]))
  /\ UNCHANGED <<factoryVars, current, stopping, ended>>

\* DisposeAsync: ToArray, then DisposeAsync of each, then WhenAll.
DisposeAsync ==
  /\ factory = "open"
  /\ factory' = "disposing"
  /\ snapshot' = disposables
  /\ early' = {a \in ActorSet : built[a] \notin {"new", "got"}}
  /\ UNCHANGED <<manager, sends, built, disposables, fiberVars>>

\* A dispatcher that was added more than once is told so more than once.
DisposeNext ==
  /\ factory = "disposing"
  /\ IF snapshot = <<>>
       THEN factory' = "waiting" /\ UNCHANGED <<snapshot, stopping>>
       ELSE /\ snapshot' = Tail(snapshot)
            /\ stopping' = stopping \cup {Head(snapshot)}
            /\ UNCHANGED factory
  /\ UNCHANGED <<manager, sends, built, disposables, early, place, queue, current, ended>>

\* Faulty variant: WhenAny.
AllDisposedAny ==
  /\ factory = "waiting"
  /\ stopping = {} \/ stopping \cap ended # {}
  /\ factory' = "disposed"
  /\ UNCHANGED <<manager, sends, built, disposables, snapshot, early, fiberVars>>

AllDisposed ==
  /\ factory = "waiting"
  /\ stopping \subseteq ended
  /\ factory' = "disposed"
  /\ UNCHANGED <<manager, sends, built, disposables, snapshot, early, fiberVars>>

----------------------------------------------------------------------------
(* The fibers *)

Serve(f) ==
  /\ current[f] = None /\ f \notin ended /\ queue[f] # <<>>
  /\ current' = [current EXCEPT ![f] = Head(queue[f])]
  /\ queue' = [queue EXCEPT ![f] = Tail(@)]
  /\ Goes(Head(queue[f]), "running")
  /\ UNCHANGED <<factoryVars, stopping, ended>>

\* Faulty variant: Send always goes through the queue, from its own thread too.
SendQueued(c) ==
  LET f == FiberOf(Target[c])
      frame == <<c, "send">>
  IN  /\ current[f] = <<c, "call">>
      /\ sends[c] # None /\ place[frame] = "new"
      /\ CallFiber(frame, FiberOf(sends[c]))
      /\ UNCHANGED <<factoryVars, current, stopping, ended>>

\* SynchronizationContext.Send: in place when the thread is already the fiber's,
\* otherwise Enqueue(action).Wait().
Send(c) ==
  LET f == FiberOf(Target[c])
      frame == <<c, "send">>
  IN  /\ current[f] = <<c, "call">>
      /\ sends[c] # None /\ place[frame] = "new"
      /\ IF FiberOf(sends[c]) = f
           THEN Goes(frame, "done") /\ UNCHANGED queue
           ELSE CallFiber(frame, FiberOf(sends[c]))
      /\ UNCHANGED <<factoryVars, current, stopping, ended>>

SentAndBack(c) == sends[c] = None \/ place[<<c, "send">>] \in {"done", "canceled"}

Return(f) ==
  LET frame == current[f]
  IN  /\ frame # None
      /\ frame[2] = "call" => SentAndBack(frame[1])
      /\ Goes(frame, "done")
      /\ current' = [current EXCEPT ![f] = None]
      /\ built' = IF frame[2] = "create" THEN [built EXCEPT ![frame[1]] = "built"] ELSE built
      /\ UNCHANGED <<manager, sends, disposables, factory, snapshot, early, queue, stopping, ended>>

\* The thread leaves its loop and cancels what is queued; the scheduler is
\* complete when it has run what was queued.
End(f) ==
  /\ f \in stopping \ ended
  /\ current[f] = None
  /\ Threaded \/ queue[f] = <<>>
  /\ ended' = ended \cup {f}
  /\ place' = [frame \in Frames |-> IF Contains(queue[f], frame) THEN "canceled" ELSE place[frame]]
  /\ queue' = [queue EXCEPT ![f] = <<>>]
  /\ UNCHANGED <<factoryVars, current, stopping>>

----------------------------------------------------------------------------

BuildStep(a) == AddDispatcher(a) \/ CreateOnFiber(a)

FiberStep(f) == Serve(f) \/ Return(f) \/ End(f)

FactoryStep == DisposeNext \/ AllDisposed

Next ==
  \/ \E a \in ActorSet : GetDispatcher(a) \/ BuildStep(a)
  \/ \E c \in Calls : Call(c) \/ Send(c)
  \/ \E frame \in Frames : Push(frame)
  \/ \E f \in Fibers : FiberStep(f)
  \/ DisposeAsync \/ FactoryStep

Spec == Init /\ [][Next]_vars

\* The threads run, and methods return from what they do not Send.
Fairness ==
  /\ \A a \in ActorSet : WF_vars(BuildStep(a))
  /\ \A c \in Calls : WF_vars(Send(c))
  /\ \A frame \in Frames : WF_vars(Push(frame))
  /\ \A f \in Fibers : WF_vars(FiberStep(f))
  /\ WF_vars(FactoryStep)

FairSpec == Spec /\ Fairness

----------------------------------------------------------------------------
(* Properties                                                              *)

\* The Sends go one way between the fibers: no two of them wait for each other.
Ordered ==
  \E rank \in [ActorSet -> 1 .. Cardinality(ActorSet)] :
    \A c \in Calls :
      sends[c] # None /\ FiberOf(sends[c]) # FiberOf(Target[c]) => rank[Target[c]] < rank[sends[c]]

\* Pushed to a fiber that had ended: nobody will run it, and nobody cancels it.
Lost(frame) == place[frame] = "queued" /\ FiberOfFrame(frame) \in ended

(***************************************************************************)
(* A method that Sends returns, whatever is disposed of meanwhile, if the  *)
(* Sends go one way; on one fiber, they may go both ways.  The exception   *)
(* is a Send whose fiber came to its end between the check and the push.   *)
(***************************************************************************)
SendsReturn ==
  \A c \in Calls :
    Ordered /\ place[<<c, "call">>] = "running" ~>
      place[<<c, "call">>] = "done" \/ Lost(<<c, "send">>)

(***************************************************************************)
(* Once DisposeAsync is through, the fibers of the actors that were added  *)
(* before it have ended and run nothing, save the one that the user keeps, *)
(* which no disposal touches.  Of a Build that overlaps nothing is said:   *)
(* its fiber is not in the snapshot, and lives on.                         *)
(***************************************************************************)
DisposedIsQuiet ==
  /\ manager = "given" => stopping = {}
  /\ factory = "disposed" /\ manager # "given" =>
       \A a \in early : FiberOf(a) \in ended /\ current[FiberOf(a)] = None

(***************************************************************************)
(* DisposeAsync of the factory completes, whatever runs or is queued, when *)
(* the Sends go one way and none of them was lost.                         *)
(***************************************************************************)
DisposalEnds ==
  Ordered /\ factory = "disposing" ~>
    factory = "disposed" \/ \E c \in Calls : Lost(<<c, "send">>)
=============================================================================
