--------------------------- MODULE DisposalProofs ---------------------------
(***************************************************************************)
(* Disposal against what is under way: of a factory, for any number of     *)
(* actors and of calls, under every manager; and of a back bone, whose     *)
(* variables and specification are its own, for any number of sources and  *)
(* of messages.                                                            *)
(***************************************************************************)
EXTENDS Actors, BackBone, TLAPS

-----------------------------------------------------------------------------
(* The factory                                                             *)

\* A fiber that has ended was told to, and has nothing on its thread.
FiberInv ==
  /\ DOMAIN current = Fibers
  /\ stopping \subseteq Fibers
  /\ ended \subseteq stopping
  /\ \A f \in ended : current[f] = None

\* Whose fiber is in the bag.
Kept(a) == \E i \in 1 .. Len(disposables) : disposables[i] = FiberOf(a)

BagInv ==
  /\ manager \in {"standard", "task", "shared", "owned", "given"}
  /\ built \in [ActorSet -> {"new", "got", "added", "built"}]
  /\ disposables \in Seq(Fibers)
  /\ manager = "given" => disposables = <<>>
  /\ ManagerDisposes => \E i \in 1 .. Len(disposables) : disposables[i] = Common
  /\ manager # "given" => \A a \in ActorSet : built[a] \notin {"new", "got"} => Kept(a)

\* DisposeAsync of the factory has told the fiber, or is about to.
Reached(a) ==
  \/ FiberOf(a) \in stopping
  \/ \E i \in 1 .. Len(snapshot) : snapshot[i] = FiberOf(a)

DisposalInv ==
  /\ factory \in {"open", "disposing", "waiting", "disposed"}
  /\ snapshot \in Seq(Fibers)
  /\ early \subseteq ActorSet
  /\ factory = "open" => early = {}
  /\ factory # "disposing" => snapshot = <<>>
  /\ manager = "given" => stopping = {} /\ snapshot = <<>>
  /\ manager # "given" => \A a \in early : Reached(a)
  /\ factory = "disposed" => stopping \subseteq ended

Known(frame) == frame \in Frames /\ place[frame] # "new"

\* What is in line or on a thread was enqueued, and an actor whose construction
\* was enqueued has its dispatcher in the bag.
PlaceInv ==
  /\ DOMAIN place = Frames
  /\ queue \in [Fibers -> Seq(Frames)]
  /\ \A f \in Fibers : \A i \in 1 .. Len(queue[f]) : Known(queue[f][i])
  /\ \A f \in Fibers : current[f] # None => Known(current[f])
  /\ \A a \in ActorSet : Known(<<a, "create">>) => built[a] \notin {"new", "got"}

IInv == FiberInv /\ BagInv /\ DisposalInv /\ PlaceInv

-----------------------------------------------------------------------------
LEMMA InitIInv == Init => IInv
<1> SUFFICES ASSUME Init PROVE IInv
  OBVIOUS
<1>1. FiberInv
  BY DEF Init, FiberInv
<1>2. BagInv
  <2>1. disposables \in Seq(Fibers)
    <3>1. Common \in Fibers
      BY DEF Fibers
    <3>2. CASE ManagerDisposes
      BY <3>1, <3>2 DEF Init
    <3>3. CASE ~ManagerDisposes
      BY <3>3 DEF Init
    <3> QED
      BY <3>2, <3>3
  <2>2. ManagerDisposes => \E i \in 1 .. Len(disposables) : disposables[i] = Common
    <3>1. SUFFICES ASSUME ManagerDisposes PROVE disposables = <<Common>>
      BY <3>1
    <3> QED
      BY <3>1 DEF Init
  <2> QED
    BY <2>1, <2>2 DEF Init, BagInv, ManagerDisposes
<1>3. DisposalInv
  BY DEF Init, DisposalInv
<1>4. PlaceInv
  BY DEF Init, PlaceInv, Known
<1> QED
  BY <1>1, <1>2, <1>3, <1>4 DEF IInv

\* A fiber that has ended takes nothing, and one that ends has nothing on its thread.
LEMMA FiberStepInv == IInv /\ [Next]_vars => FiberInv'
<1> SUFFICES ASSUME FiberInv, DisposalInv, [Next]_vars PROVE FiberInv'
  BY DEF IInv
<1> USE DEF FiberInv
<1>1. ASSUME UNCHANGED <<current, stopping, ended>> PROVE FiberInv'
  BY <1>1
<1>2. ASSUME NEW f \in Fibers, FiberStep(f) PROVE FiberInv'
  <2>1. CASE Serve(f)
    BY <2>1 DEF Serve
  <2>2. CASE Return(f)
    BY <2>2 DEF Return
  <2>3. CASE End(f)
    BY <2>3 DEF End
  <2> QED
    BY <1>2, <2>1, <2>2, <2>3 DEF FiberStep
<1>3. CASE DisposeNext
  BY <1>3 DEF DisposeNext, DisposalInv
<1>4. ASSUME NEW a \in ActorSet, GetDispatcher(a) \/ BuildStep(a) PROVE FiberInv'
  BY <1>1, <1>4 DEF GetDispatcher, BuildStep, AddDispatcher, CreateOnFiber, fiberVars
<1>5. ASSUME NEW c \in Calls, Call(c) \/ Send(c) PROVE FiberInv'
  BY <1>1, <1>5 DEF Call, Send
<1>6. ASSUME NEW frame \in Frames, Push(frame) PROVE FiberInv'
  BY <1>1, <1>6 DEF Push
<1>7. CASE DisposeAsync \/ AllDisposed
  BY <1>1, <1>7 DEF DisposeAsync, AllDisposed, fiberVars
<1>8. CASE UNCHANGED vars
  BY <1>1, <1>8 DEF vars, fiberVars
<1> QED
  BY <1>2, <1>3, <1>4, <1>5, <1>6, <1>7, <1>8 DEF Next, FactoryStep

\* Building adds to the bag, and nothing is taken out of it.
LEMMA BagStep == IInv /\ [Next]_vars => BagInv'
<1> SUFFICES ASSUME BagInv, PlaceInv, [Next]_vars PROVE BagInv'
  BY DEF IInv
<1> USE DEF BagInv, Kept, ManagerDisposes
<1>1. ASSUME UNCHANGED <<manager, built, disposables>> PROVE BagInv'
  BY <1>1 DEF FiberOf
<1>2. ASSUME NEW a \in ActorSet, GetDispatcher(a) PROVE BagInv'
  BY <1>2 DEF GetDispatcher, FiberOf
<1>3. ASSUME NEW a \in ActorSet, AddDispatcher(a) PROVE BagInv'
  <2>1. CASE DisposeDispatcher
    <3>1. disposables' = Append(disposables, FiberOf(a)) /\ UNCHANGED manager
      BY <1>3, <2>1 DEF AddDispatcher
    <3>2. FiberOf(a) \in Fibers
      BY DEF FiberOf, Fibers
    <3>3. /\ disposables' \in Seq(Fibers) /\ Len(disposables') = Len(disposables) + 1
          /\ disposables'[Len(disposables) + 1] = FiberOf(a)
          /\ \A i \in 1 .. Len(disposables) : disposables'[i] = disposables[i]
      BY <3>1, <3>2
    <3>4. manager # "given"
      BY <2>1 DEF DisposeDispatcher
    <3>5. Kept(a)' /\ \A b \in ActorSet : Kept(b) => Kept(b)'
      BY <3>1, <3>3 DEF FiberOf
    <3>6. \A b \in ActorSet \ {a} : built'[b] = built[b]
      BY <1>3 DEF AddDispatcher
    <3>7. built' \in [ActorSet -> {"new", "got", "added", "built"}]
      BY <1>3 DEF AddDispatcher
    <3>8. ManagerDisposes' => \E i \in 1 .. Len(disposables') : disposables'[i] = Common
      BY <3>1, <3>3
    <3> HIDE DEF Kept, ManagerDisposes
    <3> QED
      BY <3>1, <3>3, <3>4, <3>5, <3>6, <3>7, <3>8
  <2>2. CASE ~DisposeDispatcher
    BY <1>3, <2>2 DEF AddDispatcher, DisposeDispatcher, FiberOf
  <2> QED
    BY <2>1, <2>2
<1>4. ASSUME NEW f \in Fibers, Return(f) PROVE BagInv'
  <2>1. CASE current[f][2] = "create"
    <3>1. PICK a \in ActorSet : current[f] = <<a, "create">>
      BY <1>4, <2>1 DEF Return, PlaceInv, Known, Frames
    <3>2. built[a] \notin {"new", "got"}
      BY <1>4, <3>1 DEF Return, PlaceInv
    <3>3. built' = [built EXCEPT ![a] = "built"] /\ UNCHANGED <<manager, disposables>>
      BY <1>4, <3>1 DEF Return
    <3> QED
      BY <3>2, <3>3 DEF FiberOf
  <2>2. CASE current[f][2] # "create"
    BY <1>1, <1>4, <2>2 DEF Return
  <2> QED
    BY <2>1, <2>2
<1>5. ASSUME NEW a \in ActorSet, CreateOnFiber(a) PROVE BagInv'
  BY <1>1, <1>5 DEF CreateOnFiber, factoryVars
<1>6. ASSUME NEW c \in Calls, Call(c) \/ Send(c) PROVE BagInv'
  BY <1>1, <1>6 DEF Call, Send, factoryVars
<1>7. ASSUME NEW frame \in Frames, Push(frame) PROVE BagInv'
  BY <1>1, <1>7 DEF Push, factoryVars
<1>8. ASSUME NEW f \in Fibers, Serve(f) \/ End(f) PROVE BagInv'
  BY <1>1, <1>8 DEF Serve, End, factoryVars
<1>9. CASE DisposeAsync \/ DisposeNext \/ AllDisposed
  BY <1>1, <1>9 DEF DisposeAsync, DisposeNext, AllDisposed
<1>10. CASE UNCHANGED vars
  BY <1>1, <1>10 DEF vars, factoryVars
<1> QED
  BY <1>2, <1>3, <1>4, <1>5, <1>6, <1>7, <1>8, <1>9, <1>10
  DEF Next, BuildStep, FiberStep, FactoryStep

\* A frame that was enqueued stays so, wherever it goes.
LEMMA PlaceStep == IInv /\ [Next]_vars => PlaceInv'
<1> SUFFICES ASSUME FiberInv, BagInv, PlaceInv, [Next]_vars PROVE PlaceInv'
  BY DEF IInv
<1> USE DEF PlaceInv, Known
<1>1. ASSUME UNCHANGED <<place, queue, current, built>> PROVE PlaceInv'
  BY <1>1
\* A frame is enqueued somewhere: on its place and at the end of one queue.
<1>2. ASSUME NEW frame \in Frames, NEW f, NEW to,
             Goes(frame, to), to # "new", UNCHANGED <<current, built>>,
             queue' = queue \/ queue' = [queue EXCEPT ![f] = Append(@, frame)],
             \A a \in ActorSet : frame = <<a, "create">> => built[a] \notin {"new", "got"}
      PROVE  PlaceInv'
  <2>1. DOMAIN place' = Frames /\ place'[frame] = to
        /\ \A other \in Frames \ {frame} : place'[other] = place[other]
    BY <1>2 DEF Goes
  <2>2. /\ queue' \in [Fibers -> Seq(Frames)]
        /\ \A g \in Fibers : \A i \in 1 .. Len(queue'[g]) :
             queue'[g][i] = frame \/ (i \in 1 .. Len(queue[g]) /\ queue'[g][i] = queue[g][i])
    <3>1. CASE queue' = queue
      BY <3>1
    <3>2. CASE queue' = [queue EXCEPT ![f] = Append(@, frame)]
      <4>1. CASE f \in Fibers
        BY <3>2, <4>1
      <4>2. CASE f \notin Fibers
        BY <3>1, <3>2, <4>2
      <4> QED
        BY <4>1, <4>2
    <3> QED
      BY <1>2, <3>1, <3>2
  <2> QED
    BY <1>2, <2>1, <2>2
<1>3. ASSUME NEW frame \in Frames, NEW f, CallFiber(frame, f), UNCHANGED <<current, built>>,
             \A a \in ActorSet : frame = <<a, "create">> => built[a] \notin {"new", "got"}
      PROVE  PlaceInv'
  <2>1. CASE f \in stopping
    BY <1>2, <1>3, <2>1 DEF CallFiber
  <2>2. CASE f \notin stopping /\ Threaded
    BY <1>2, <1>3, <2>2 DEF CallFiber
  <2>3. CASE f \notin stopping /\ ~Threaded
    BY <1>2, <1>3, <2>3 DEF CallFiber
  <2> QED
    BY <2>1, <2>2, <2>3
<1>4. ASSUME NEW frame \in Frames, Push(frame) PROVE PlaceInv'
  <2>1. /\ Goes(frame, "queued") /\ UNCHANGED <<current, built>>
        /\ queue' = [queue EXCEPT ![FiberOfFrame(frame)] = Append(@, frame)]
    BY <1>4 DEF Push, factoryVars
  <2>2. \A a \in ActorSet : frame = <<a, "create">> => built[a] \notin {"new", "got"}
    BY <1>4 DEF Push
  <2> QED
    BY <1>2, <2>1, <2>2
<1>5. ASSUME NEW a \in ActorSet, GetDispatcher(a) \/ BuildStep(a) PROVE PlaceInv'
  <2>1. CASE GetDispatcher(a) \/ AddDispatcher(a)
    BY <1>5, <2>1 DEF GetDispatcher, AddDispatcher, fiberVars, BagInv
  <2>2. CASE CreateOnFiber(a)
    <3>1. <<a, "create">> \in Frames
      BY DEF Frames
    <3>2. \A b \in ActorSet : <<a, "create">> = <<b, "create">> => built[b] \notin {"new", "got"}
      BY <2>2 DEF CreateOnFiber
    <3> QED
      BY <1>3, <2>2, <3>1, <3>2 DEF CreateOnFiber, factoryVars
  <2> QED
    BY <1>5, <2>1, <2>2 DEF BuildStep
<1>6. ASSUME NEW c \in Calls, Call(c) \/ Send(c) PROVE PlaceInv'
  <2>1. \A part \in {"call", "send"} : <<c, part>> \in Frames
    BY DEF Frames
  <2>2. \A part \in {"call", "send"} : \A a \in ActorSet : <<c, part>> # <<a, "create">>
    OBVIOUS
  <2>3. CASE Call(c)
    BY <1>3, <2>1, <2>2, <2>3 DEF Call, factoryVars
  <2>4. CASE Send(c)
    <3>1. CASE FiberOf(sends[c]) = FiberOf(Target[c])
      BY <1>2, <2>1, <2>2, <2>4, <3>1 DEF Send, factoryVars
    <3>2. CASE FiberOf(sends[c]) # FiberOf(Target[c])
      BY <1>3, <2>1, <2>2, <2>4, <3>2 DEF Send, factoryVars
    <3> QED
      BY <3>1, <3>2
  <2> QED
    BY <1>6, <2>3, <2>4
<1>7. ASSUME NEW f \in Fibers, Serve(f) PROVE PlaceInv'
  <2>1. /\ queue[f] \in Seq(Frames) /\ queue[f] # <<>>
        /\ current' = [current EXCEPT ![f] = Head(queue[f])]
        /\ queue' = [queue EXCEPT ![f] = Tail(@)]
        /\ place' = [place EXCEPT ![Head(queue[f])] = "running"]
        /\ UNCHANGED built
    BY <1>7 DEF Serve, Goes, factoryVars
  <2>2. Head(queue[f]) = queue[f][1] /\ Known(queue[f][1])
    BY <2>1
  <2>3. /\ Tail(queue[f]) \in Seq(Frames)
        /\ \A i \in 1 .. Len(Tail(queue[f])) : Known(Tail(queue[f])[i])
    BY <2>1
  <2>4. \A frame \in Frames : Known(frame)' <=> Known(frame)
    BY <2>1, <2>2
  <2>5. DOMAIN place' = Frames /\ queue' \in [Fibers -> Seq(Frames)]
    BY <2>1, <2>3
  <2>6. \A g \in Fibers : current'[g] # None => Known(current'[g])
    BY <2>1, <2>2 DEF FiberInv
  <2>7. \A g \in Fibers : \A i \in 1 .. Len(queue'[g]) : Known(queue'[g][i])
    BY <2>1, <2>3
  <2> HIDE DEF Known
  <2>8. \A a \in ActorSet : <<a, "create">> \in Frames
    BY DEF Frames
  <2>9. \A frame : Known(frame) => Known(frame)'
    BY <2>4 DEF Known
  <2> QED
    BY <2>1, <2>4, <2>5, <2>6, <2>7, <2>8, <2>9
<1>8. ASSUME NEW f \in Fibers, Return(f) PROVE PlaceInv'
  <2>1. /\ Known(current[f]) /\ UNCHANGED queue
        /\ place' = [place EXCEPT ![current[f]] = "done"]
        /\ current' = [current EXCEPT ![f] = None]
    BY <1>8 DEF Return, Goes
  <2>2. \A a \in ActorSet : built[a] \notin {"new", "got"} => built'[a] \notin {"new", "got"}
    BY <1>8 DEF Return, BagInv
  <2> QED
    BY <2>1, <2>2 DEF FiberInv
<1>9. ASSUME NEW f \in Fibers, End(f) PROVE PlaceInv'
  <2>1. /\ queue' = [queue EXCEPT ![f] = <<>>] /\ UNCHANGED <<current, built>>
        /\ DOMAIN place' = Frames
        /\ \A frame \in Frames : place'[frame] = "canceled" \/ place'[frame] = place[frame]
    BY <1>9 DEF End, factoryVars
  <2>2. \A frame : Known(frame) => Known(frame)'
    BY <2>1
  <2>3. \A a \in ActorSet : Known(<<a, "create">>)' => Known(<<a, "create">>)
    BY <1>9 DEF End, Contains
  <2> QED
    BY <2>1, <2>2, <2>3
<1>10. CASE DisposeAsync \/ DisposeNext \/ AllDisposed
  BY <1>1, <1>10 DEF DisposeAsync, DisposeNext, AllDisposed, fiberVars
<1>11. CASE UNCHANGED vars
  BY <1>1, <1>11 DEF vars, factoryVars, fiberVars
<1> QED
  BY <1>4, <1>5, <1>6, <1>7, <1>8, <1>9, <1>10, <1>11 DEF Next, FiberStep, FactoryStep

\* What was in the bag when DisposeAsync began is told to stop, one after the other,
\* and told before anything is waited for.
LEMMA DisposalStep == IInv /\ [Next]_vars => DisposalInv'
<1> SUFFICES ASSUME BagInv, DisposalInv, FiberInv, [Next]_vars PROVE DisposalInv'
  BY DEF IInv
<1> USE DEF DisposalInv, Reached
<1>1. ASSUME UNCHANGED <<manager, factory, snapshot, early, stopping>>, ended \subseteq ended' PROVE DisposalInv'
  BY <1>1 DEF FiberOf
<1>2. CASE DisposeAsync
  BY <1>2 DEF DisposeAsync, BagInv, Kept, FiberOf, fiberVars
<1>3. CASE DisposeNext
  <2>1. CASE snapshot = <<>>
    BY <1>3, <2>1 DEF DisposeNext, FiberOf
  <2>2. CASE snapshot # <<>>
    <3>1. /\ snapshot' = Tail(snapshot) /\ stopping' = stopping \cup {Head(snapshot)}
          /\ UNCHANGED <<manager, factory, early, ended>> /\ factory = "disposing"
      BY <1>3, <2>2 DEF DisposeNext
    <3>2. /\ snapshot' \in Seq(Fibers)
          /\ \A i \in 1 .. Len(snapshot) :
               snapshot[i] = Head(snapshot)
                 \/ \E j \in 1 .. Len(snapshot') : snapshot'[j] = snapshot[i]
      <4>1. \A i \in 1 .. Len(snapshot) :
              i # 1 => i - 1 \in 1 .. Len(snapshot') /\ snapshot'[i - 1] = snapshot[i]
        BY <2>2, <3>1
      <4> QED
        BY <2>2, <3>1, <4>1
    <3>3. \A a \in early : Reached(a) => Reached(a)'
      BY <3>1, <3>2 DEF FiberOf
    <3> HIDE DEF Reached
    <3> QED
      BY <2>2, <3>1, <3>2, <3>3
  <2> QED
    BY <2>1, <2>2
<1>4. CASE AllDisposed
  BY <1>4 DEF AllDisposed, FiberOf, fiberVars
<1>5. ASSUME NEW f \in Fibers, FiberStep(f) PROVE DisposalInv'
  BY <1>1, <1>5 DEF FiberStep, Serve, Return, End, factoryVars
<1>6. ASSUME NEW a \in ActorSet, GetDispatcher(a) \/ BuildStep(a) PROVE DisposalInv'
  BY <1>1, <1>6 DEF GetDispatcher, BuildStep, AddDispatcher, CreateOnFiber, factoryVars, fiberVars
<1>7. ASSUME NEW c \in Calls, Call(c) \/ Send(c) PROVE DisposalInv'
  BY <1>1, <1>7 DEF Call, Send, factoryVars
<1>8. ASSUME NEW frame \in Frames, Push(frame) PROVE DisposalInv'
  BY <1>1, <1>8 DEF Push, factoryVars
<1>9. CASE UNCHANGED vars
  BY <1>1, <1>9 DEF vars, factoryVars, fiberVars
<1> QED
  BY <1>2, <1>3, <1>4, <1>5, <1>6, <1>7, <1>8, <1>9 DEF Next, FactoryStep

(***************************************************************************)
(* The inductive invariant of the factory and its fibers.                  *)
(***************************************************************************)
THEOREM Inductive == Spec => []IInv
<1>1. IInv /\ [Next]_vars => IInv'
  BY FiberStepInv, BagStep, PlaceStep, DisposalStep DEF IInv
<1> QED
  BY <1>1, InitIInv, PTL DEF Spec

(***************************************************************************)
(* Disposal is complete for whatever was built before it, and leaves alone *)
(* the fiber that the user keeps, under every manager.                     *)
(***************************************************************************)
THEOREM DisposalIsQuiet == Spec => []DisposedIsQuiet
<1>1. IInv => DisposedIsQuiet
  <2> SUFFICES ASSUME IInv PROVE DisposedIsQuiet
    OBVIOUS
  <2>1. manager = "given" => stopping = {}
    BY DEF IInv, DisposalInv
  <2>2. ASSUME factory = "disposed", manager # "given", NEW a \in early
        PROVE  FiberOf(a) \in ended /\ current[FiberOf(a)] = None
    <3>1. FiberOf(a) \in stopping
      BY <2>2 DEF IInv, DisposalInv, Reached
    <3> QED
      BY <2>2, <3>1 DEF IInv, DisposalInv, FiberInv
  <2> QED
    BY <2>1, <2>2 DEF DisposedIsQuiet
<1> QED
  BY <1>1, Inductive, PTL

-----------------------------------------------------------------------------
(* The back bone                                                           *)

ConnectType ==
  /\ connect \in [Sources -> {"new", "refused", "checked", "subscribed", "added"}]
  /\ subscribed \subseteq Sources
  /\ composite \in {"none", "live", "disposed"}
  /\ dispose \in {"no", "looked", "done"}
  /\ missed \in BOOLEAN

\* The composite is there when something was added to it, and is disposed of once
\* Dispose has found it.
CompositeInv ==
  /\ composite = "none" => Added = {}
  /\ composite = "disposed" => dispose # "no"
  /\ dispose # "no" => missed \/ composite = "disposed"

BackBoneInv == ConnectType /\ CompositeInv /\ DisposedIsDisconnected

LEMMA InitBackBoneInv == InitBackBone => BackBoneInv
<1> SUFFICES ASSUME InitBackBone PROVE BackBoneInv
  OBVIOUS
<1>1. Added = {} /\ ConnectType
  BY DEF InitBackBone, Added, ConnectType
<1>2. CompositeInv /\ DisposedIsDisconnected
  BY <1>1 DEF InitBackBone, CompositeInv, DisposedIsDisconnected
<1> QED
  BY <1>1, <1>2 DEF BackBoneInv

LEMMA NextBackBoneInv == BackBoneInv /\ [BackBoneNext]_backBoneVars => BackBoneInv'
<1> SUFFICES ASSUME BackBoneInv, [BackBoneNext]_backBoneVars PROVE BackBoneInv'
  OBVIOUS
<1> USE DEF BackBoneInv, ConnectType, CompositeInv, DisposedIsDisconnected, Added, Connects
<1>1. ASSUME NEW s \in Sources, CheckCancelled(s) PROVE BackBoneInv'
  BY <1>1 DEF CheckCancelled
<1>2. ASSUME NEW s \in Sources, Subscribe(s) PROVE BackBoneInv'
  BY <1>2 DEF Subscribe
<1>3. ASSUME NEW s \in Sources, Add(s) PROVE BackBoneInv'
  BY <1>3 DEF Add
<1>4. ASSUME NEW s \in Sources, Unsubscribe(s) PROVE BackBoneInv'
  BY <1>4 DEF Unsubscribe
<1>5. CASE DisposeComposite
  BY <1>5 DEF DisposeComposite
<1>6. CASE Cancel
  BY <1>6 DEF Cancel, connectVars
<1>7. ASSUME NEW m \in Messages, Receive(m) \/ ProcessStep(m) \/ RequestCancel(m)
      PROVE  UNCHANGED <<connectVars, dispose, missed>>
  BY <1>7 DEF Receive, ProcessStep, CheckProcess, CheckAdapter, ProcessorEnds, RequestCancel
<1>8. CASE UNCHANGED <<connectVars, dispose, missed>>
  BY <1>8 DEF connectVars
<1>9. CASE UNCHANGED backBoneVars
  BY <1>9 DEF backBoneVars
<1> QED
  BY <1>1, <1>2, <1>3, <1>4, <1>5, <1>6, <1>7, <1>8, <1>9 DEF BackBoneNext, ConnectStep

(***************************************************************************)
(* However many sources are connected and however their Connect overlaps   *)
(* Dispose, one that survives was added to a composite that Dispose had    *)
(* not found: a first connection.                                          *)
(***************************************************************************)
THEOREM DisposalDisconnects == BackBoneSpec => []DisposedIsDisconnected
<1>1. BackBoneInv => DisposedIsDisconnected
  BY DEF BackBoneInv
<1>2. QED
  BY <1>1, InitBackBoneInv, NextBackBoneInv, PTL DEF BackBoneSpec

-----------------------------------------------------------------------------
(* Messages that are cancelled                                             *)

OnTheWay == {"received", "toTransform", "transforming", "transformed", "handedOn", "toFinalize"}

Failed == {"thrown", "unhandled"}

MessageType ==
  /\ stage \in [Messages -> OnTheWay \cup Failed \cup {"new", "finalizing", "result"}]
  /\ token \in [Messages -> {"live", "requested"}]

LEMMA NextMessageType == MessageType /\ [BackBoneNext]_backBoneVars => MessageType'
<1> SUFFICES ASSUME MessageType, [BackBoneNext]_backBoneVars PROVE MessageType'
  OBVIOUS
<1> USE DEF MessageType, Moves, Throws, Checks, OnTheWay, Failed
<1>1. ASSUME NEW m \in Messages, Receive(m) PROVE MessageType'
  BY <1>1 DEF Receive
<1>2. ASSUME NEW m \in Messages, CheckProcess(m) PROVE MessageType'
  BY <1>2 DEF CheckProcess
<1>3. ASSUME NEW m \in Messages, CheckAdapter(m) PROVE MessageType'
  BY <1>3 DEF CheckAdapter
<1>4. ASSUME NEW m \in Messages, ProcessorEnds(m) PROVE MessageType'
  BY <1>4 DEF ProcessorEnds
<1>5. ASSUME NEW m \in Messages, RequestCancel(m) PROVE MessageType'
  BY <1>5 DEF RequestCancel
<1>6. ASSUME NEW s \in Sources, CheckCancelled(s) \/ ConnectStep(s) \/ Unsubscribe(s)
      PROVE  UNCHANGED messageVars
  BY <1>6 DEF CheckCancelled, ConnectStep, Subscribe, Add, Unsubscribe
<1>7. DisposeComposite \/ Cancel => UNCHANGED messageVars
  BY DEF DisposeComposite, Cancel
<1>8. CASE UNCHANGED messageVars
  BY <1>8 DEF messageVars
<1>9. CASE UNCHANGED backBoneVars
  BY <1>9 DEF backBoneVars
<1> QED
  BY <1>1, <1>2, <1>3, <1>4, <1>5, <1>6, <1>7, <1>8, <1>9 DEF BackBoneNext, ProcessStep

\* A step of a message that is cancelled is one of its transformer, or throws.
LEMMA CancelledStep ==
  ASSUME MessageType, [BackBoneNext]_backBoneVars, NEW m \in Messages, Linked(m), stage[m] \in OnTheWay
  PROVE  Linked(m)' /\ stage'[m] \in OnTheWay \cup Failed
<1> USE DEF MessageType, Moves, Throws, Checks, Linked, Cancelled
<1>1. ASSUME NEW n \in Messages, Receive(n) PROVE Linked(m)' /\ stage'[m] \in OnTheWay \cup Failed
  BY <1>1 DEF Receive, OnTheWay, connectVars
<1>2. ASSUME NEW n \in Messages, CheckProcess(n) PROVE Linked(m)' /\ stage'[m] \in OnTheWay \cup Failed
  BY <1>2 DEF CheckProcess, OnTheWay, Failed
<1>3. ASSUME NEW n \in Messages, CheckAdapter(n) PROVE Linked(m)' /\ stage'[m] \in OnTheWay \cup Failed
  BY <1>3 DEF CheckAdapter, OnTheWay, Failed
<1>4. ASSUME NEW n \in Messages, ProcessorEnds(n) PROVE Linked(m)' /\ stage'[m] \in OnTheWay \cup Failed
  BY <1>4 DEF ProcessorEnds, OnTheWay, Failed
<1>5. ASSUME NEW n \in Messages, RequestCancel(n) PROVE Linked(m)' /\ stage'[m] \in OnTheWay \cup Failed
  BY <1>5 DEF RequestCancel
<1>6. ASSUME NEW s \in Sources, CheckCancelled(s) \/ ConnectStep(s) \/ Unsubscribe(s)
      PROVE  UNCHANGED <<dispose, messageVars>>
  BY <1>6 DEF CheckCancelled, ConnectStep, Subscribe, Add, Unsubscribe
<1>7. CASE UNCHANGED <<dispose, messageVars>>
  BY <1>7 DEF messageVars
<1>8. CASE DisposeComposite \/ Cancel
  BY <1>8 DEF DisposeComposite, Cancel, messageVars
<1>9. CASE UNCHANGED backBoneVars
  BY <1>9 DEF backBoneVars
<1> QED
  BY <1>1, <1>2, <1>3, <1>4, <1>5, <1>6, <1>7, <1>8, <1>9 DEF BackBoneNext, ProcessStep

(***************************************************************************)
(* A message whose token is cancelled, by its caller or by Dispose, before *)
(* its finalizer has begun stays cancelled and never gets to the finalizer *)
(* (the adapters look at the linked token before a transformer, after it   *)
(* and before the finalizer): it is on its way, or it has thrown.          *)
(***************************************************************************)
THEOREM CancelledGoesNoFurther ==
  BackBoneSpec => [][\A m \in Messages :
               Linked(m) /\ stage[m] \in OnTheWay =>
                 Linked(m)' /\ stage'[m] \in OnTheWay \cup Failed]_backBoneVars
<1>1. InitBackBone => MessageType
  BY DEF InitBackBone, MessageType
<1>2. MessageType /\ [BackBoneNext]_backBoneVars =>
        [\A m \in Messages :
           Linked(m) /\ stage[m] \in OnTheWay =>
             Linked(m)' /\ stage'[m] \in OnTheWay \cup Failed]_backBoneVars
  BY CancelledStep
<1> QED
  BY <1>1, <1>2, NextMessageType, PTL DEF BackBoneSpec
=============================================================================
