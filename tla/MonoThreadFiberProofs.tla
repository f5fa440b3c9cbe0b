------------------------ MODULE MonoThreadFiberProofs ------------------------
(***************************************************************************)
(* Safety of a fiber and of its work items, for any number of items of any *)
(* kind.                                                                   *)
(***************************************************************************)
EXTENDS MonoThreadFiber, TLAPS

\* Given to the callback of OnElements.
Begun(j) == \E p \in 1 .. served : order[p] = j

\* Drained.
Dropped(j) == \E p \in served + 1 .. taken : order[p] = j

\* An item is in the queue once, and the calls of Enqueue know of it; nothing is
\* drained as long as the consumer is in its loop.
QueueInv ==
  /\ \A p, q \in 1 .. Len(order) : order[p] = order[q] => p = q
  /\ \A p \in 1 .. Len(order) : call[order[p]] \in {"pushed", "queued"}
  /\ phase = "consuming" => served = taken

\* What the thread does, and what Do was called for, was given to the callback.
ThreadInv ==
  /\ current # Null => Begun(current)
  /\ \A w \in Works :
       /\ code[w] # "idle" => Begun(<<w, "start">>)
       /\ code[w] = "entered" => current = <<w, "start">>
       /\ code[w] = "running" => current \in {<<w, "start">>, <<w, "resume">>}

\* A work item has its task, and its registration unless that has done its part.
TaskInv ==
  \A w \in Works :
    /\ call[<<w, "start">>] # "new" /\ w \notin Dispatched => task[w] # "none"
    /\ /\ call[<<w, "start">>] # "new" /\ w \in Cancellable
       /\ code[w] \in {"idle", "entered", "skipped"}
       => registered[w] \/ Settled(w)
    /\ token[w] = "requested" => w \in Cancellable
    /\ code[w] = "skipped" => token[w] = "requested"

\* A task is cancelled by the token, by a rejected Enqueue, or by the drain.
CanceledInv ==
  \A w \in Works :
    task[w] = "canceled" =>
      \/ token[w] = "requested"
      \/ call[<<w, "start">>] = "rejected"
      \/ Dropped(<<w, "start">>)

IInv == TypeOK /\ QueueInv /\ ThreadInv /\ TaskInv /\ CanceledInv /\ TakenAreSettled

-----------------------------------------------------------------------------
(* Every action keeps the types. *)
LEMMA QueueStays == Queue!TypeOK /\ UNCHANGED queueVars => Queue!TypeOK'
  BY DEF Queue!TypeOK, Queue!Pushed, queueVars

LEMMA TypeStep == TypeOK /\ [Next]_vars => TypeOK'
<1> SUFFICES ASSUME TypeOK, [Next]_vars PROVE TypeOK'
  OBVIOUS
<1> USE DEF TypeOK, CallGoes, CodeGoes, TrySet, CallPlaces, CodePlaces, Outcomes, itemVars
<1>1. ASSUME NEW w \in Works, Create(w) PROVE TypeOK'
  BY <1>1, QueueStays DEF Create
<1>2. ASSUME NEW w \in Works, Awaited(w) PROVE TypeOK'
  BY <1>2, QueueStays DEF Awaited
<1>3. ASSUME NEW j \in Items, CheckToken(j) PROVE TypeOK'
  BY <1>3, QueueStays DEF CheckToken, Items
<1>4. ASSUME NEW j \in Items, Push(j) PROVE TypeOK'
  BY <1>4 DEF Push, Queue!Push, Queue!TypeOK, Queue!Pushed
<1>5. ASSUME NEW j \in Items, Link(j) PROVE TypeOK'
  BY <1>5 DEF Link, Queue!Link, Queue!TypeOK, Queue!Pushed
<1>6. ASSUME NEW w \in Works, RequestCancel(w) PROVE TypeOK'
  BY <1>6, QueueStays DEF RequestCancel
<1>7. ASSUME NEW w \in Works, FireCallback(w) PROVE TypeOK'
  BY <1>7, QueueStays DEF FireCallback
<1>8. CASE Serve
  BY <1>8 DEF Serve, Queue!Serve, Queue!Visible, Queue!TypeOK, Queue!Pushed
<1>9. ASSUME NEW w \in Works, CheckCancelled(w) PROVE TypeOK'
  BY <1>9, QueueStays DEF CheckCancelled
<1>10. ASSUME NEW w \in Works, Unregister(w) PROVE TypeOK'
  BY <1>10, QueueStays DEF Unregister
<1>11. ASSUME NEW w \in Works, Start(w) \/ Suspend(w) \/ Resume(w) PROVE TypeOK'
  BY <1>11, QueueStays DEF Start, Suspend, Resume
<1>12. ASSUME NEW w \in Works, Finish(w) PROVE TypeOK'
  BY <1>12, QueueStays DEF Finish, OutcomesOf
<1>13. ASSUME NEW w \in Works, Killed(w) PROVE TypeOK'
  BY <1>13 DEF Killed, Queue!Stop, Queue!TypeOK, Queue!Pushed
<1>14. CASE LeaveLoop
  BY <1>14 DEF LeaveLoop, Queue!Stop, Queue!TypeOK, Queue!Pushed
<1>15. CASE CancelNext
  BY <1>15 DEF CancelNext, Queue!Drop, Queue!Visible, Queue!TypeOK, Queue!Pushed
<1>16. CASE EndDrain
  BY <1>16 DEF EndDrain, Queue!End, Queue!TypeOK, Queue!Pushed
<1>17. CASE EndFiber \/ DisposeAsync
  BY <1>17, QueueStays DEF EndFiber, DisposeAsync
<1>18. CASE UNCHANGED vars
  BY <1>18, QueueStays DEF vars
<1> QED
  BY <1>1, <1>2, <1>3, <1>4, <1>5, <1>6, <1>7, <1>8, <1>9, <1>10, <1>11, <1>12, <1>13,
     <1>14, <1>15, <1>16, <1>17, <1>18
     DEF Next, ConsumerStep, DoStep, CallStep

-----------------------------------------------------------------------------
(* The queue.                                                              *)

\* The steps that touch it, and the others.
LEMMA QueueSteps ==
  ASSUME TypeOK, [Next]_vars
  PROVE  \/ \E j \in Items : Push(j) \/ Link(j)
         \/ Serve \/ (Queue!Stop /\ UNCHANGED call) \/ CancelNext \/ EndDrain
         \/ /\ UNCHANGED queueVars
            /\ \/ UNCHANGED call
               \/ \E j \in Items : call[j] \in {"new", "created"} /\ \E to \in CallPlaces :
                                    call' = [call EXCEPT ![j] = to]
<1> DEFINE Calls == \E j \in Items : call[j] \in {"new", "created"} /\ \E to \in CallPlaces :
                                        call' = [call EXCEPT ![j] = to]
<1>1. ASSUME NEW j \in Items, CheckToken(j) PROVE UNCHANGED queueVars /\ Calls
  BY <1>1 DEF CheckToken, CallGoes, CallPlaces
<1>2. ASSUME NEW w \in Works, Create(w) PROVE UNCHANGED queueVars /\ Calls
  <2>1. <<w, "start">> \in Items /\ "created" \in CallPlaces
    BY DEF Items, CallPlaces
  <2> QED
    BY <1>2, <2>1 DEF Create, CallGoes
<1>3. ASSUME NEW w \in Works, Awaited(w) PROVE UNCHANGED queueVars /\ Calls
  <2>1. <<w, "resume">> \in Items /\ "created" \in CallPlaces
    BY DEF Items, CallPlaces
  <2> QED
    BY <1>3, <2>1 DEF Awaited, CallGoes
<1>4. ASSUME NEW w \in Works, DoStep(w)
      PROVE  UNCHANGED call /\ (Queue!Stop \/ UNCHANGED queueVars)
  BY <1>4 DEF DoStep, CheckCancelled, Unregister, Start, Suspend, Resume, Finish, Killed
<1>5. ASSUME NEW w \in Works, RequestCancel(w) \/ FireCallback(w)
      PROVE  UNCHANGED call /\ UNCHANGED queueVars
  BY <1>5 DEF RequestCancel, FireCallback
<1>6. CASE LeaveLoop
  BY <1>6 DEF LeaveLoop
<1>7. CASE EndFiber \/ DisposeAsync \/ UNCHANGED vars
  BY <1>7 DEF EndFiber, DisposeAsync, vars
<1> QED
  <2>1. CASE ConsumerStep
    BY <2>1, <1>4, <1>6, <1>7 DEF ConsumerStep
  <2>2. ASSUME NEW j \in Items, CallStep(j)
         PROVE  Push(j) \/ Link(j) \/ (UNCHANGED queueVars /\ Calls)
    BY <2>2, <1>1 DEF CallStep
  <2>3. CASE \E j \in Items : CallStep(j)
    BY <2>2, <2>3
  <2>4. CASE \E w \in Works : Create(w) \/ Awaited(w) \/ RequestCancel(w) \/ FireCallback(w)
    BY <2>4, <1>2, <1>3, <1>5
  <2> QED
    BY <2>1, <2>3, <2>4, <1>7 DEF Next

LEMMA QueueStep == TypeOK /\ QueueInv /\ [Next]_vars => QueueInv'
<1> SUFFICES ASSUME TypeOK, QueueInv, [Next]_vars PROVE QueueInv'
  OBVIOUS
<1> USE DEF TypeOK, Queue!TypeOK, QueueInv
<1>1. ASSUME NEW j \in Items, Push(j) PROVE QueueInv'
  BY <1>1 DEF Push, Queue!Push, Queue!Pushed, CallGoes
<1>2. ASSUME NEW j \in Items, Link(j) PROVE QueueInv'
  BY <1>2 DEF Link, Queue!Link, CallGoes
<1>3. CASE Serve
  BY <1>3 DEF Serve, Queue!Serve, Queue!Visible
<1>4. CASE Queue!Stop /\ UNCHANGED call
  BY <1>4 DEF Queue!Stop
<1>5. CASE CancelNext
  BY <1>5 DEF CancelNext, Queue!Drop, Queue!Visible
<1>6. CASE EndDrain
  BY <1>6 DEF EndDrain, Queue!End
<1>7. ASSUME UNCHANGED queueVars,
             \/ UNCHANGED call
             \/ \E j \in Items : call[j] \in {"new", "created"} /\ \E to \in CallPlaces :
                                  call' = [call EXCEPT ![j] = to]
      PROVE  QueueInv'
  BY <1>7 DEF queueVars
<1> QED
  BY <1>1, <1>2, <1>3, <1>4, <1>5, <1>6, <1>7, QueueSteps

\* What was begun or drained stays so, whatever comes behind it.
LEMMA History ==
  ASSUME TypeOK, QueueInv, [Next]_vars, NEW j
  PROVE  (Begun(j) => Begun(j)') /\ (Dropped(j) => Dropped(j)')
<1> USE DEF TypeOK, Queue!TypeOK, Begun, Dropped
<1>1. ASSUME NEW k \in Items, Push(k) \/ Link(k)
      PROVE  (Begun(j) => Begun(j)') /\ (Dropped(j) => Dropped(j)')
  <2>1. \A p \in 1 .. Len(order) : order'[p] = order[p]
    BY <1>1, SMTT(30) DEF Push, Queue!Push, Link, Queue!Link
  <2>2. UNCHANGED <<served, taken>>
    BY <1>1 DEF Push, Queue!Push, Link, Queue!Link
  <2> QED
    BY <2>1, <2>2
<1>2. CASE Serve
  BY <1>2 DEF Serve, Queue!Serve, Queue!Visible, QueueInv
<1>3. CASE Queue!Stop \/ UNCHANGED queueVars
  BY <1>3 DEF Queue!Stop, queueVars
<1>4. CASE CancelNext
  BY <1>4 DEF CancelNext, Queue!Drop, Queue!Visible
<1>5. CASE EndDrain
  BY <1>5 DEF EndDrain, Queue!End
<1> QED
  BY <1>1, <1>2, <1>3, <1>4, <1>5, QueueSteps

\* No item that has begun is drained or next in line, nor is a call that is not through.
LEMMA BegunOnce ==
  ASSUME TypeOK, QueueInv, NEW j, Begun(j)
  PROVE  /\ ~Dropped(j)
         /\ taken < Len(order) => order[taken + 1] # j
         /\ call[j] \in {"pushed", "queued"}
  BY DEF TypeOK, Queue!TypeOK, QueueInv, Begun, Dropped

-----------------------------------------------------------------------------
(* The thread.                                                             *)

LEMMA ThreadStep == TypeOK /\ QueueInv /\ ThreadInv /\ [Next]_vars => ThreadInv'
<1> SUFFICES ASSUME TypeOK, QueueInv, ThreadInv, [Next]_vars PROVE ThreadInv'
  OBVIOUS
<1>h. \A j : Begun(j) => Begun(j)'
  BY History
<1>n. \A w \in Works : <<w, "start">> \in Items /\ <<w, "resume">> \in Items
  BY DEF Items
<1> USE <1>h, <1>n, NullAssumption DEF TypeOK, ThreadInv, CodeGoes
<1>1. CASE UNCHANGED <<code, current>>
  BY <1>1
<1>2. CASE Serve
  <2>1. current' = order[taken + 1] /\ served' = taken + 1 /\ order' = order /\ taken \in Nat
    BY <1>2 DEF Serve, Queue!Serve, Queue!TypeOK
  <2>2. Begun(current)'
    BY <2>1 DEF Begun
  <2> QED
    BY <1>2, <2>2 DEF Serve, itemVars
<1>3. ASSUME NEW w \in Works, CheckCancelled(w) PROVE ThreadInv'
  BY <1>3 DEF CheckCancelled
<1>4. ASSUME NEW w \in Works, Unregister(w) PROVE ThreadInv'
  BY <1>4 DEF Unregister
<1>5. ASSUME NEW w \in Works, Start(w) PROVE ThreadInv'
  BY <1>5 DEF Start
<1>6. ASSUME NEW w \in Works, Suspend(w) PROVE ThreadInv'
  BY <1>6 DEF Suspend
<1>7. ASSUME NEW w \in Works, Resume(w) PROVE ThreadInv'
  BY <1>7 DEF Resume
<1>8. ASSUME NEW w \in Works, Finish(w) \/ Killed(w) PROVE ThreadInv'
  <2>1. code[w] = "running" /\ code' = [code EXCEPT ![w] = "done"] /\ current' = Null
    BY <1>8 DEF Finish, Killed
  <2>2. ASSUME NEW v \in Works, code[v] \in {"entered", "running"} PROVE v = w
    <3>1. current \in {<<v, "start">>, <<v, "resume">>}
      BY <2>2
    <3>2. current \in {<<w, "start">>, <<w, "resume">>}
      BY <2>1
    <3> QED
      BY <3>1, <3>2
  <2> QED
    BY <2>1, <2>2
<1> QED
  <2>1. ASSUME NEW w \in Works, DoStep(w) PROVE ThreadInv'
    BY <2>1, <1>3, <1>4, <1>5, <1>6, <1>7, <1>8 DEF DoStep
  <2>2. CASE LeaveLoop \/ CancelNext \/ EndDrain \/ EndFiber \/ DisposeAsync \/ UNCHANGED vars
    BY <2>2, <1>1 DEF LeaveLoop, CancelNext, EndDrain, EndFiber, DisposeAsync, vars, itemVars
  <2>3. ASSUME NEW j \in Items, CallStep(j) PROVE ThreadInv'
    BY <2>3, <1>1 DEF CallStep, CheckToken, Push, Link, itemVars
  <2>4. ASSUME NEW w \in Works, Create(w) \/ Awaited(w) \/ RequestCancel(w) \/ FireCallback(w)
        PROVE  ThreadInv'
    BY <2>4, <1>1 DEF Create, Awaited, RequestCancel, FireCallback, itemVars
  <2> QED
    BY <2>1, <2>2, <2>3, <2>4, <1>2 DEF Next, ConsumerStep

-----------------------------------------------------------------------------
(* The work items.                                                         *)

LEMMA TaskStep == TypeOK /\ QueueInv /\ ThreadInv /\ TaskInv /\ [Next]_vars => TaskInv'
<1> SUFFICES ASSUME TypeOK, QueueInv, ThreadInv, TaskInv, [Next]_vars PROVE TaskInv'
  OBVIOUS
<1>n. \A v, w \in Works : <<w, "start">> \in Items /\ (<<w, "start">> = <<v, "start">> => w = v)
  BY DEF Items
<1>b. \A w \in Works : code[w] # "idle" => call[<<w, "start">>] # "new"
  BY BegunOnce DEF ThreadInv
<1> USE <1>n, <1>b, WorksAssumption DEF TypeOK, TaskInv, CodeGoes, CallGoes, TrySet, Settled, Outcomes
<1>1. ASSUME NEW w \in Works, Create(w) PROVE TaskInv'
  BY <1>1 DEF Create
<1>2. ASSUME NEW w \in Works, Awaited(w) PROVE TaskInv'
  BY <1>2 DEF Awaited, itemVars
<1>3. ASSUME NEW j \in Items, CheckToken(j) PROVE TaskInv'
  BY <1>3 DEF CheckToken, Items
<1>4. ASSUME NEW j \in Items, Push(j) \/ Link(j) PROVE TaskInv'
  BY <1>4 DEF Push, Link, itemVars
<1>5. ASSUME NEW w \in Works, RequestCancel(w) PROVE TaskInv'
  BY <1>5 DEF RequestCancel
<1>6. ASSUME NEW w \in Works, FireCallback(w) PROVE TaskInv'
  BY <1>6 DEF FireCallback
<1>7. ASSUME NEW w \in Works, CheckCancelled(w) PROVE TaskInv'
  BY <1>7, ZenonT(40) DEF CheckCancelled
<1>8. ASSUME NEW w \in Works, Unregister(w) PROVE TaskInv'
  BY <1>8 DEF Unregister
<1>9. ASSUME NEW w \in Works, Start(w) \/ Suspend(w) \/ Resume(w) PROVE TaskInv'
  BY <1>9, ZenonT(40) DEF Start, Suspend, Resume
<1>10. ASSUME NEW w \in Works, Finish(w) PROVE TaskInv'
  <2>1. PICK outcome \in Outcomes : TrySet(w, outcome)
    BY <1>10 DEF Finish, OutcomesOf
  <2>2. code' = [code EXCEPT ![w] = "done"] /\ UNCHANGED <<call, token, registered>>
    BY <1>10 DEF Finish
  <2>3. \A v \in Works : (task[v] # "none" => task'[v] # "none") /\ (Settled(v) => Settled(v)')
    BY <2>1
  <2> QED
    BY <2>2, <2>3
<1>11. ASSUME NEW w \in Works, Killed(w) PROVE TaskInv'
  BY <1>11 DEF Killed
<1>12. CASE CancelNext
  <2>1. taken < Len(order) /\ order[taken + 1] \in Items
    BY <1>12 DEF CancelNext, Queue!Drop, Queue!Visible, Queue!TypeOK
  <2>2. PICK w \in Works : order[taken + 1] \in {<<w, "start">>, <<w, "resume">>}
    BY <2>1 DEF Items
  <2>3. UNCHANGED <<call, token, registered, code>>
    BY <1>12 DEF CancelNext
  <2>4. UNCHANGED task \/ TrySet(w, "canceled")
    BY <1>12, <2>2 DEF CancelNext
  <2>5. \A v \in Works : task'[v] \in {task[v], "canceled"}
    BY <2>4
  <2>6. \A v \in Works : Settled(v) => Settled(v)'
    BY <2>4
  <2> QED
    BY <2>3, <2>5, <2>6
<1>13. CASE Serve \/ LeaveLoop \/ EndDrain \/ EndFiber \/ DisposeAsync \/ UNCHANGED vars
  BY <1>13 DEF Serve, LeaveLoop, EndDrain, EndFiber, DisposeAsync, vars, itemVars
<1> QED
  BY <1>1, <1>2, <1>3, <1>4, <1>5, <1>6, <1>7, <1>8, <1>9, <1>10, <1>11, <1>12, <1>13
     DEF Next, ConsumerStep, DoStep, CallStep

LEMMA CanceledStep == TypeOK /\ QueueInv /\ CanceledInv /\ [Next]_vars => CanceledInv'
<1> SUFFICES ASSUME TypeOK, QueueInv, CanceledInv, [Next]_vars PROVE CanceledInv'
  OBVIOUS
<1>h. \A j : Dropped(j) => Dropped(j)'
  BY History
<1>n. \A v, w \in Works : <<w, "start">> \in Items /\ (<<w, "start">> = <<v, "start">> => w = v)
  BY DEF Items
<1> USE <1>h, <1>n DEF TypeOK, CanceledInv, CallGoes, TrySet, Outcomes
<1>1. ASSUME NEW w \in Works, Create(w) PROVE CanceledInv'
  BY <1>1 DEF Create
<1>2. ASSUME NEW w \in Works, Awaited(w) PROVE CanceledInv'
  BY <1>2 DEF Awaited, itemVars
<1>3. ASSUME NEW j \in Items, CheckToken(j) PROVE CanceledInv'
  BY <1>3 DEF CheckToken, Items
<1>4. ASSUME NEW j \in Items, Push(j) \/ Link(j) PROVE CanceledInv'
  BY <1>4 DEF Push, Link, itemVars
<1>5. ASSUME NEW w \in Works, RequestCancel(w) PROVE CanceledInv'
  BY <1>5 DEF RequestCancel
<1>6. ASSUME NEW w \in Works, FireCallback(w) PROVE CanceledInv'
  BY <1>6 DEF FireCallback
<1>7. ASSUME NEW w \in Works, Finish(w) PROVE CanceledInv'
  BY <1>7 DEF Finish, OutcomesOf
<1>8. CASE CancelNext
  <2>1. /\ UNCHANGED <<call, token, order, served>> /\ taken' = taken + 1
        /\ order[taken + 1] \in Items /\ served \in Nat /\ taken \in Nat /\ served <= taken
    BY <1>8 DEF CancelNext, Queue!Drop, Queue!Visible, Queue!TypeOK
  <2>2. PICK j \in Items : j = order[taken + 1]
    BY <2>1
  <2>3. Dropped(j)'
    BY <2>1, <2>2 DEF Dropped
  <2>4. ASSUME NEW w \in Works, task'[w] # task[w] PROVE j = <<w, "start">>
    BY <1>8, <2>2, <2>4 DEF CancelNext, Items
  <2> QED
    BY <2>1, <2>3, <2>4
<1>9. ASSUME NEW w \in Works, CheckCancelled(w) \/ Unregister(w) \/ Start(w) \/ Suspend(w) \/ Resume(w) \/ Killed(w)
      PROVE  CanceledInv'
  BY <1>9 DEF CheckCancelled, Unregister, Start, Suspend, Resume, Killed
<1>10. CASE Serve \/ LeaveLoop \/ EndDrain \/ EndFiber \/ DisposeAsync \/ UNCHANGED vars
  BY <1>10 DEF Serve, LeaveLoop, EndDrain, EndFiber, DisposeAsync, vars, itemVars
<1> QED
  BY <1>1, <1>2, <1>3, <1>4, <1>5, <1>6, <1>7, <1>8, <1>9, <1>10
     DEF Next, ConsumerStep, DoStep, CallStep

\* A task that is settled stays so once its item was taken.
LEMMA SettledStays ==
  ASSUME TypeOK, QueueInv, [Next]_vars, NEW w \in Works, TakenFromQueue(w), Settled(w)
  PROVE  Settled(w)'
<1>1. call[<<w, "start">>] \in {"pushed", "queued"}
  <2>1. PICK p \in 1 .. taken : order[p] = <<w, "start">>
    BY DEF TakenFromQueue
  <2>2. p \in 1 .. Len(order)
    BY <2>1 DEF TypeOK, Queue!TypeOK
  <2> QED
    BY <2>1, <2>2 DEF QueueInv
<1> USE DEF TypeOK, Settled, Outcomes, TrySet, CallGoes
<1>2. \A v \in Works : Create(v) => v # w
  BY <1>1 DEF Create
<1>3. ASSUME NEW j \in Items, CheckToken(j) PROVE Settled(w)'
  BY <1>1, <1>3 DEF CheckToken, Items
<1>4. ASSUME NEW v \in Works, Create(v) PROVE Settled(w)'
  BY <1>2, <1>4 DEF Create
<1>5. ASSUME NEW v \in Works, DoStep(v) PROVE Settled(w)'
  BY <1>5 DEF DoStep, CheckCancelled, Unregister, Start, Suspend, Resume, Finish, Killed
<1>6. CASE CancelNext
  <2>1. UNCHANGED task \/ task' = [task EXCEPT ![order[taken + 1][1]] =
                                     IF @ = "pending" THEN "canceled" ELSE @]
    BY <1>6 DEF CancelNext
  <2> QED
    BY <2>1
<1>7. ASSUME NEW j \in Items, Push(j) \/ Link(j) PROVE Settled(w)'
  BY <1>7 DEF Push, Link, itemVars
<1>8. ASSUME NEW v \in Works, Awaited(v) \/ RequestCancel(v) \/ FireCallback(v) PROVE Settled(w)'
  BY <1>8 DEF Awaited, RequestCancel, FireCallback, itemVars
<1>9. CASE Serve \/ LeaveLoop \/ EndDrain \/ EndFiber \/ DisposeAsync \/ UNCHANGED vars
  BY <1>9 DEF Serve, LeaveLoop, EndDrain, EndFiber, DisposeAsync, vars, itemVars
<1> QED
  BY <1>3, <1>4, <1>5, <1>6, <1>7, <1>8, <1>9 DEF Next, ConsumerStep, CallStep

\* An item that is taken in a step is the next one in line.
LEMMA NewlyTaken ==
  ASSUME TypeOK, [Next]_vars, NEW w \in Works, TakenFromQueue(w)', ~TakenFromQueue(w)
  PROVE  (Serve \/ CancelNext) /\ order[taken + 1] = <<w, "start">>
<1> USE DEF TypeOK, Queue!TypeOK, TakenFromQueue
<1>1. ASSUME NEW j \in Items, Push(j) \/ Link(j) PROVE FALSE
  <2>1. \A p \in 1 .. Len(order) : order'[p] = order[p]
    BY <1>1 DEF Push, Queue!Push, Link, Queue!Link
  <2>2. UNCHANGED taken
    BY <1>1 DEF Push, Queue!Push, Link, Queue!Link
  <2> QED
    BY <2>1, <2>2
<1>2. CASE Serve
  BY <1>2 DEF Serve, Queue!Serve
<1>3. CASE CancelNext
  BY <1>3 DEF CancelNext, Queue!Drop
<1>4. ~(Queue!Stop \/ EndDrain \/ UNCHANGED queueVars)
  BY DEF Queue!Stop, EndDrain, Queue!End, queueVars
<1> QED
  BY <1>1, <1>2, <1>3, <1>4, QueueSteps

LEMMA SkippedStays ==
  ASSUME TypeOK, [Next]_vars, NEW w \in Works, code[w] = "skipped", token[w] = "requested"
  PROVE  code'[w] = "skipped" /\ token'[w] = "requested"
<1> USE DEF TypeOK, CodeGoes
<1>1. ASSUME NEW v \in Works, DoStep(v) PROVE code'[w] = "skipped" /\ UNCHANGED token
  BY <1>1 DEF DoStep, CheckCancelled, Unregister, Start, Suspend, Resume, Finish, Killed
<1>2. ASSUME NEW v \in Works, RequestCancel(v) PROVE UNCHANGED code /\ token'[w] = "requested"
  BY <1>2 DEF RequestCancel
<1>3. ASSUME NEW v \in Works, Create(v) \/ Awaited(v) \/ FireCallback(v)
      PROVE  UNCHANGED <<code, token>>
  BY <1>3 DEF Create, Awaited, FireCallback, itemVars
<1>4. ASSUME NEW j \in Items, CallStep(j) PROVE UNCHANGED <<code, token>>
  BY <1>4 DEF CallStep, CheckToken, Push, Link, itemVars
<1>5. CASE Serve \/ LeaveLoop \/ CancelNext \/ EndDrain \/ EndFiber \/ DisposeAsync \/ UNCHANGED vars
  BY <1>5 DEF Serve, LeaveLoop, CancelNext, EndDrain, EndFiber, DisposeAsync, vars, itemVars
<1> QED
  BY <1>1, <1>2, <1>3, <1>4, <1>5 DEF Next, ConsumerStep

LEMMA TakenStep ==
  ASSUME TypeOK, QueueInv, ThreadInv, TaskInv, TakenAreSettled, [Next]_vars
  PROVE  TakenAreSettled'
<1> SUFFICES ASSUME NEW w \in Works \ (Async \cup Dispatched),
                    TakenFromQueue(w)', current' # <<w, "start">>
             PROVE  Settled(w)' \/ (code[w] = "skipped" /\ token[w] = "requested" /\ registered[w])'
  BY DEF TakenAreSettled
<1>n. <<w, "start">> \in Items /\ <<w, "start">> # Null
  BY NullAssumption DEF Items
<1>1. CASE ~TakenFromQueue(w)
  <2>1. order[taken + 1] = <<w, "start">>
    BY <1>1, NewlyTaken
  <2>2. CASE Serve
    BY <2>1, <2>2 DEF Serve
  <2>3. CASE CancelNext
    <3>1. taken + 1 \in 1 .. Len(order)
      BY <2>3 DEF CancelNext, Queue!Drop, Queue!Visible, TypeOK, Queue!TypeOK
    <3>2. call[<<w, "start">>] # "new"
      BY <2>1, <3>1 DEF QueueInv
    <3>3. task[w] \in {"pending"} \cup Outcomes
      BY <3>2 DEF TaskInv, TypeOK
    <3> QED
      BY <2>1, <2>3, <3>3 DEF CancelNext, TrySet, Settled, Outcomes, TypeOK
  <2> QED
    BY <1>1, <2>2, <2>3, NewlyTaken
<1>2. CASE TakenFromQueue(w) /\ Settled(w)
  BY <1>2, SettledStays
<1>3. CASE TakenFromQueue(w) /\ ~Settled(w) /\ current = <<w, "start">>
  <2>1. task[w] = "pending" /\ call[<<w, "start">>] # "new"
    <3>1. call[<<w, "start">>] # "new"
      BY <1>3, <1>n, BegunOnce DEF ThreadInv
    <3> QED
      BY <1>3, <3>1 DEF TaskInv, TypeOK, Settled
  <2>2. PICK v \in Works : DoStep(v)
    <3>1. ~(Serve \/ LeaveLoop) /\ current # Null
      BY <1>3, <1>n DEF Serve, LeaveLoop
    <3>2. CASE UNCHANGED current
      BY <1>3, <3>2
    <3> QED
      BY <3>1, <3>2 DEF Next, ConsumerStep, CallStep, CancelNext, EndDrain, EndFiber, DisposeAsync, vars,
           Create, Awaited, RequestCancel, FireCallback, CheckToken, Push, Link
  <2>3. v = w
    <3>1. current \in {<<v, "start">>, <<v, "resume">>} \/ code[v] \in {"entered", "running"}
      BY <2>2 DEF DoStep, CheckCancelled, Unregister, Start, Suspend, Resume, Finish, Killed, CodeGoes
    <3>2. current \in {<<v, "start">>, <<v, "resume">>}
      BY <3>1 DEF ThreadInv
    <3> QED
      BY <1>3, <3>2
  <2>4. CASE CheckCancelled(w)
    <3>1. token[w] = "requested" /\ code[w] = "idle" /\ w \in Cancellable /\ code'[w] = "skipped"
          /\ UNCHANGED <<token, registered>>
      BY <1>3, <2>4 DEF CheckCancelled, CodeGoes, TypeOK
    <3> QED
      BY <1>3, <2>1, <3>1 DEF TaskInv
  <2>5. CASE Finish(w)
    BY <2>1, <2>5 DEF Finish, OutcomesOf, TrySet, Settled, Outcomes, TypeOK
  <2> QED
    BY <1>3, <2>2, <2>3, <2>4, <2>5, WorksAssumption
       DEF DoStep, Unregister, Start, Suspend, Resume, Killed
<1>4. CASE TakenFromQueue(w) /\ ~Settled(w) /\ current # <<w, "start">>
  <2>1. code[w] = "skipped" /\ token[w] = "requested" /\ registered[w]
    BY <1>4 DEF TakenAreSettled
  <2>2. code'[w] = "skipped" /\ token'[w] = "requested"
    BY <2>1, SkippedStays
  <2>3. call'[<<w, "start">>] # "new"
    <3>1. Begun(<<w, "start">>)'
      BY <2>1, History DEF ThreadInv
    <3> QED
      <4>1. PICK p \in 1 .. served' : order'[p] = <<w, "start">>
        BY <3>1 DEF Begun
      <4>2. p \in 1 .. Len(order')
        BY TypeStep DEF TypeOK, Queue!TypeOK
      <4> QED
        BY <4>1, <4>2, QueueStep DEF QueueInv
  <2> QED
    BY <2>2, <2>3, TaskStep DEF TaskInv
<1> QED
  BY <1>1, <1>2, <1>3, <1>4

-----------------------------------------------------------------------------

LEMMA InitIInv == Init => IInv
<1> SUFFICES ASSUME Init PROVE IInv
  OBVIOUS
<1> USE DEF Init, Queue!Init
<1>1. TypeOK
  <2>1. Queue!TypeOK
    BY DEF Queue!TypeOK, Queue!Pushed
  <2> QED
    BY <2>1 DEF TypeOK, CallPlaces, CodePlaces
<1>2. QueueInv
  <2>1. Len(order) = 0
    OBVIOUS
  <2> QED
    BY <2>1 DEF QueueInv
<1>5. ThreadInv
  BY DEF ThreadInv
<1>3. TaskInv /\ CanceledInv
  BY DEF TaskInv, CanceledInv, Items
<1>4. TakenAreSettled
  BY DEF TakenAreSettled, TakenFromQueue
<1> QED
  BY <1>1, <1>2, <1>3, <1>4, <1>5 DEF IInv

LEMMA NextIInv == IInv /\ [Next]_vars => IInv'
  BY TypeStep, QueueStep, ThreadStep, TaskStep, CanceledStep, TakenStep DEF IInv

(***************************************************************************)
(* The inductive invariant holds in every behaviour of the fiber.          *)
(***************************************************************************)
THEOREM Inductive == Spec => []IInv
<1>1. QED
  BY InitIInv, NextIInv, PTL DEF Spec

(***************************************************************************)
(* Every variable of the fiber keeps its type.                             *)
(***************************************************************************)
THEOREM TypeCorrect == Spec => []TypeOK
<1>1. IInv => TypeOK
  BY DEF IInv
<1>2. QED
  BY <1>1, Inductive, PTL

(***************************************************************************)
(* The consumer settles every synchronous item it takes, for any number of *)
(* items, run or drained, or leaves it to a callback that is bound to run. *)
(***************************************************************************)
THEOREM TakenSettled == Spec => []TakenAreSettled
<1>1. IInv => TakenAreSettled
  BY DEF IInv
<1>2. QED
  BY <1>1, Inductive, PTL

(***************************************************************************)
(* Neither DisposeAsync, nor the drain, nor a rejected continuation takes  *)
(* its outcome from an action that has begun.                              *)
(***************************************************************************)
THEOREM RunningSpared == Spec => []DisposalSparesTheRunning
<1>1. IInv => DisposalSparesTheRunning
  <2> SUFFICES ASSUME IInv, NEW w \in Works, code[w] # "idle", token[w] = "live"
               PROVE  task[w] # "canceled"
    BY DEF DisposalSparesTheRunning
  <2>1. Begun(<<w, "start">>)
    BY DEF IInv, ThreadInv
  <2>2. ~Dropped(<<w, "start">>) /\ call[<<w, "start">>] # "rejected"
    BY <2>1, BegunOnce DEF IInv
  <2> QED
    BY <2>2 DEF IInv, CanceledInv
<1>2. QED
  BY <1>1, Inductive, PTL

(***************************************************************************)
(* The fiber asks nothing of its queue but what MpscFifo allows, whatever  *)
(* is awaited, cancelled, thrown or disposed of.  MpscFifo is what         *)
(* BlockingMpscQueue is proved to be: what is proved of the fiber here     *)
(* holds of one that is built on the linked list and its event count.      *)
(***************************************************************************)
THEOREM QueueIsUsed == Spec => Queue!Spec
<1>1. Init => Queue!Init
  BY DEF Init
<1>2. TypeOK /\ [Next]_vars => [Queue!Next]_queueVars
  <2> SUFFICES ASSUME TypeOK, [Next]_vars PROVE Queue!Next \/ UNCHANGED queueVars
    OBVIOUS
  <2>1. ASSUME NEW j \in Items, Push(j) \/ Link(j) PROVE Queue!Push(j) \/ Queue!Link(j)
    BY <2>1 DEF Push, Link
  <2>2. (Serve => Queue!Serve) /\ (CancelNext => Queue!Drop) /\ (EndDrain => Queue!End)
    BY DEF Serve, CancelNext, EndDrain
  <2> QED
    BY <2>1, <2>2, QueueSteps DEF Queue!Next
<1>3. [Queue!Next]_queueVars => [Queue!Next]_Queue!vars
  BY DEF queueVars, Queue!vars
<1> QED
  BY <1>1, <1>2, <1>3, TypeCorrect, PTL DEF Spec, Queue!Spec
=============================================================================
