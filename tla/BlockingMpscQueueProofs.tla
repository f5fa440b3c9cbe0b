----------------------- MODULE BlockingMpscQueueProofs -----------------------
(***************************************************************************)
(* No lost wakeup of BlockingMpscQueue, for any number of items and any    *)
(* width of the epoch, from what EventCountProofs shows of its event count.*)
(***************************************************************************)
EXTENDS BlockingMpscQueue, TLAPS

ECP == INSTANCE EventCountProofs WITH Notifiers <- Items, Waiter <- Consumer

\* A producer whose NotifyOne is under way is at that place of Enqueue.
NotifyingInv == \A i \in Items : npc[i] \notin {"idle", "threw"} => ppc[i] = "notifying"

\* Once the consumer has looked again and found nothing, whatever is linked
\* comes with a wakeup, or with a producer that has yet to notify.
ParkInv ==
  /\ wpc = "blocked" => cpc = "wait"
  /\ cpc = "wait" => wpc \in {"prepared", "blocked", "out"} \cup EC!Retiring
  /\ cpc = "wait" /\ wpc \in {"prepared", "blocked"} /\ next[tail] # Null =>
       sem > 0 \/ \E i \in Items : ppc[i] \in {"linked", "notifying"}

IInv == TypeOK /\ ECP!IInv /\ NotifyingInv /\ ParkInv

-----------------------------------------------------------------------------
(* The event count of the queue is the one of EventCountProofs. *)
LEMMA SameSteps == [EC!Next]_countVars => [ECP!Next]_ECP!vars
  BY DEF EC!Next, EC!WaiterInside, EC!WaiterCalls, EC!Cancel, EC!NotifierInside, EC!NotifierCalls,
         EC!PumpSpurious, EC!Announce, EC!StampEpoch, EC!RetireStep, EC!RetireCheck, EC!RetireLock,
         EC!RetireLocked, EC!WakeUp, EC!LeaveCancelled, EC!PrepareWait, EC!BeginRetire, EC!Wait,
         EC!BeginWait, EC!Dispose, EC!NotifyLock, EC!NotifyTooLate, EC!BumpEpoch, EC!Withdraw,
         EC!Release, EC!ReleaseThrows, EC!NotifyNobody, EC!NotifySeen, EC!NotifyRecheck,
         EC!WaiterGoes, EC!NotifierGoes, EC!SemaphoreMaximum, countVars,
         ECP!Next, ECP!WaiterInside, ECP!WaiterCalls, ECP!Cancel, ECP!NotifierInside, ECP!NotifierCalls,
         ECP!PumpSpurious, ECP!Announce, ECP!StampEpoch, ECP!RetireStep, ECP!RetireCheck, ECP!RetireLock,
         ECP!RetireLocked, ECP!WakeUp, ECP!LeaveCancelled, ECP!PrepareWait, ECP!BeginRetire, ECP!Wait,
         ECP!BeginWait, ECP!Dispose, ECP!NotifyLock, ECP!NotifyTooLate, ECP!BumpEpoch, ECP!Withdraw,
         ECP!Release, ECP!ReleaseThrows, ECP!NotifyNobody, ECP!NotifySeen, ECP!NotifyRecheck,
         ECP!WaiterGoes, ECP!NotifierGoes, ECP!SemaphoreMaximum, ECP!vars

(* Every step of the queue is a step of its event count, or leaves it alone. *)
LEMMA CountSteps == [Next]_vars => [EC!Next]_countVars
<1> SUFFICES ASSUME [Next]_vars PROVE [EC!Next]_countVars
  OBVIOUS
<1>1. CASE ConsumerStep
  <2>1. CASE SpinTake \/ StopSpinning \/ Recheck \/ FoundTake \/ Run \/ DrainNext \/ DrainEnd
    BY <2>1 DEF SpinTake, StopSpinning, Recheck, FoundTake, Take, Run, DrainNext, DrainEnd
  <2>2. CASE Park \/ WaitForItem \/ RetireFound \/ Dispose
    BY <2>2 DEF Park, WaitForItem, RetireFound, Dispose, EC!Next, EC!WaiterCalls
  <2>3. CASE InsideEventCount
    BY <2>3 DEF InsideEventCount, EC!Next
  <2>4. QED
    BY <1>1, <2>1, <2>2, <2>3 DEF ConsumerStep
<1>2. ASSUME NEW i \in Items, CheckToken(i) \/ Exchange(i) \/ LinkNode(i)
      PROVE countVars' = countVars
  BY <1>2 DEF CheckToken, Exchange, LinkNode
<1>3. ASSUME NEW i \in Items, NotifyOne(i) \/ NotifyStep(i) PROVE EC!Next
  BY <1>3 DEF NotifyOne, NotifyStep, EC!Next, EC!NotifierCalls
<1>4. CASE CompleteAdding
  BY <1>4 DEF CompleteAdding, EC!Next
<1>5. CASE UNCHANGED vars
  BY <1>5 DEF vars
<1>6. QED
  BY <1>1, <1>2, <1>3, <1>4, <1>5 DEF Next, ProducerInside

(* What EventCountProofs shows of the event count holds inside the queue. *)
LEMMA CountInv == ECP!IInv /\ [Next]_vars => ECP!IInv'
  BY CountSteps, SameSteps, ECP!NextIInv, ItemsAssumption

LEMMA CountTypes == ECP!IInv => EC!TypeOK
  BY DEF ECP!IInv, ECP!TypeOK, EC!TypeOK, EC!WaiterPlaces, ECP!WaiterPlaces, EC!NotifierPlaces,
         ECP!NotifierPlaces, EC!Announcing, ECP!Announcing, EC!Retiring, ECP!Retiring,
         EC!SemaphoreMaximum, ECP!SemaphoreMaximum

-----------------------------------------------------------------------------
(* Every action keeps the types; a take moves _Tail to a linked node. *)
LEMMA TypeStep == IInv /\ [Next]_vars => TypeOK'
<1> SUFFICES ASSUME IInv, [Next]_vars PROVE TypeOK'
  OBVIOUS
<1> USE ItemsAssumption DEF IInv, TypeOK, nodeVars, consumerVars, ConsumerGoes, ProducerGoes,
        Nodes, ProducerPlaces, ConsumerPlaces
<1>1. EC!TypeOK'
  BY CountInv, CountTypes, PTL
<1>2. CASE ConsumerStep
  <2>1. CASE SpinTake \/ FoundTake
    BY <1>1, <2>1 DEF SpinTake, FoundTake, Take
  <2>2. CASE StopSpinning \/ Park \/ Recheck \/ WaitForItem \/ RetireFound
    BY <1>1, <2>2 DEF StopSpinning, Park, Recheck, WaitForItem, RetireFound
  <2>3. CASE InsideEventCount \/ Run \/ Dispose
    BY <1>1, <2>3 DEF InsideEventCount, Run, Dispose
  <2>4. CASE DrainNext \/ DrainEnd
    BY <1>1, <2>4 DEF DrainNext, DrainEnd
  <2>5. QED
    BY <1>2, <2>1, <2>2, <2>3, <2>4 DEF ConsumerStep
<1>3. ASSUME NEW i \in Items, CheckToken(i) PROVE TypeOK'
  BY <1>1, <1>3 DEF CheckToken
<1>4. ASSUME NEW i \in Items, Exchange(i) PROVE TypeOK'
  BY <1>1, <1>4 DEF Exchange
<1>5. ASSUME NEW i \in Items, LinkNode(i) PROVE TypeOK'
  BY <1>1, <1>5 DEF LinkNode
<1>6. ASSUME NEW i \in Items, NotifyOne(i) PROVE TypeOK'
  BY <1>1, <1>6 DEF NotifyOne
<1>7. ASSUME NEW i \in Items, NotifyStep(i) PROVE TypeOK'
  BY <1>1, <1>7 DEF NotifyStep
<1>8. CASE CompleteAdding
  BY <1>1, <1>8 DEF CompleteAdding
<1>9. CASE UNCHANGED vars
  BY <1>1, <1>9 DEF vars
<1>10. QED
  BY <1>2, <1>3, <1>4, <1>5, <1>6, <1>7, <1>8, <1>9 DEF Next, ProducerInside

(* Only NotifyOne and NotifyStep move a notifier, and its producer with it. *)
LEMMA NotifyingStep == IInv /\ [Next]_vars => NotifyingInv'
<1> SUFFICES ASSUME IInv, [Next]_vars PROVE NotifyingInv'
  OBVIOUS
<1> USE DEF IInv, TypeOK, NotifyingInv, nodeVars, consumerVars, countVars, ConsumerGoes,
        ProducerGoes, EC!WaiterGoes, EC!NotifierGoes
<1>1. CASE ConsumerStep
  <2>1. UNCHANGED <<ppc, npc>>
    BY <1>1 DEF ConsumerStep, SpinTake, FoundTake, Take, StopSpinning, Park, Recheck, WaitForItem,
         RetireFound, InsideEventCount, Run, Dispose, DrainNext, DrainEnd, EC!WaiterInside,
         EC!PumpSpurious, EC!Announce, EC!StampEpoch, EC!RetireStep, EC!RetireCheck,
         EC!RetireLock, EC!RetireLocked, EC!WakeUp, EC!LeaveCancelled, EC!PrepareWait,
         EC!BeginRetire, EC!Wait, EC!BeginWait, EC!Dispose
  <2>2. QED
    BY <2>1
<1>2. ASSUME NEW i \in Items, CheckToken(i) \/ Exchange(i) \/ LinkNode(i) PROVE NotifyingInv'
  BY <1>2 DEF CheckToken, Exchange, LinkNode
<1>3. ASSUME NEW i \in Items, NotifyOne(i) PROVE NotifyingInv'
  BY <1>3, CountTypes DEF NotifyOne, EC!NotifyNobody, EC!NotifySeen, EC!TypeOK
<1>4. ASSUME NEW i \in Items, NotifyStep(i) PROVE NotifyingInv'
  <2>1. \A j \in Items \ {i} : npc'[j] = npc[j] /\ ppc'[j] = ppc[j]
    BY <1>4 DEF NotifyStep, EC!NotifierInside, EC!NotifyLock, EC!NotifyTooLate, EC!BumpEpoch,
         EC!Withdraw, EC!Release, EC!ReleaseThrows, EC!TypeOK
  <2>2. npc'[i] \notin {"idle", "threw"} => ppc'[i] = "notifying"
    BY <1>4 DEF NotifyStep
  <2>3. QED
    BY <2>1, <2>2
<1>5. CASE CompleteAdding
  BY <1>5 DEF CompleteAdding, EC!Cancel
<1>6. CASE UNCHANGED vars
  BY <1>6 DEF vars
<1>7. QED
  BY <1>1, <1>2, <1>3, <1>4, <1>5, <1>6 DEF Next, ProducerInside

(* An announcement that is on and was taken back is one whose token is in the
   semaphore or with a producer inside NotifyOne (TokenAccounting): a producer
   that finds _InWait reset may return without waking anybody. *)
LEMMA TakenBack ==
  IInv /\ wpc \in {"prepared", "blocked"} /\ ~inWait =>
    sem > 0 \/ \E i \in Items : npc[i] \in {"withdrawn", "release"} /\ ppc[i] = "notifying"
<1> SUFFICES ASSUME IInv, wpc \in {"prepared", "blocked"}, ~inWait
             PROVE sem > 0 \/ \E i \in Items : npc[i] \in {"withdrawn", "release"}
                                            /\ ppc[i] = "notifying"
  OBVIOUS
<1>1. sem > 0 \/ \E i \in Items : npc[i] \in {"withdrawn", "release"}
  BY DEF IInv, ECP!IInv, ECP!TokenInv, ECP!TokenAccounting, ECP!Owed, ECP!Announced, ECP!Committed
<1>2. QED
  BY <1>1 DEF IInv, NotifyingInv

LEMMA ParkStep == IInv /\ [Next]_vars => ParkInv'
<1> SUFFICES ASSUME IInv, [Next]_vars PROVE ParkInv'
  OBVIOUS
<1>0. sem \in 0 .. 2 /\ ppc \in [Items -> ProducerPlaces]
  BY CountTypes DEF IInv, TypeOK, EC!TypeOK, EC!SemaphoreMaximum
<1> USE <1>0 DEF ParkInv, nodeVars, consumerVars, countVars, ConsumerGoes, ProducerGoes,
        EC!WaiterGoes, EC!NotifierGoes, EC!Retiring
<1>1. ParkInv
  BY DEF IInv
<1>2. CASE ConsumerStep
  <2>1. CASE SpinTake \/ StopSpinning \/ Recheck \/ FoundTake \/ Run \/ DrainNext \/ DrainEnd
    BY <1>1, <2>1 DEF SpinTake, StopSpinning, Recheck, FoundTake, Take, Run, DrainNext, DrainEnd
  <2>2. CASE Park \/ RetireFound \/ Dispose
    BY <1>1, <2>2 DEF Park, RetireFound, Dispose, EC!PrepareWait, EC!BeginRetire, EC!Dispose
  <2>3. CASE WaitForItem
    BY <1>1, <2>3 DEF WaitForItem, EC!Wait, EC!BeginWait, EC!BeginRetire
  <2>4. CASE InsideEventCount
    <3>1. UNCHANGED <<next, tail, ppc>> /\ EC!WaiterInside
          /\ (wpc' = "left" \/ cpc' = cpc) /\ (wpc' = "left" => cpc' = "drain")
      BY <2>4 DEF InsideEventCount
    <3>2. CASE EC!PumpSpurious \/ EC!RetireStep \/ EC!WakeUp \/ EC!LeaveCancelled
      BY <1>1, <3>1, <3>2 DEF EC!PumpSpurious, EC!RetireStep, EC!RetireCheck, EC!RetireLock,
           EC!RetireLocked, EC!WakeUp, EC!LeaveCancelled
    <3>3. CASE EC!Announce \/ EC!StampEpoch
      <4>1. cpc # "wait"
        BY <3>3, <1>1 DEF EC!Announce, EC!StampEpoch
      <4>2. QED
        BY <1>1, <3>1, <3>3, <4>1 DEF EC!Announce, EC!StampEpoch
    <3>4. QED
      BY <3>1, <3>2, <3>3 DEF EC!WaiterInside
  <2>5. QED
    BY <1>2, <2>1, <2>2, <2>3, <2>4 DEF ConsumerStep
<1>3. ASSUME NEW i \in Items, CheckToken(i) \/ Exchange(i) PROVE ParkInv'
  BY <1>1, <1>3 DEF CheckToken, Exchange
<1>4. ASSUME NEW i \in Items, LinkNode(i) PROVE ParkInv'
  BY <1>1, <1>4 DEF LinkNode
<1>5. ASSUME NEW i \in Items, NotifyOne(i) PROVE ParkInv'
  <2>1. CASE EC!NotifyNobody(i) /\ ProducerGoes(i, "linked", "returned")
    BY <1>1, <1>5, <2>1, TakenBack DEF NotifyOne, EC!NotifyNobody
  <2>2. CASE EC!NotifySeen(i) /\ ProducerGoes(i, "linked", "notifying")
    BY <1>1, <1>5, <2>2 DEF NotifyOne, EC!NotifySeen
  <2>3. QED
    BY <1>5, <2>1, <2>2 DEF NotifyOne
<1>6. ASSUME NEW i \in Items, NotifyStep(i) PROVE ParkInv'
  <2>1. UNCHANGED <<next, tail, cpc>> /\ EC!NotifierInside(i)
        /\ \A j \in Items \ {i} : ppc'[j] = ppc[j]
    BY <1>6 DEF NotifyStep
  <2>2. wpc' = wpc
    BY <2>1 DEF EC!NotifierInside, EC!NotifyLock, EC!NotifyTooLate, EC!BumpEpoch, EC!Withdraw,
         EC!Release, EC!ReleaseThrows
  <2>3. CASE EC!NotifyLock(i) \/ EC!BumpEpoch(i) \/ EC!Withdraw(i)
    <3>1. npc'[i] \notin {"idle", "threw"}
      BY <2>3, CountTypes DEF IInv, EC!TypeOK, EC!NotifyLock, EC!BumpEpoch, EC!Withdraw
    <3>2. ppc'[i] = "notifying"
      BY <1>6, <3>1 DEF NotifyStep
    <3>3. QED
      BY <1>1, <2>1, <2>2, <3>2
  <2>4. CASE EC!NotifyTooLate(i)
    <3>1. npc[i] = "locked" /\ ~inWait /\ sem' = sem
      BY <2>4 DEF EC!NotifyTooLate, EC!NotifyRecheck
    <3>2. QED
      BY <1>1, <2>1, <2>2, <3>1, TakenBack
  <2>5. CASE EC!Release(i)
    BY <1>1, <2>1, <2>2, <2>5 DEF EC!Release
  <2>6. CASE EC!ReleaseThrows(i)
    BY <1>1, <2>1, <2>2, <2>6 DEF EC!ReleaseThrows, EC!SemaphoreMaximum
  <2>7. QED
    BY <2>1, <2>3, <2>4, <2>5, <2>6 DEF EC!NotifierInside
<1>7. CASE CompleteAdding
  BY <1>1, <1>7 DEF CompleteAdding, EC!Cancel
<1>8. CASE UNCHANGED vars
  BY <1>1, <1>8 DEF vars
<1>9. QED
  BY <1>2, <1>3, <1>4, <1>5, <1>6, <1>7, <1>8 DEF Next, ProducerInside

-----------------------------------------------------------------------------
LEMMA InitIInv == Init => IInv
<1> SUFFICES ASSUME Init PROVE IInv
  OBVIOUS
<1>1. ECP!Init
  BY DEF Init, EC!Init, ECP!Init
<1>2. ECP!IInv
  BY <1>1, ECP!InitIInv, ItemsAssumption
<1>3. QED
  BY <1>2, CountTypes, ItemsAssumption DEF Init, EC!Init, IInv, TypeOK, Nodes, ProducerPlaces,
     ConsumerPlaces, NotifyingInv, ParkInv

LEMMA NextIInv == IInv /\ [Next]_vars => IInv'
  BY TypeStep, CountInv, NotifyingStep, ParkStep DEF IInv

(***************************************************************************)
(* The inductive invariant holds in every behaviour of the queue.          *)
(***************************************************************************)
THEOREM Inductive == Spec => []IInv
<1>1. QED
  BY InitIInv, NextIInv, PTL DEF Spec

(***************************************************************************)
(* Nodes, places and the event count inside the queue keep their types.    *)
(***************************************************************************)
THEOREM TypeCorrect == Spec => []TypeOK
<1>1. IInv => TypeOK
  BY DEF IInv
<1>2. QED
  BY <1>1, Inductive, PTL

(***************************************************************************)
(* However many producers enqueue and however the epoch wraps, a consumer  *)
(* that is parked beside a linked node has its wakeup in the semaphore, or *)
(* the producer that brings it is between the link and the end of          *)
(* NotifyOne.                                                              *)
(***************************************************************************)
THEOREM WakeupsAreNotLost == Spec => []NoLostWakeup
<1>1. IInv => NoLostWakeup
  BY DEF IInv, ParkInv, NoLostWakeup
<1>2. QED
  BY <1>1, Inductive, PTL

-----------------------------------------------------------------------------
(* The linked list behind the queue                                        *)

\* The node at place k of the list, the first of which is the stub.
At(k) == IF k = 0 THEN Stub ELSE order[k]

Places == 0 .. Len(order)

Absent == {i \in Items : ppc[i] \in {"new", "checked", "rejected"}}

Linked == {i \in Items : ppc[i] \in {"linked", "notifying", "returned", "threw"}}

\* The order of the exchanges is that of the items which are in, each of them once.
OrderInv ==
  /\ \A p, q \in 1 .. Len(order) : order[p] = order[q] => p = q
  /\ \A i \in Items : i \in Absent <=> \A p \in 1 .. Len(order) : order[p] # i

\* _Head is the last node of the order.  Every node leads to the one after it, as
\* soon as that one is linked, whichever are linked before it.
ListInv ==
  /\ head = At(Len(order))
  /\ \A k \in 1 .. Len(order) : prev[At(k)] = At(k - 1)
  /\ \A k \in Places :
       next[At(k)] = IF k < Len(order) /\ At(k + 1) \in Linked THEN At(k + 1) ELSE Null
  /\ \A i \in Absent : next[i] = Null

\* The consumer is at nodes of the list.
CursorInv == {tail, cursor} \subseteq {At(k) : k \in Places}

ShapeInv == OrderInv /\ ListInv /\ CursorInv

LEMMA InitShape == Init => ShapeInv
<1> SUFFICES ASSUME Init PROVE ShapeInv
  OBVIOUS
<1>1. order = <<>> /\ Len(order) = 0 /\ At(0) = Stub /\ Absent = Items
  BY DEF Init, At, Absent
<1>2. OrderInv
  BY <1>1 DEF OrderInv
<1>3. ListInv
  BY <1>1, ItemsAssumption DEF Init, ListInv, Places, Nodes
<1>4. CursorInv
  BY <1>1 DEF Init, CursorInv, Places
<1> QED
  BY <1>2, <1>3, <1>4 DEF ShapeInv

\* The places of the list are those of different nodes.
LEMMA PlacesDiffer ==
  TypeOK /\ OrderInv =>
    /\ \A k \in Places : At(k) \in Nodes
    /\ \A k \in Places \ {0} : At(k) \in Items
    /\ \A j, k \in Places : At(j) = At(k) => j = k
  BY ItemsAssumption DEF TypeOK, OrderInv, At, Places, Nodes

\* What leaves the list as it was.
SameList == UNCHANGED <<next, head, prev, order, Absent, Linked>>

LEMMA SameShape == OrderInv /\ ListInv /\ SameList => OrderInv' /\ ListInv'
  BY DEF OrderInv, ListInv, SameList, At, Places

LEMMA ExchangeShape ==
  ASSUME NEW i \in Items, TypeOK, OrderInv, ListInv, Exchange(i)
  PROVE  OrderInv' /\ ListInv' /\ \A k \in Places : At(k)' = At(k)
<1> PICK n \in Nat : n = Len(order)
  BY DEF TypeOK
<1>1. /\ order \in Seq(Items)
      /\ i \in Absent /\ Absent' = Absent \ {i} /\ Linked' = Linked /\ i \notin Linked
  BY DEF TypeOK, Exchange, ProducerGoes, Absent, Linked
<1>2. /\ order' = Append(order, i) /\ Len(order') = n + 1
      /\ \A p \in 1 .. n : order'[p] = order[p]
      /\ order'[n + 1] = i
  BY <1>1 DEF Exchange
<1>3. (\A k \in Places : At(k)' = At(k)) /\ At(n + 1)' = i
  BY <1>1, <1>2 DEF At, Places
<1>4. OrderInv'
  <2>1. \A p \in 1 .. n : order[p] # i
    BY <1>1 DEF OrderInv
  <2>2. ASSUME NEW p \in 1 .. n + 1, NEW q \in 1 .. n + 1, order'[p] = order'[q] PROVE p = q
    BY <1>1, <1>2, <2>1, <2>2 DEF OrderInv
  <2>3. ASSUME NEW j \in Items
        PROVE  j \in Absent' <=> \A p \in 1 .. n + 1 : order'[p] # j
    <3>1. (\A p \in 1 .. n + 1 : order'[p] # j) <=> j # i /\ \A p \in 1 .. n : order[p] # j
      BY <1>1, <1>2
    <3> QED
      BY <1>1, <3>1 DEF OrderInv
  <2> QED
    BY <1>2, <2>2, <2>3 DEF OrderInv
<1>5. head' = At(n + 1)'
  BY <1>3 DEF Exchange
<1>6. ASSUME NEW k \in 1 .. n + 1 PROVE (prev[At(k)] = At(k - 1))'
  <2>1. prev \in [Items -> Nodes \cup {Null}] /\ prev' = [prev EXCEPT ![i] = head]
    BY DEF TypeOK, Exchange
  <2>2. CASE k = n + 1
    <3>1. At(k)' = i /\ At(k - 1)' = At(n) /\ head = At(n)
      BY <1>1, <1>3, <2>2 DEF ListInv, Places
    <3> QED
      BY <2>1, <3>1
  <2>3. CASE k \in 1 .. n
    <3>1. At(k) \in Items \ {i} /\ At(k)' = At(k) /\ At(k - 1)' = At(k - 1)
      BY <1>1, <1>3, <2>3 DEF At, OrderInv, Places
    <3> QED
      BY <2>1, <2>3, <3>1 DEF ListInv
  <2> QED
    BY <1>1, <2>2, <2>3
<1>7. ASSUME NEW k \in 0 .. n + 1
      PROVE  next'[At(k)'] = IF k < n + 1 /\ At(k + 1)' \in Linked THEN At(k + 1)' ELSE Null
  <2>1. next' = next
    BY DEF Exchange
  <2>2. CASE k = n + 1
    <3>1. At(k)' = i /\ next[i] = Null
      BY <1>1, <1>3, <2>2 DEF ListInv
    <3> QED
      BY <1>1, <2>1, <2>2, <3>1
  <2>3. CASE k = n
    <3>1. At(k)' = At(n) /\ At(k + 1)' = i /\ next[At(n)] = Null
      BY <1>1, <1>3, <2>3 DEF ListInv, Places
    <3> QED
      BY <1>1, <2>1, <3>1
  <2>4. CASE k < n
    <3>1. k \in Places /\ k + 1 \in Places
      BY <1>1, <2>4 DEF Places
    <3> QED
      BY <1>1, <1>3, <2>1, <2>4, <3>1 DEF ListInv
  <2> QED
    BY <1>1, <2>2, <2>3, <2>4
<1>8. \A j \in Absent' : next'[j] = Null
  BY <1>1 DEF Exchange, ListInv
<1>9. ListInv'
  <2>1. Len(order)' = n + 1
    BY <1>2
  <2>2. \A k \in 1 .. Len(order)' : (prev[At(k)] = At(k - 1))'
    BY <1>6, <2>1
  <2>3. \A k \in Places' :
          (next[At(k)] = IF k < Len(order) /\ At(k + 1) \in Linked THEN At(k + 1) ELSE Null)'
    BY <1>1, <1>7, <2>1 DEF Places
  <2> QED
    BY <1>5, <1>8, <2>1, <2>2, <2>3 DEF ListInv
<1> QED
  BY <1>3, <1>4, <1>9

LEMMA LinkShape ==
  ASSUME NEW i \in Items, TypeOK, OrderInv, ListInv, LinkNode(i)
  PROVE  OrderInv' /\ ListInv' /\ \A k \in Places : At(k)' = At(k)
<1>1. /\ UNCHANGED <<order, Absent, head, prev>>
      /\ Linked' = Linked \cup {i} /\ i \notin Absent \cup Linked
  BY DEF TypeOK, LinkNode, ProducerGoes, Absent, Linked
<1>2. \A k : At(k)' = At(k)
  BY <1>1 DEF At
<1>3. OrderInv'
  BY <1>1 DEF OrderInv
<1>4. PICK p \in 1 .. Len(order) : At(p) = i
  BY <1>1 DEF OrderInv, At
<1>5. Len(order) \in Nat /\ p - 1 \in Places /\ p \in Places
  BY DEF TypeOK, Places
<1>6. next' = [next EXCEPT ![At(p - 1)] = i]
  BY <1>4 DEF LinkNode, ListInv
<1>7. next \in [Nodes -> Items \cup {Null}]
  BY DEF TypeOK
<1>8. ASSUME NEW k \in Places
      PROVE  next'[At(k)] = IF k < Len(order) /\ At(k + 1) \in Linked' THEN At(k + 1) ELSE Null
  <2>1. CASE k = p - 1
    <3>1. At(k + 1) = i /\ k < Len(order) /\ At(k) \in Nodes
      BY <1>4, <1>5, <2>1, PlacesDiffer DEF Places
    <3> QED
      BY <1>1, <1>6, <1>7, <2>1, <3>1
  <2>2. CASE k # p - 1
    <3>1. At(k) # At(p - 1)
      BY <1>5, <2>2, PlacesDiffer
    <3>2. k < Len(order) => At(k + 1) # i
      <4>1. SUFFICES ASSUME k < Len(order) PROVE k + 1 \in Places /\ k + 1 # p
        BY <1>4, <1>5, PlacesDiffer
      <4> QED
        BY <1>5, <2>2, <4>1 DEF Places
    <3> QED
      BY <1>1, <1>6, <1>7, <3>1, <3>2, PlacesDiffer DEF ListInv
  <2> QED
    BY <2>1, <2>2
<1>9. \A j \in Absent : next'[j] = Null
  <2>1. \A j \in Absent : j # At(p - 1)
    BY <1>5, ItemsAssumption DEF OrderInv, At, Absent, Places
  <2> QED
    BY <1>6, <1>7, <2>1 DEF ListInv, Absent, Nodes
<1>10. ListInv'
  BY <1>1, <1>2, <1>8, <1>9 DEF ListInv, Places
<1> QED
  BY <1>2, <1>3, <1>10

\* A node that leads to another one leads to the next place, which is linked.
LEMMA NextPlace ==
  ASSUME NEW k \in Places, TypeOK, ListInv, next[At(k)] # Null
  PROVE  k + 1 \in Places /\ next[At(k)] = At(k + 1) /\ At(k + 1) \in Linked
<1>1. Len(order) \in Nat
  BY DEF TypeOK
<1> QED
  BY <1>1 DEF ListInv, Places

\* The list is what the producers make it: the consumer only goes along it.
LEMMA ConsumerKeepsList == TypeOK /\ ConsumerStep => SameList
<1> SUFFICES ASSUME ConsumerStep PROVE UNCHANGED <<nodeVars, ppc>>
  BY DEF SameList, nodeVars, Absent, Linked
<1> QED
  BY DEF ConsumerStep, SpinTake, FoundTake, Take, StopSpinning, Park, Recheck, WaitForItem,
         RetireFound, InsideEventCount, Run, Dispose, DrainNext, DrainEnd

LEMMA NotifyKeepsList ==
  ASSUME NEW i \in Items, TypeOK, NotifyOne(i) \/ NotifyStep(i) \/ CheckToken(i)
  PROVE  SameList /\ UNCHANGED <<tail, cursor, cpc>>
<1>1. UNCHANGED nodeVars /\ UNCHANGED <<tail, cursor, cpc>>
  BY DEF NotifyOne, NotifyStep, CheckToken, consumerVars
<1>2. UNCHANGED <<Absent, Linked>>
  BY DEF TypeOK, NotifyOne, NotifyStep, CheckToken, ProducerGoes, Absent, Linked
<1> QED
  BY <1>1, <1>2 DEF nodeVars, SameList

\* Where the consumer and the cursor of the drain go.
LEMMA CursorStep ==
  ASSUME TypeOK, ListInv, CursorInv, ConsumerStep
  PROVE  {tail', cursor'} \subseteq {At(k) : k \in Places}
<1>1. CASE SpinTake \/ FoundTake
  <2>1. PICK k \in Places : tail = At(k)
    BY DEF CursorInv
  <2>2. next[At(k)] # Null /\ tail' = next[At(k)] /\ cursor' = cursor
    BY <1>1, <2>1 DEF SpinTake, FoundTake, Take
  <2> QED
    BY <2>2, NextPlace DEF CursorInv
<1>2. CASE DrainNext
  <2>1. PICK k \in Places : cursor = At(k)
    BY DEF CursorInv
  <2>2. next[At(k)] # Null /\ cursor' = next[At(k)] /\ tail' = tail
    BY <1>2, <2>1 DEF DrainNext
  <2> QED
    BY <2>2, NextPlace DEF CursorInv
<1>3. CASE ~(SpinTake \/ FoundTake \/ DrainNext)
  <2>1. tail' = tail /\ cursor' \in {tail, cursor}
    BY <1>3 DEF ConsumerStep, StopSpinning, Park, Recheck, WaitForItem, RetireFound,
                InsideEventCount, Run, Dispose, DrainEnd, consumerVars
  <2> QED
    BY <2>1 DEF CursorInv
<1> QED
  BY <1>1, <1>2, <1>3

LEMMA ShapeStep == TypeOK /\ ShapeInv /\ [Next]_vars => ShapeInv'
<1> SUFFICES ASSUME TypeOK, ShapeInv, [Next]_vars PROVE ShapeInv'
  OBVIOUS
<1> USE DEF ShapeInv
<1>1. Len(order) \in Nat
  BY DEF TypeOK
<1>2. ASSUME SameList, {tail', cursor'} \subseteq {At(k) : k \in Places} PROVE ShapeInv'
  <2>1. OrderInv' /\ ListInv'
    BY <1>2, SameShape
  <2>2. CursorInv'
    BY <1>2 DEF SameList, CursorInv, At, Places
  <2> QED
    BY <2>1, <2>2
<1>3. CASE ConsumerStep
  BY <1>2, <1>3, ConsumerKeepsList, CursorStep
<1>4. ASSUME NEW i \in Items, CheckToken(i) \/ NotifyOne(i) \/ NotifyStep(i) PROVE ShapeInv'
  BY <1>2, <1>4, NotifyKeepsList DEF CursorInv
<1>5. ASSUME UNCHANGED <<tail, cursor>>, \A k \in Places : At(k)' = At(k), Places \subseteq Places'
      PROVE  CursorInv'
  <2>1. ASSUME NEW n, n \in {At(k) : k \in Places} PROVE n \in {At(k) : k \in Places}'
    BY <1>5, <2>1
  <2> QED
    BY <1>5, <2>1 DEF CursorInv
<1>6. ASSUME NEW i \in Items, Exchange(i) PROVE ShapeInv'
  <2>1. UNCHANGED <<tail, cursor>> /\ Places \subseteq Places'
    BY <1>1, <1>6 DEF TypeOK, Exchange, consumerVars, Places
  <2> QED
    BY <1>5, <1>6, <2>1, ExchangeShape
<1>7. ASSUME NEW i \in Items, LinkNode(i) PROVE ShapeInv'
  <2>1. UNCHANGED <<tail, cursor>> /\ Places \subseteq Places'
    BY <1>7 DEF LinkNode, consumerVars, Places
  <2> QED
    BY <1>5, <1>7, <2>1, LinkShape
<1>8. CASE CompleteAdding \/ UNCHANGED vars
  <2>1. UNCHANGED <<nodeVars, consumerVars, ppc>>
    BY <1>8 DEF CompleteAdding, vars
  <2> QED
    BY <1>2, <2>1 DEF SameList, nodeVars, consumerVars, Absent, Linked, CursorInv
<1> QED
  BY <1>3, <1>4, <1>6, <1>7, <1>8 DEF Next, ProducerInside

-----------------------------------------------------------------------------
(* Refinement of MpscFifo                                                  *)

\* The consumer is at place k of the list, and has taken what is up to place t.
Reached(k, t) ==
  /\ k \in Places /\ t \in Places
  /\ tail = At(k)
  /\ IF Stopped THEN cursor = At(t) ELSE t = k

Phase == CASE cpc \in {"dispose", "ended"} -> "ended"
           [] cpc = "drain" -> "draining"
           [] OTHER -> "consuming"

\* Places are what MpscFifo counts.
PlacesCount == \A k, t \in Nat : Reached(k, t) => Position(tail) = k /\ TakenCount = t

LEMMA Counts == TypeOK /\ OrderInv => PlacesCount
<1> SUFFICES ASSUME NEW k \in Nat, NEW t \in Nat, TypeOK, OrderInv, Reached(k, t)
             PROVE  Position(tail) = k /\ TakenCount = t
  BY DEF PlacesCount
<1>1. \A j \in Places : Position(At(j)) = j
  BY ItemsAssumption DEF TypeOK, OrderInv, Position, At, Places
<1> QED
  BY <1>1 DEF Reached, TakenCount

LEMMA InitFifo == Init => Fifo!Init
<1> SUFFICES ASSUME Init PROVE Fifo!Init
  OBVIOUS
<1>1. order = <<>> /\ tail = Stub /\ cpc = "spin" /\ \A i \in Items : ppc[i] = "new"
  BY DEF Init
<1>2. Position(tail) = 0 /\ TakenCount = 0
  BY <1>1 DEF Position, TakenCount, Stopped
<1> QED
  BY <1>1, <1>2 DEF Fifo!Init

\* Every step is a step of MpscFifo, or one that it does not see.
LEMMA FifoStep == IInv /\ ShapeInv /\ [Next]_vars => [Fifo!Next]_Fifo!vars
<1> SUFFICES ASSUME IInv, ShapeInv, [Next]_vars PROVE [Fifo!Next]_Fifo!vars
  OBVIOUS
<1>1. TypeOK /\ OrderInv /\ ListInv /\ CursorInv /\ ParkInv
  BY DEF IInv, ShapeInv
<1>2. TypeOK' /\ OrderInv'
  BY <1>1, TypeStep, ShapeStep DEF ShapeInv
<1>3. Len(order) \in Nat
  BY <1>1 DEF TypeOK
<1>4. PICK k \in Nat, t \in Nat : Reached(k, t)
  <2>1. PICK k \in Places, c \in Places : tail = At(k) /\ cursor = At(c)
    BY <1>1 DEF CursorInv
  <2>2. k \in Nat /\ c \in Nat
    BY <1>3 DEF Places
  <2> QED
    BY <2>1, <2>2 DEF Reached
<1>5. Position(tail) = k /\ TakenCount = t
  BY <1>1, <1>4, Counts DEF PlacesCount
<1>6. \A j, u \in Nat : Reached(j, u)' => Position(tail)' = j /\ TakenCount' = u
  <2>1. PlacesCount'
    BY <1>2, Counts, PTL
  <2> QED
    BY <2>1 DEF PlacesCount
<1>7. ASSUME UNCHANGED <<order, Linked>>, Reached(k, t)', Phase' = Phase PROVE UNCHANGED Fifo!vars
  BY <1>5, <1>6, <1>7 DEF Fifo!vars, Linked, Phase
<1>8. ASSUME SameList, UNCHANGED <<tail, cursor>>, Phase' = Phase, Stopped' = Stopped
      PROVE  UNCHANGED Fifo!vars
  <2>1. Reached(k, t)'
    BY <1>4, <1>8 DEF Reached, SameList, Places, At
  <2> QED
    BY <1>7, <1>8, <2>1 DEF SameList
<1>9. CASE ConsumerStep
  <2>1. SameList
    BY <1>1, <1>9, ConsumerKeepsList
  <2>2. \A j \in Places : j \in Places' /\ At(j)' = At(j)
    BY <2>1 DEF SameList, Places, At
  <2>3. ASSUME NEW c \in Places, next[At(c)] # Null
        PROVE  /\ c < Len(order) /\ c + 1 \in Places
               /\ next[At(c)] = At(c + 1)
               /\ order[c + 1] \in Linked
    BY <1>1, <1>3, <2>3, NextPlace DEF Places, At
  <2>4. CASE SpinTake \/ FoundTake
    <3>1. /\ next[tail] # Null /\ tail' = next[tail] /\ cpc' = "run"
          /\ cpc \in {"spin", "found"}
      BY <2>4 DEF SpinTake, FoundTake, Take, ConsumerGoes
    <3>2. t = k /\ k \in Places /\ tail = At(k)
      BY <1>4, <3>1 DEF Reached, Stopped
    <3>3. Reached(k + 1, k + 1)'
      BY <2>2, <2>3, <3>1, <3>2 DEF Reached, Stopped
    <3>4. Position(tail)' = k + 1 /\ TakenCount' = k + 1
      BY <1>6, <3>3
    <3>5. Fifo!Serve
      BY <1>5, <2>1, <2>3, <3>1, <3>2, <3>4 DEF Fifo!Serve, Fifo!Visible, SameList, Linked
    <3> QED
      BY <3>5 DEF Fifo!Next
  <2>5. CASE Run
    <3>1. CASE tail \in Killers
      <4>1. cpc = "run" /\ cpc' = "drain" /\ cursor' = tail /\ tail' = tail
        BY <2>5, <3>1 DEF Run, ConsumerGoes
      <4>2. t = k /\ Reached(k, t)'
        BY <1>4, <2>2, <4>1 DEF Reached, Stopped
      <4>3. Fifo!Stop
        BY <1>5, <1>6, <2>1, <4>1, <4>2 DEF Fifo!Stop, SameList, Linked
      <4> QED
        BY <4>3 DEF Fifo!Next
    <3>2. CASE tail \notin Killers
      BY <1>8, <2>1, <2>5, <3>2 DEF Run, ConsumerGoes, Phase, Stopped
    <3> QED
      BY <3>1, <3>2
  <2>6. CASE InsideEventCount
    <3>1. tail' = tail /\ EC!WaiterInside
      BY <2>6 DEF InsideEventCount
    <3>2. CASE wpc' = "left"
      <4>1. wpc = "blocked"
        BY <3>1, <3>2 DEF EC!WaiterInside, EC!PumpSpurious, EC!Announce, EC!StampEpoch, EC!RetireStep,
             EC!RetireCheck, EC!RetireLock, EC!RetireLocked, EC!WakeUp, EC!LeaveCancelled, EC!WaiterGoes
      <4>2. cpc = "wait" /\ cpc' = "drain" /\ cursor' = tail
        BY <1>1, <2>6, <3>2, <4>1 DEF InsideEventCount, ParkInv
      <4>3. t = k /\ Reached(k, t)'
        BY <1>4, <2>2, <3>1, <4>2 DEF Reached, Stopped
      <4>4. Fifo!Stop
        BY <1>5, <1>6, <2>1, <4>2, <4>3 DEF Fifo!Stop, SameList, Linked
      <4> QED
        BY <4>4 DEF Fifo!Next
    <3>3. CASE wpc' # "left"
      BY <1>8, <2>1, <2>6, <3>1, <3>3 DEF InsideEventCount, Phase, Stopped
    <3> QED
      BY <3>2, <3>3
  <2>7. CASE DrainNext
    <3>1. cpc = "drain" /\ cpc' = cpc /\ tail' = tail /\ next[cursor] # Null /\ cursor' = next[cursor]
      BY <2>7 DEF DrainNext
    <3>2. t \in Places /\ cursor = At(t)
      BY <1>4, <3>1 DEF Reached, Stopped
    <3>3. Reached(k, t + 1)'
      BY <1>4, <2>2, <2>3, <3>1, <3>2 DEF Reached, Stopped
    <3>4. Position(tail)' = k /\ TakenCount' = t + 1
      BY <1>6, <3>3
    <3>5. Fifo!Drop
      BY <1>5, <2>1, <2>3, <3>1, <3>2, <3>4 DEF Fifo!Drop, Fifo!Visible, SameList, Linked
    <3> QED
      BY <3>5 DEF Fifo!Next
  <2>8. CASE DrainEnd
    <3>1. cpc = "drain" /\ cpc' = "dispose" /\ UNCHANGED <<tail, cursor>> /\ next[cursor] = Null
      BY <2>8 DEF DrainEnd, ConsumerGoes
    <3>2. t \in Places /\ cursor = At(t) /\ Reached(k, t)'
      BY <1>4, <2>2, <3>1 DEF Reached, Stopped
    <3>3. t < Len(order) => order[t + 1] \notin Linked
      <4>1. order \in Seq(Items) /\ (t < Len(order) => t + 1 \in 1 .. Len(order) /\ At(t + 1) = order[t + 1])
        BY <1>1, <1>3 DEF TypeOK, At
      <4> QED
        BY <1>1, <3>1, <3>2, <4>1, ItemsAssumption DEF ListInv
    <3>4. Fifo!End
      BY <1>5, <1>6, <2>1, <3>1, <3>2, <3>3 DEF Fifo!End, Fifo!Visible, SameList, Linked
    <3> QED
      BY <3>4 DEF Fifo!Next
  <2>9. CASE StopSpinning \/ Park \/ Recheck \/ WaitForItem \/ RetireFound \/ Dispose
    <3>1. UNCHANGED <<tail, cursor>> /\ Phase' = Phase /\ Stopped' = Stopped
      BY <2>9 DEF StopSpinning, Park, Recheck, WaitForItem, RetireFound, Dispose, ConsumerGoes,
                  consumerVars, Phase, Stopped
    <3> QED
      BY <1>8, <2>1, <3>1
  <2> QED
    BY <1>9, <2>4, <2>5, <2>6, <2>7, <2>8, <2>9 DEF ConsumerStep
<1>10. ASSUME NEW i \in Items, CheckToken(i) \/ NotifyOne(i) \/ NotifyStep(i)
       PROVE  UNCHANGED Fifo!vars
  BY <1>1, <1>8, <1>10, NotifyKeepsList DEF Phase, Stopped
<1>11. ASSUME NEW i \in Items, Exchange(i) PROVE Fifo!Next
  <2>1. /\ UNCHANGED <<tail, cursor, cpc>> /\ order' = Append(order, i)
        /\ Linked' = Linked /\ i \in Absent
    BY <1>1, <1>11 DEF TypeOK, Exchange, ProducerGoes, consumerVars, Linked, Absent
  <2>2. Places \subseteq Places' /\ \A j \in Places : At(j)' = At(j)
    BY <1>1, <1>3, <1>11, <2>1, ExchangeShape DEF TypeOK, Places
  <2>3. Reached(k, t)'
    BY <1>4, <2>1, <2>2 DEF Reached, Stopped
  <2>4. i \notin Fifo!Pushed
    BY <1>1, <2>1 DEF Fifo!Pushed, OrderInv
  <2>5. Fifo!Push(i)
    BY <1>5, <1>6, <2>1, <2>3, <2>4 DEF Fifo!Push, Linked
  <2> QED
    BY <2>5 DEF Fifo!Next
<1>12. ASSUME NEW i \in Items, LinkNode(i) PROVE Fifo!Next
  <2>1. /\ UNCHANGED <<tail, cursor, cpc, order>>
        /\ Linked' = Linked \cup {i} /\ i \notin Linked \cup Absent
    BY <1>1, <1>12 DEF TypeOK, LinkNode, ProducerGoes, consumerVars, Linked, Absent
  <2>2. Reached(k, t)'
    BY <1>4, <2>1 DEF Reached, Stopped, Places, At
  <2>3. i \in Fifo!Pushed
    BY <1>1, <2>1 DEF Fifo!Pushed, OrderInv
  <2>4. Fifo!Link(i)
    BY <1>5, <1>6, <2>1, <2>2, <2>3 DEF Fifo!Link, Linked
  <2> QED
    BY <2>4 DEF Fifo!Next
<1>13. CASE CompleteAdding \/ UNCHANGED vars
  <2>1. UNCHANGED <<nodeVars, consumerVars, ppc>>
    BY <1>13 DEF CompleteAdding, vars
  <2> QED
    BY <1>8, <2>1 DEF SameList, nodeVars, consumerVars, Absent, Linked, Phase, Stopped
<1> QED
  BY <1>9, <1>10, <1>11, <1>12, <1>13 DEF Next, ProducerInside

(***************************************************************************)
(* BlockingMpscQueue implements MpscFifo for any number of producers: with *)
(* its nodes, its event count and its drain it serves items in the order   *)
(* of their exchanges, none twice and none skipped.                        *)
(***************************************************************************)
THEOREM QueueIsFifo == Spec => ImplementsFifo
<1>1. IInv => TypeOK
  BY DEF IInv
<1> QED
  BY <1>1, Inductive, InitFifo, InitShape, ShapeStep, FifoStep, PTL DEF Spec, ImplementsFifo, Fifo!Spec

-----------------------------------------------------------------------------
(* Exceptions out of Enqueue                                               *)

\* Only a consumer that has ended disposes of the semaphore, or makes Enqueue throw.
EndInv ==
  /\ wpc = "disposed" => cpc = "ended"
  /\ \A i \in Items : ppc[i] = "threw" => cpc = "ended"

LEMMA EndStep == IInv /\ EndInv /\ [Next]_vars => EndInv'
<1> SUFFICES ASSUME IInv, EndInv, [Next]_vars PROVE EndInv'
  OBVIOUS
<1>1. TypeOK /\ ECP!IInv /\ EC!TypeOK
  BY CountTypes DEF IInv
<1> USE DEF EndInv, ConsumerGoes, ProducerGoes, nodeVars, consumerVars, countVars
<1>2. CASE ConsumerStep
  <2>1. ppc' = ppc /\ (cpc = "ended" => cpc' = "ended")
    <3>1. CASE InsideEventCount
      <4>1. wpc' = "left" => wpc = "blocked"
        BY <3>1 DEF InsideEventCount, EC!WaiterInside, EC!PumpSpurious, EC!Announce, EC!StampEpoch,
             EC!RetireStep, EC!RetireCheck, EC!RetireLock, EC!RetireLocked, EC!WakeUp, EC!WaiterGoes,
             EC!LeaveCancelled
      <4> QED
        BY <3>1, <4>1 DEF InsideEventCount, IInv, ParkInv
    <3>2. CASE ~InsideEventCount
      BY <1>2, <3>2 DEF ConsumerStep, SpinTake, FoundTake, Take, StopSpinning, Park, Recheck,
         WaitForItem, RetireFound, Run, Dispose, DrainNext, DrainEnd
    <3> QED
      BY <3>1, <3>2
  <2>2. wpc' = "disposed" => wpc = "disposed" \/ cpc' = "ended"
    BY <1>2 DEF ConsumerStep, SpinTake, FoundTake, Take, StopSpinning, Park, Recheck, WaitForItem,
       RetireFound, InsideEventCount, Run, Dispose, DrainNext, DrainEnd, EC!PrepareWait,
       EC!BeginRetire, EC!Wait, EC!BeginWait, EC!WaiterInside, EC!PumpSpurious, EC!Announce,
       EC!StampEpoch, EC!RetireStep, EC!RetireCheck, EC!RetireLock, EC!RetireLocked, EC!WakeUp,
       EC!LeaveCancelled, EC!WaiterGoes
  <2> QED
    BY <2>1, <2>2
<1>3. ASSUME NEW i \in Items, CheckToken(i) \/ Exchange(i) \/ LinkNode(i) \/ NotifyOne(i)
      PROVE  EndInv'
  BY <1>1, <1>3 DEF TypeOK, CheckToken, Exchange, LinkNode, NotifyOne, EC!NotifyNobody, EC!NotifySeen
<1>4. ASSUME NEW i \in Items, NotifyStep(i) PROVE EndInv'
  <2>1. /\ EC!NotifierInside(i) /\ cpc' = cpc
        /\ ppc' = [ppc EXCEPT ![i] = ppc'[i]]
        /\ ppc'[i] = "threw" => npc'[i] = "threw"
    BY <1>1, <1>4 DEF TypeOK, NotifyStep
  <2>2. wpc' = wpc
    BY <2>1 DEF EC!NotifierInside, EC!NotifyLock, EC!NotifyTooLate, EC!BumpEpoch, EC!Withdraw,
         EC!Release, EC!ReleaseThrows
  <2>3. ASSUME npc'[i] = "threw" PROVE wpc = "disposed"
    <3>1. EC!ReleaseThrows(i)
      BY <1>1, <2>1, <2>3 DEF EC!TypeOK, EC!NotifierInside, EC!NotifyLock, EC!NotifyTooLate,
           EC!BumpEpoch, EC!Withdraw, EC!Release, EC!NotifierGoes
    <3>2. npc[i] = "release" /\ (wpc = "disposed" \/ sem = 2)
      BY <3>1 DEF EC!ReleaseThrows, EC!NotifierGoes, EC!SemaphoreMaximum
    <3>3. sem = 0
      BY <1>1, <3>2 DEF ECP!IInv, ECP!TokenInv, ECP!SingleToken, ECP!Committed
    <3> QED
      BY <3>2, <3>3
  <2> QED
    BY <1>1, <2>1, <2>2, <2>3 DEF TypeOK
<1>5. CASE CompleteAdding
  BY <1>5 DEF CompleteAdding, EC!Cancel
<1>6. CASE UNCHANGED vars
  BY <1>6 DEF vars
<1> QED
  BY <1>2, <1>3, <1>4, <1>5, <1>6 DEF Next, ProducerInside

(***************************************************************************)
(* Enqueue lets no exception through but the cancellation of its token as  *)
(* long as the consumer's loop has not ended: the semaphore is never full, *)
(* however many producers notify, and is not disposed of before.           *)
(***************************************************************************)
THEOREM EnqueueThrowsLate == Spec => []\A i \in Items : ppc[i] = "threw" => cpc = "ended"
<1>1. Init => EndInv
  BY DEF Init, EC!Init, EndInv
<1>2. EndInv => \A i \in Items : ppc[i] = "threw" => cpc = "ended"
  BY DEF EndInv
<1> QED
  BY <1>1, <1>2, EndStep, Inductive, PTL DEF Spec
=============================================================================
