------------------------- MODULE BlockingMpscQueue -------------------------
(***************************************************************************)
(* BlockingMpscQueue and the loop of MonoThreadedFiber.Consume that empties*)
(* it: any number of producers in Enqueue, one consumer in OnElements that *)
(* then drains with GetUnsafeQueue and disposes, and CompleteAdding at any *)
(* moment.  The event count that parks the consumer is the module          *)
(* EventCount, step for step.                                              *)
(*                                                                         *)
(* Each item is enqueued once, so an item also names its node, the call of *)
(* Enqueue that brings it and that call's part in NotifyOne.  Calls of one *)
(* thread follow one another, which is one of the interleavings here.      *)
(***************************************************************************)
EXTENDS Integers, Sequences

CONSTANTS
  Items,
  Killers,         \* items whose callback throws OperationCanceledException
  Stub,            \* the empty node of the constructor
  Null,
  EpochModulus, Consumer, Nobody

ASSUME ItemsAssumption == /\ Killers \subseteq Items
                          /\ {Stub, Null, Consumer, Nobody} \cap Items = {}
                          /\ Stub # Null /\ Consumer # Nobody
                          /\ EpochModulus \in Nat \ {0}

VARIABLES
  next,            \* Node.Next
  head,            \* _Head
  tail,            \* _Tail
  cursor,          \* where GetUnsafeQueue is
  prev,            \* Enqueue's local variable
  ppc,             \* where each call of Enqueue is
  cpc,             \* where the consumer is
  order,           \* history: the items in the order of their Exchange
  epoch, epochStarted, spurious, inWait, sem, lock, cancelled, wpc, npc

EC == INSTANCE EventCount WITH Notifiers <- Items, Waiter <- Consumer

countVars == <<epoch, epochStarted, spurious, inWait, sem, lock, cancelled, wpc, npc>>
nodeVars == <<next, head, prev, order>>
consumerVars == <<tail, cursor, cpc>>
vars == <<nodeVars, consumerVars, ppc, countVars>>

Nodes == Items \cup {Stub}

ProducerPlaces ==
  {"new", "checked", "swapped", "linked", "notifying", "returned", "rejected", "threw"}
ConsumerPlaces == {"spin", "park", "wait", "found", "run", "drain", "dispose", "ended"}

TypeOK ==
  /\ next \in [Nodes -> Items \cup {Null}]
  /\ head \in Nodes
  /\ tail \in Nodes
  /\ cursor \in Nodes
  /\ prev \in [Items -> Nodes \cup {Null}]
  /\ ppc \in [Items -> ProducerPlaces]
  /\ cpc \in ConsumerPlaces
  /\ order \in Seq(Items)
  /\ EC!TypeOK

Init ==
  /\ next = [n \in Nodes |-> Null]
  /\ head = Stub
  /\ tail = Stub
  /\ cursor = Stub
  /\ prev = [i \in Items |-> Null]
  /\ ppc = [i \in Items |-> "new"]
  /\ cpc = "spin"
  /\ order = <<>>
  /\ EC!Init

----------------------------------------------------------------------------
(* Enqueue: the check of the token and the exchange are not one step.      *)

ProducerGoes(i, from, to) == ppc[i] = from /\ ppc' = [ppc EXCEPT ![i] = to]

\* ThrowIfCancellationRequested
CheckToken(i) ==
  /\ ProducerGoes(i, "new", IF cancelled THEN "rejected" ELSE "checked")
  /\ UNCHANGED <<nodeVars, consumerVars, countVars>>

Exchange(i) ==
  /\ ProducerGoes(i, "checked", "swapped")
  /\ prev' = [prev EXCEPT ![i] = head]
  /\ head' = i
  /\ order' = Append(order, i)
  /\ UNCHANGED <<next, consumerVars, countVars>>

LinkNode(i) ==
  /\ ProducerGoes(i, "swapped", "linked")
  /\ next' = [next EXCEPT ![prev[i]] = i]
  /\ UNCHANGED <<head, prev, order, consumerVars, countVars>>

NotifyOne(i) ==
  /\ \/ EC!NotifyNobody(i) /\ ProducerGoes(i, "linked", "returned")
     \/ EC!NotifySeen(i) /\ ProducerGoes(i, "linked", "notifying")
  /\ UNCHANGED <<nodeVars, consumerVars>>

\* ReleaseThrows ends Enqueue with an exception that is not a cancellation.
NotifyStep(i) ==
  /\ EC!NotifierInside(i)
  /\ ProducerGoes(i, "notifying", CASE npc'[i] = "idle" -> "returned"
                                    [] npc'[i] = "threw" -> "threw"
                                    [] OTHER -> "notifying")
  /\ UNCHANGED <<nodeVars, consumerVars>>

\* Dispose of the token's source comes before the end, and makes Cancel throw.
CompleteAdding ==
  /\ cpc # "ended"
  /\ EC!Cancel
  /\ UNCHANGED <<nodeVars, consumerVars, ppc>>

----------------------------------------------------------------------------
(* Next and OnElements                                                     *)

ConsumerGoes(from, to) == cpc = from /\ cpc' = to

\* The two reads of _Tail.Next that a take makes agree: only a producer that
\* links writes it, once.
Take(from) ==
  /\ next[tail] # Null
  /\ ConsumerGoes(from, "run")
  /\ tail' = next[tail]
  /\ UNCHANGED <<nodeVars, cursor, ppc, countVars>>

SpinTake == Take("spin")

StopSpinning ==
  /\ next[tail] = Null
  /\ ConsumerGoes("spin", "park")
  /\ UNCHANGED <<nodeVars, tail, cursor, ppc, countVars>>

Park ==
  /\ EC!PrepareWait
  /\ ConsumerGoes("park", "park") \/ ConsumerGoes("wait", "park")
  /\ UNCHANGED <<nodeVars, tail, cursor, ppc>>

\* Faulty variant: no second look at the queue once the wait is announced.
RecheckSkipped ==
  /\ wpc = "prepared"
  /\ ConsumerGoes("park", "wait")
  /\ UNCHANGED <<nodeVars, tail, cursor, ppc, countVars>>

Recheck ==
  /\ wpc = "prepared"
  /\ ConsumerGoes("park", IF next[tail] = Null THEN "wait" ELSE "found")
  /\ UNCHANGED <<nodeVars, tail, cursor, ppc, countVars>>

WaitForItem ==
  /\ cpc = "wait" /\ EC!Wait
  /\ UNCHANGED <<nodeVars, consumerVars, ppc>>

RetireFound ==
  /\ cpc = "found" /\ EC!BeginRetire
  /\ UNCHANGED <<nodeVars, consumerVars, ppc>>

FoundTake == wpc = "out" /\ Take("found")

\* What goes on inside PrepareWait, Wait and RetireWait; the exception of Wait
\* ends OnElements.
InsideEventCount ==
  /\ EC!WaiterInside
  /\ IF wpc' = "left"
       THEN cpc' = "drain" /\ cursor' = tail
       ELSE UNCHANGED <<cpc, cursor>>
  /\ UNCHANGED <<nodeVars, tail, ppc>>

\* The callback returns, or throws the one exception that Consume catches.
Run ==
  /\ ConsumerGoes("run", IF tail \in Killers THEN "drain" ELSE "spin")
  /\ cursor' = IF tail \in Killers THEN tail ELSE cursor
  /\ UNCHANGED <<nodeVars, tail, ppc, countVars>>

----------------------------------------------------------------------------
(* The end of Consume: cancel what GetUnsafeQueue yields, then dispose.    *)

DrainNext ==
  /\ cpc = "drain"
  /\ next[cursor] # Null
  /\ cursor' = next[cursor]
  /\ UNCHANGED <<nodeVars, tail, cpc, ppc, countVars>>

\* Faulty variant: the drain may stop before the last node it can reach.
DrainEndEarly ==
  /\ ConsumerGoes("drain", "dispose")
  /\ UNCHANGED <<nodeVars, tail, cursor, ppc, countVars>>

DrainEnd ==
  /\ next[cursor] = Null
  /\ ConsumerGoes("drain", "dispose")
  /\ UNCHANGED <<nodeVars, tail, cursor, ppc, countVars>>

Dispose ==
  /\ ConsumerGoes("dispose", "ended")
  /\ EC!Dispose
  /\ UNCHANGED <<nodeVars, tail, cursor, ppc>>

ConsumerStep ==
  \/ SpinTake \/ StopSpinning \/ Park \/ Recheck \/ WaitForItem \/ RetireFound
  \/ FoundTake \/ InsideEventCount \/ Run \/ DrainNext \/ DrainEnd \/ Dispose

ProducerInside(i) == Exchange(i) \/ LinkNode(i) \/ NotifyOne(i) \/ NotifyStep(i)

Next ==
  \/ ConsumerStep
  \/ \E i \in Items : CheckToken(i) \/ ProducerInside(i)
  \/ CompleteAdding

Spec == Init /\ [][Next]_vars

(***************************************************************************)
(* The consumer's thread keeps running, a callback returns, and so does    *)
(* one of the threads inside Enqueue as long as there are any; nobody has  *)
(* to call Enqueue or CompleteAdding.                                      *)
(***************************************************************************)
Fairness ==
  /\ WF_vars(ConsumerStep)
  /\ WF_vars(\E i \in Items : ProducerInside(i))

FairSpec == Spec /\ Fairness

----------------------------------------------------------------------------
(* Properties                                                              *)

Position(n) == IF n = Stub THEN 0 ELSE CHOOSE p \in 1 .. Len(order) : order[p] = n

Stopped == cpc \in {"drain", "dispose", "ended"}

\* How many items have been served or cancelled.
TakenCount == Position(IF Stopped THEN cursor ELSE tail)

Fifo == INSTANCE MpscFifo WITH
  linked <- {i \in Items : ppc[i] \in {"linked", "notifying", "returned", "threw"}},
  served <- Position(tail),
  taken <- TakenCount,
  phase <- CASE cpc \in {"dispose", "ended"} -> "ended"
             [] cpc = "drain" -> "draining"
             [] OTHER -> "consuming"

(***************************************************************************)
(* The queue implements MpscFifo: items are served in the order of their   *)
(* Exchange, none twice, none skipped; the drain takes up where serving    *)
(* stopped and ends only where no linked node is reachable.                *)
(***************************************************************************)
ImplementsFifo == Fifo!Spec

(***************************************************************************)
(* No lost wakeup: the consumer is never parked beside an element it could *)
(* take unless its wakeup is in the semaphore or some producer has yet to  *)
(* go through NotifyOne.                                                   *)
(***************************************************************************)
NoLostWakeup ==
  wpc = "blocked" /\ next[tail] # Null =>
    sem > 0 \/ \E i \in Items : ppc[i] \in {"linked", "notifying"}

\* Whatever is pushed is served, unless the consumer is stopped first, by
\* CompleteAdding or by a callback: it catches up with the producers again and again.
EveryItemServed == []<>(TakenCount = Len(order) \/ Stopped)

\* CompleteAdding ends the consumer from wherever it is, a pump included.
StopEnds == cancelled ~> cpc = "ended"
=============================================================================
