----------------------------- MODULE MpscFifo -----------------------------
(***************************************************************************)
(* What a fiber relies on in its queue (IMpScQueue), with no node, cursor, *)
(* spinning or parking.  Items take their place in one total order when    *)
(* they are pushed and become visible one by one, in any order, when they  *)
(* are linked.  The single consumer takes them strictly in order, stopping *)
(* at the first one that is not visible; once told to stop, it drops what  *)
(* it would have served and ends at the first item it cannot see.          *)
(*                                                                         *)
(* The gap between Push and Link is part of the promise: nothing is said   *)
(* of an item behind one that is not linked when the consumer ends.        *)
(***************************************************************************)
EXTENDS Naturals, Sequences

CONSTANT Items

VARIABLES
  order,     \* the items pushed, in the order they were pushed
  linked,    \* those the consumer can reach if nothing in front hides them
  served,    \* how many were given to the OnElements callback
  taken,     \* how many were served or dropped
  phase      \* of the consumer

vars == <<order, linked, served, taken, phase>>

Pushed == {order[p] : p \in 1 .. Len(order)}

TypeOK ==
  /\ order \in Seq(Items)
  /\ linked \subseteq Pushed
  /\ served \in 0 .. taken
  /\ taken \in 0 .. Len(order)
  /\ phase \in {"consuming", "draining", "ended"}

Init ==
  /\ order = <<>>
  /\ linked = {}
  /\ served = 0
  /\ taken = 0
  /\ phase = "consuming"

\* The next item in order is there for the consumer.
Visible == taken < Len(order) /\ order[taken + 1] \in linked

Push(i) ==
  /\ i \notin Pushed
  /\ order' = Append(order, i)
  /\ UNCHANGED <<linked, served, taken, phase>>

Link(i) ==
  /\ i \in Pushed \ linked
  /\ linked' = linked \cup {i}
  /\ UNCHANGED <<order, served, taken, phase>>

Serve ==
  /\ phase = "consuming"
  /\ Visible
  /\ taken' = taken + 1
  /\ served' = taken + 1
  /\ UNCHANGED <<order, linked, phase>>

Stop ==
  /\ phase = "consuming"
  /\ phase' = "draining"
  /\ UNCHANGED <<order, linked, served, taken>>

Drop ==
  /\ phase = "draining"
  /\ Visible
  /\ taken' = taken + 1
  /\ UNCHANGED <<order, linked, served, phase>>

End ==
  /\ phase = "draining"
  /\ ~Visible
  /\ phase' = "ended"
  /\ UNCHANGED <<order, linked, served, taken>>

Next ==
  \/ \E i \in Items : Push(i) \/ Link(i)
  \/ Serve \/ Stop \/ Drop \/ End

Spec == Init /\ [][Next]_vars
=============================================================================
