---------------------------- MODULE EventCount ----------------------------
(***************************************************************************)
(* SimplifiedEventCount: the condition variable that parks the single      *)
(* consumer of a BlockingMpscQueue and that any number of producers        *)
(* signal.  One action is one access to memory shared between the waiter   *)
(* and the notifiers, or one operation on the lock or on the semaphore.    *)
(*                                                                         *)
(* Two pairs of accesses have no order of their own in the code and are    *)
(* taken in either order here: the store to _InWait and the load of        *)
(* _Epoch at the end of PrepareWait, which a store buffer swaps, and the   *)
(* stores to _Epoch and _InWait under NotifyOne's lock, as a reader that   *)
(* does not hold the lock sees them.                                       *)
(***************************************************************************)
EXTENDS Integers

CONSTANTS
  Notifiers,       \* the threads that call NotifyOne, each one call at a time
  EpochModulus,    \* _Epoch is a uint: 2^32 in the code
  Waiter, Nobody   \* owners of _Lock besides the notifiers

ASSUME EpochAssumption == EpochModulus \in Nat \ {0}
ASSUME OwnerAssumption == /\ Waiter \notin Notifiers
                          /\ Nobody \notin Notifiers
                          /\ Waiter # Nobody

VARIABLES
  epoch,           \* _Epoch
  epochStarted,    \* _EpochStarted
  spurious,        \* _Spurious
  inWait,          \* _InWait
  sem,             \* the count of _Semaphore
  lock,            \* the owner of _Lock
  cancelled,       \* the token given to Wait is cancelled
  wpc,             \* where the waiter is
  npc              \* where each notifier is

vars == <<epoch, epochStarted, spurious, inWait, sem, lock, cancelled, wpc, npc>>

SemaphoreMaximum == 2

(***************************************************************************)
(* The waiter is "out" between two calls, "prepared" between PrepareWait   *)
(* and the Wait or RetireWait that must follow, and has "left" for good    *)
(* once Wait threw the cancellation; the rest is inside a call.            *)
(***************************************************************************)
Announcing == {"announce", "stamp", "publish"}
Retiring == {"retire", "retireLock", "retireLocked"}
WaiterPlaces == {"out", "pump", "prepared", "blocked", "left", "disposed"}
                  \cup Announcing \cup Retiring
NotifierPlaces == {"idle", "lock", "locked", "bumped", "withdrawn", "release", "threw"}

TypeOK ==
  /\ epoch \in 0 .. EpochModulus - 1
  /\ epochStarted \in 0 .. EpochModulus - 1
  /\ spurious \in BOOLEAN
  /\ inWait \in BOOLEAN
  /\ sem \in 0 .. SemaphoreMaximum
  /\ lock \in Notifiers \cup {Waiter, Nobody}
  /\ cancelled \in BOOLEAN
  /\ wpc \in WaiterPlaces
  /\ npc \in [Notifiers -> NotifierPlaces]

Init ==
  /\ epoch = 0
  /\ epochStarted = 0
  /\ spurious = FALSE
  /\ inWait = FALSE
  /\ sem = 0
  /\ lock = Nobody
  /\ cancelled = FALSE
  /\ wpc = "out"
  /\ npc = [n \in Notifiers |-> "idle"]

WaiterGoes(from, to) == wpc = from /\ wpc' = to

NotifierGoes(n, from, to) == npc[n] = from /\ npc' = [npc EXCEPT ![n] = to]

----------------------------------------------------------------------------
(* PrepareWait                                                             *)

\* A wakeup that the previous RetireWait could not prevent is consumed first.
PrepareWait ==
  /\ WaiterGoes("out", IF spurious THEN "pump" ELSE "announce")
  /\ spurious' = FALSE
  /\ UNCHANGED <<epoch, epochStarted, inWait, sem, lock, cancelled, npc>>

\* _Semaphore.WaitOne() with no token: nothing but a Release ends it.
PumpSpurious ==
  /\ WaiterGoes("pump", "announce")
  /\ sem > 0
  /\ sem' = sem - 1
  /\ UNCHANGED <<epoch, epochStarted, spurious, inWait, lock, cancelled, npc>>

Announce ==
  /\ WaiterGoes("announce", "stamp") \/ WaiterGoes("publish", "prepared")
  /\ inWait' = TRUE
  /\ UNCHANGED <<epoch, epochStarted, spurious, sem, lock, cancelled, npc>>

StampEpoch ==
  /\ WaiterGoes("announce", "publish") \/ WaiterGoes("stamp", "prepared")
  /\ epochStarted' = epoch
  /\ UNCHANGED <<epoch, spurious, inWait, sem, lock, cancelled, npc>>

----------------------------------------------------------------------------
(* RetireWait                                                              *)

\* The first statement; Wait falls into RetireWait when the epoch has moved.
BeginRetire ==
  /\ WaiterGoes("prepared", "retire")
  /\ spurious' = TRUE
  /\ UNCHANGED <<epoch, epochStarted, inWait, sem, lock, cancelled, npc>>

RetireCheck ==
  /\ WaiterGoes("retire", IF inWait THEN "retireLock" ELSE "out")
  /\ UNCHANGED <<epoch, epochStarted, spurious, inWait, sem, lock, cancelled, npc>>

RetireLock ==
  /\ WaiterGoes("retireLock", "retireLocked")
  /\ lock = Nobody
  /\ lock' = Waiter
  /\ UNCHANGED <<epoch, epochStarted, spurious, inWait, sem, cancelled, npc>>

\* Faulty variant: _Spurious is not reset when the announcement is taken back.
RetireLockedKeepsSpurious ==
  /\ WaiterGoes("retireLocked", "out")
  /\ inWait' = FALSE
  /\ lock' = Nobody
  /\ UNCHANGED <<epoch, epochStarted, spurious, sem, cancelled, npc>>

RetireLocked ==
  /\ WaiterGoes("retireLocked", "out")
  /\ inWait' = FALSE
  /\ spurious' = (spurious /\ ~inWait)
  /\ lock' = Nobody
  /\ UNCHANGED <<epoch, epochStarted, sem, cancelled, npc>>

RetireStep == RetireCheck \/ RetireLock \/ RetireLocked

----------------------------------------------------------------------------
(* Wait                                                                    *)

BeginWait ==
  /\ epochStarted = epoch
  /\ WaiterGoes("prepared", "blocked")
  /\ UNCHANGED <<epoch, epochStarted, spurious, inWait, sem, lock, cancelled, npc>>

Wait == BeginWait \/ (epochStarted # epoch /\ BeginRetire)

\* WaitHandle.WaitAny prefers the semaphore when both handles are signalled.
WakeUp ==
  /\ WaiterGoes("blocked", "out")
  /\ sem > 0
  /\ sem' = sem - 1
  /\ UNCHANGED <<epoch, epochStarted, spurious, inWait, lock, cancelled, npc>>

\* Faulty variant: a wait on the semaphore alone, deaf to the token.
LeaveCancelledNever == FALSE /\ UNCHANGED vars

\* The OperationCanceledException leaves _InWait as it is.
LeaveCancelled ==
  /\ WaiterGoes("blocked", "left")
  /\ sem = 0
  /\ cancelled
  /\ UNCHANGED <<epoch, epochStarted, spurious, inWait, sem, lock, cancelled, npc>>

----------------------------------------------------------------------------
(* NotifyOne, Dispose and the cancellation of the token                    *)

NotifyNobody(n) ==
  /\ ~inWait
  /\ NotifierGoes(n, "idle", "idle")
  /\ UNCHANGED <<epoch, epochStarted, spurious, inWait, sem, lock, cancelled, wpc>>

NotifySeen(n) ==
  /\ inWait
  /\ NotifierGoes(n, "idle", "lock")
  /\ UNCHANGED <<epoch, epochStarted, spurious, inWait, sem, lock, cancelled, wpc>>

NotifyLock(n) ==
  /\ NotifierGoes(n, "lock", "locked")
  /\ lock = Nobody
  /\ lock' = n
  /\ UNCHANGED <<epoch, epochStarted, spurious, inWait, sem, cancelled, wpc>>

\* Faulty variant: _InWait is not read again under the lock.
NotifyRecheckDropped == TRUE

\* The second reading of _InWait, by a notifier that owns the lock.
NotifyRecheck == inWait

\* Faulty variant: an early return that skips the end of the lock block.
NotifyTooLateKeepsLock(n) ==
  /\ NotifierGoes(n, "locked", "idle")
  /\ ~NotifyRecheck
  /\ UNCHANGED <<epoch, epochStarted, spurious, inWait, sem, lock, cancelled, wpc>>

NotifyTooLate(n) ==
  /\ NotifierGoes(n, "locked", "idle")
  /\ ~NotifyRecheck
  /\ lock' = Nobody
  /\ UNCHANGED <<epoch, epochStarted, spurious, inWait, sem, cancelled, wpc>>

BumpEpoch(n) ==
  /\ \/ /\ NotifierGoes(n, "locked", "bumped")
        /\ NotifyRecheck
        /\ lock' = lock
     \/ /\ NotifierGoes(n, "withdrawn", "release")
        /\ lock' = Nobody
  /\ epoch' = (epoch + 1) % EpochModulus
  /\ UNCHANGED <<epochStarted, spurious, inWait, sem, cancelled, wpc>>

Withdraw(n) ==
  /\ \/ /\ NotifierGoes(n, "locked", "withdrawn")
        /\ NotifyRecheck
        /\ lock' = lock
     \/ /\ NotifierGoes(n, "bumped", "release")
        /\ lock' = Nobody
  /\ inWait' = FALSE
  /\ UNCHANGED <<epoch, epochStarted, spurious, sem, cancelled, wpc>>

\* Faulty variant: the semaphore is not released.
ReleaseLost(n) ==
  /\ NotifierGoes(n, "release", "idle")
  /\ wpc # "disposed"
  /\ UNCHANGED <<epoch, epochStarted, spurious, inWait, sem, lock, cancelled, wpc>>

Release(n) ==
  /\ NotifierGoes(n, "release", "idle")
  /\ wpc # "disposed"
  /\ sem < SemaphoreMaximum
  /\ sem' = sem + 1
  /\ UNCHANGED <<epoch, epochStarted, spurious, inWait, lock, cancelled, wpc>>

\* SemaphoreFullException, or ObjectDisposedException once Dispose has run.
ReleaseThrows(n) ==
  /\ NotifierGoes(n, "release", "threw")
  /\ wpc = "disposed" \/ sem = SemaphoreMaximum
  /\ UNCHANGED <<epoch, epochStarted, spurious, inWait, sem, lock, cancelled, wpc>>

Cancel ==
  /\ ~cancelled
  /\ cancelled' = TRUE
  /\ UNCHANGED <<epoch, epochStarted, spurious, inWait, sem, lock, wpc, npc>>

\* Only the waiter's own thread disposes, outside of any call.
Dispose ==
  /\ WaiterGoes("out", "disposed") \/ WaiterGoes("left", "disposed")
  /\ UNCHANGED <<epoch, epochStarted, spurious, inWait, sem, lock, cancelled, npc>>

----------------------------------------------------------------------------
(* What runs by itself once a call has begun, and what a client decides.   *)

WaiterInside ==
  PumpSpurious \/ Announce \/ StampEpoch \/ RetireStep \/ WakeUp \/ LeaveCancelled

NotifierInside(n) ==
  \/ NotifyLock(n) \/ NotifyTooLate(n) \/ BumpEpoch(n) \/ Withdraw(n)
  \/ Release(n) \/ ReleaseThrows(n)

WaiterCalls == PrepareWait \/ BeginRetire \/ Wait \/ Dispose

NotifierCalls(n) == NotifyNobody(n) \/ NotifySeen(n)

Next ==
  \/ WaiterInside
  \/ WaiterCalls
  \/ Cancel
  \/ \E n \in Notifiers : NotifierInside(n) \/ NotifierCalls(n)

Spec == Init /\ [][Next]_vars

(***************************************************************************)
(* A thread inside a call keeps running.  Nothing is assumed of callers:   *)
(* the waiter may stay out or prepared, a notifier may never notify.  Weak *)
(* fairness is enough for the lock, which no thread takes again and again  *)
(* while another one waits for the same announcement to be withdrawn.      *)
(***************************************************************************)
Fairness ==
  /\ WF_vars(WaiterInside)
  /\ \A n \in Notifiers : WF_vars(NotifierInside(n))

FairSpec == Spec /\ Fairness

----------------------------------------------------------------------------
(* Properties                                                              *)

\* A notification is under way: _InWait is taken back, the token not yet given.
Committed(n) == npc[n] \in {"withdrawn", "release"}

\* The waiter has announced itself and has neither retired nor been notified.
Announced == wpc \in {"stamp", "prepared", "blocked", "left"} \cup Retiring

\* A token of the semaphore belongs to the waiter: it was released, or is about
\* to be, by a notifier that took this very announcement back.
Owed ==
  \/ wpc = "out" /\ spurious
  \/ wpc = "pump"
  \/ Announced /\ ~inWait

(***************************************************************************)
(* Tokens are neither lost nor invented: the semaphore holds a token, or a *)
(* notifier is bringing one, exactly when the waiter will consume one, be  *)
(* it by waking up or by pumping at its next PrepareWait.  A token too     *)
(* many is a wakeup with nothing to take; one too few is a PrepareWait     *)
(* (line 26, no cancellation token) or a Wait that never returns.          *)
(***************************************************************************)
TokenAccounting ==
  wpc # "disposed" => ((sem > 0 \/ \E n \in Notifiers : Committed(n)) <=> Owed)

(***************************************************************************)
(* Two notifications are never in flight together, and a Release never     *)
(* finds a token in the semaphore: its maximum of 2 cannot be exceeded     *)
(* (SemaphoreFullException out of Enqueue) however many producers race.    *)
(***************************************************************************)
SingleToken ==
  \A n \in Notifiers : Committed(n) =>
    /\ sem = 0
    /\ \A m \in Notifiers : Committed(m) => m = n

(***************************************************************************)
(* Release throws only once the semaphore is disposed of: there is no      *)
(* SemaphoreFullException, which Enqueue would let through to its caller.  *)
(***************************************************************************)
NeverFull == [][\A n \in Notifiers : ReleaseThrows(n) => wpc = "disposed"]_vars

\* The pump of a spurious wakeup in PrepareWait cannot be cancelled; it ends.
PumpEnds == wpc = "pump" ~> wpc # "pump"

\* A notifier that took the announcement back wakes the waiter it found.
NotifiedWakes == (wpc = "blocked" /\ ~inWait) ~> wpc # "blocked"
=============================================================================
