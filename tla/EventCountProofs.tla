-------------------------- MODULE EventCountProofs --------------------------
(***************************************************************************)
(* Safety of SimplifiedEventCount for any number of notifiers and any      *)
(* width of the epoch.                                                     *)
(***************************************************************************)
EXTENDS EventCount, TLAPS

\* Who is inside the lock; a notifier that has only bumped the epoch still
\* finds _InWait set, since nobody else may clear it.
LockInv ==
  /\ wpc = "retireLocked" => lock = Waiter
  /\ \A n \in Notifiers : npc[n] \in {"locked", "bumped", "withdrawn"} => lock = n
  /\ \A n \in Notifiers : npc[n] = "bumped" => inWait

\* _InWait is set only for an announcement that is on, and _Spurious during
\* RetireWait or between it and the next PrepareWait.
WaiterInv ==
  /\ inWait => Announced \/ wpc = "disposed"
  /\ wpc \in Retiring => spurious
  /\ spurious => wpc \in Retiring \cup {"out", "disposed"}

\* There is never more than one token, in the semaphore or on its way; after
\* Dispose no token can be on its way beside an announcement never taken back.
TokenInv ==
  /\ sem < 2
  /\ TokenAccounting
  /\ SingleToken
  /\ wpc = "disposed" /\ inWait => sem = 0 /\ \A n \in Notifiers : ~Committed(n)

IInv == TypeOK /\ LockInv /\ WaiterInv /\ TokenInv

-----------------------------------------------------------------------------
(* Every action keeps the types. *)
LEMMA TypeStep == TypeOK /\ [Next]_vars => TypeOK'
<1> SUFFICES ASSUME TypeOK, [Next]_vars PROVE TypeOK'
  OBVIOUS
<1> USE EpochAssumption DEF TypeOK, WaiterGoes, NotifierGoes, WaiterPlaces,
        NotifierPlaces, Announcing, Retiring, SemaphoreMaximum
<1>1. CASE PrepareWait
  BY <1>1 DEF PrepareWait
<1>2. CASE PumpSpurious
  BY <1>2 DEF PumpSpurious
<1>3. CASE Announce
  BY <1>3 DEF Announce
<1>4. CASE StampEpoch
  BY <1>4 DEF StampEpoch
<1>5. CASE BeginRetire
  BY <1>5 DEF BeginRetire
<1>6. CASE RetireCheck
  BY <1>6 DEF RetireCheck
<1>7. CASE RetireLock
  BY <1>7 DEF RetireLock
<1>8. CASE RetireLocked
  BY <1>8 DEF RetireLocked
<1>9. CASE BeginWait
  BY <1>9 DEF BeginWait
<1>10. CASE WakeUp
  BY <1>10 DEF WakeUp
<1>11. CASE LeaveCancelled
  BY <1>11 DEF LeaveCancelled
<1>12. CASE Cancel
  BY <1>12 DEF Cancel
<1>13. CASE Dispose
  BY <1>13 DEF Dispose
<1>14. ASSUME NEW n \in Notifiers, NotifyNobody(n) PROVE TypeOK'
  BY <1>14 DEF NotifyNobody
<1>15. ASSUME NEW n \in Notifiers, NotifySeen(n) PROVE TypeOK'
  BY <1>15 DEF NotifySeen
<1>16. ASSUME NEW n \in Notifiers, NotifyLock(n) PROVE TypeOK'
  BY <1>16 DEF NotifyLock
<1>17. ASSUME NEW n \in Notifiers, NotifyTooLate(n) PROVE TypeOK'
  BY <1>17 DEF NotifyTooLate, NotifyRecheck
<1>18. ASSUME NEW n \in Notifiers, BumpEpoch(n) PROVE TypeOK'
  BY <1>18 DEF BumpEpoch, NotifyRecheck
<1>19. ASSUME NEW n \in Notifiers, Withdraw(n) PROVE TypeOK'
  BY <1>19 DEF Withdraw, NotifyRecheck
<1>20. ASSUME NEW n \in Notifiers, Release(n) PROVE TypeOK'
  BY <1>20 DEF Release
<1>21. ASSUME NEW n \in Notifiers, ReleaseThrows(n) PROVE TypeOK'
  BY <1>21 DEF ReleaseThrows
<1>22. CASE UNCHANGED vars
  BY <1>22 DEF vars
<1>23. QED
  BY <1>1, <1>2, <1>3, <1>4, <1>5, <1>6, <1>7, <1>8, <1>9, <1>10, <1>11,
     <1>12, <1>13, <1>14, <1>15, <1>16, <1>17, <1>18, <1>19, <1>20, <1>21,
     <1>22
  DEF Next, WaiterInside, WaiterCalls, RetireStep, Wait, NotifierInside, NotifierCalls

(* The lock is taken when it is free and left by its owner only, so that at
   most one notifier is between NotifyLock and the end of its critical section. *)
LEMMA LockStep == TypeOK /\ LockInv /\ [Next]_vars => LockInv'
<1> SUFFICES ASSUME TypeOK /\ LockInv, [Next]_vars PROVE LockInv'
  OBVIOUS
<1> USE OwnerAssumption DEF TypeOK, LockInv, WaiterGoes, NotifierGoes
<1>1. CASE PrepareWait
  BY <1>1 DEF PrepareWait
<1>2. CASE PumpSpurious
  BY <1>2 DEF PumpSpurious
<1>3. CASE Announce
  BY <1>3 DEF Announce
<1>4. CASE StampEpoch
  BY <1>4 DEF StampEpoch
<1>5. CASE BeginRetire
  BY <1>5 DEF BeginRetire
<1>6. CASE RetireCheck
  BY <1>6 DEF RetireCheck
<1>7. CASE RetireLock
  BY <1>7 DEF RetireLock
<1>8. CASE RetireLocked
  BY <1>8 DEF RetireLocked
<1>9. CASE BeginWait
  BY <1>9 DEF BeginWait
<1>10. CASE WakeUp
  BY <1>10 DEF WakeUp
<1>11. CASE LeaveCancelled
  BY <1>11 DEF LeaveCancelled
<1>12. CASE Cancel
  BY <1>12 DEF Cancel
<1>13. CASE Dispose
  BY <1>13 DEF Dispose
<1>14. ASSUME NEW n \in Notifiers, NotifyNobody(n) PROVE LockInv'
  BY <1>14 DEF NotifyNobody
<1>15. ASSUME NEW n \in Notifiers, NotifySeen(n) PROVE LockInv'
  BY <1>15 DEF NotifySeen
<1>16. ASSUME NEW n \in Notifiers, NotifyLock(n) PROVE LockInv'
  BY <1>16 DEF NotifyLock
<1>17. ASSUME NEW n \in Notifiers, NotifyTooLate(n) PROVE LockInv'
  BY <1>17 DEF NotifyTooLate, NotifyRecheck
<1>18. ASSUME NEW n \in Notifiers, BumpEpoch(n) PROVE LockInv'
  BY <1>18 DEF BumpEpoch, NotifyRecheck
<1>19. ASSUME NEW n \in Notifiers, Withdraw(n) PROVE LockInv'
  BY <1>19 DEF Withdraw, NotifyRecheck
<1>20. ASSUME NEW n \in Notifiers, Release(n) PROVE LockInv'
  BY <1>20 DEF Release
<1>21. ASSUME NEW n \in Notifiers, ReleaseThrows(n) PROVE LockInv'
  BY <1>21 DEF ReleaseThrows
<1>22. CASE UNCHANGED vars
  BY <1>22 DEF vars
<1>23. QED
  BY <1>1, <1>2, <1>3, <1>4, <1>5, <1>6, <1>7, <1>8, <1>9, <1>10, <1>11,
     <1>12, <1>13, <1>14, <1>15, <1>16, <1>17, <1>18, <1>19, <1>20, <1>21,
     <1>22
  DEF Next, WaiterInside, WaiterCalls, RetireStep, Wait, NotifierInside, NotifierCalls

(* _InWait is set by Announce alone and _Spurious by BeginRetire alone; the
   waiter only wakes up on the token of an announcement taken back. *)
LEMMA WaiterStep == IInv /\ [Next]_vars => WaiterInv'
<1> SUFFICES ASSUME IInv, [Next]_vars PROVE WaiterInv'
  OBVIOUS
<1> USE DEF IInv, TypeOK, WaiterInv, Announced, Retiring, WaiterGoes, NotifierGoes
<1>1. CASE PrepareWait
  BY <1>1 DEF PrepareWait
<1>2. CASE PumpSpurious
  BY <1>2 DEF PumpSpurious
<1>3. CASE Announce
  BY <1>3 DEF Announce
<1>4. CASE StampEpoch
  BY <1>4 DEF StampEpoch
<1>5. CASE BeginRetire
  BY <1>5 DEF BeginRetire
<1>6. CASE RetireCheck
  BY <1>6 DEF RetireCheck
<1>7. CASE RetireLock
  BY <1>7 DEF RetireLock
<1>8. CASE RetireLocked
  BY <1>8 DEF RetireLocked
<1>9. CASE BeginWait
  BY <1>9 DEF BeginWait
<1>10. CASE WakeUp
  BY <1>10 DEF WakeUp, TokenInv, TokenAccounting, Owed
<1>11. CASE LeaveCancelled
  BY <1>11 DEF LeaveCancelled
<1>12. CASE Cancel
  BY <1>12 DEF Cancel
<1>13. CASE Dispose
  BY <1>13 DEF Dispose
<1>14. ASSUME NEW n \in Notifiers, NotifyNobody(n) PROVE WaiterInv'
  BY <1>14 DEF NotifyNobody
<1>15. ASSUME NEW n \in Notifiers, NotifySeen(n) PROVE WaiterInv'
  BY <1>15 DEF NotifySeen
<1>16. ASSUME NEW n \in Notifiers, NotifyLock(n) PROVE WaiterInv'
  BY <1>16 DEF NotifyLock
<1>17. ASSUME NEW n \in Notifiers, NotifyTooLate(n) PROVE WaiterInv'
  BY <1>17 DEF NotifyTooLate, NotifyRecheck
<1>18. ASSUME NEW n \in Notifiers, BumpEpoch(n) PROVE WaiterInv'
  BY <1>18 DEF BumpEpoch, NotifyRecheck
<1>19. ASSUME NEW n \in Notifiers, Withdraw(n) PROVE WaiterInv'
  BY <1>19 DEF Withdraw, NotifyRecheck
<1>20. ASSUME NEW n \in Notifiers, Release(n) PROVE WaiterInv'
  BY <1>20 DEF Release
<1>21. ASSUME NEW n \in Notifiers, ReleaseThrows(n) PROVE WaiterInv'
  BY <1>21 DEF ReleaseThrows
<1>22. CASE UNCHANGED vars
  BY <1>22 DEF vars
<1>23. QED
  BY <1>1, <1>2, <1>3, <1>4, <1>5, <1>6, <1>7, <1>8, <1>9, <1>10, <1>11,
     <1>12, <1>13, <1>14, <1>15, <1>16, <1>17, <1>18, <1>19, <1>20, <1>21,
     <1>22
  DEF Next, WaiterInside, WaiterCalls, RetireStep, Wait, NotifierInside, NotifierCalls

(* A notifier enters Committed with the announcement it takes back, so that
   before it no token was owed; the waiter takes the token it is owed. *)
LEMMA TokenStep == IInv /\ [Next]_vars => TokenInv'
<1> SUFFICES ASSUME IInv, [Next]_vars PROVE TokenInv'
  OBVIOUS
<1> USE OwnerAssumption DEF IInv, TypeOK, LockInv, WaiterInv, TokenInv, SingleToken,
        TokenAccounting, Owed, Announced, Committed, Retiring, WaiterGoes,
        NotifierGoes
<1>1. CASE PrepareWait
  BY <1>1 DEF PrepareWait
<1>2. CASE PumpSpurious
  BY <1>2 DEF PumpSpurious
<1>3. CASE Announce
  BY <1>3 DEF Announce
<1>4. CASE StampEpoch
  BY <1>4 DEF StampEpoch
<1>5. CASE BeginRetire
  BY <1>5 DEF BeginRetire
<1>6. CASE RetireCheck
  BY <1>6 DEF RetireCheck
<1>7. CASE RetireLock
  BY <1>7 DEF RetireLock
<1>8. CASE RetireLocked
  BY <1>8 DEF RetireLocked
<1>9. CASE BeginWait
  BY <1>9 DEF BeginWait
<1>10. CASE WakeUp
  BY <1>10 DEF WakeUp
<1>11. CASE LeaveCancelled
  BY <1>11 DEF LeaveCancelled
<1>12. CASE Cancel
  BY <1>12 DEF Cancel
<1>13. CASE Dispose
  BY <1>13 DEF Dispose
<1>14. ASSUME NEW n \in Notifiers, NotifyNobody(n) PROVE TokenInv'
  BY <1>14 DEF NotifyNobody
<1>15. ASSUME NEW n \in Notifiers, NotifySeen(n) PROVE TokenInv'
  BY <1>15 DEF NotifySeen
<1>16. ASSUME NEW n \in Notifiers, NotifyLock(n) PROVE TokenInv'
  BY <1>16 DEF NotifyLock
<1>17. ASSUME NEW n \in Notifiers, NotifyTooLate(n) PROVE TokenInv'
  BY <1>17 DEF NotifyTooLate, NotifyRecheck
<1>18. ASSUME NEW n \in Notifiers, BumpEpoch(n) PROVE TokenInv'
  BY <1>18 DEF BumpEpoch, NotifyRecheck
<1>19. ASSUME NEW n \in Notifiers, Withdraw(n) PROVE TokenInv'
  BY <1>19 DEF Withdraw, NotifyRecheck
<1>20. ASSUME NEW n \in Notifiers, Release(n) PROVE TokenInv'
  BY <1>20 DEF Release
<1>21. ASSUME NEW n \in Notifiers, ReleaseThrows(n) PROVE TokenInv'
  BY <1>21 DEF ReleaseThrows, SemaphoreMaximum
<1>22. CASE UNCHANGED vars
  BY <1>22 DEF vars
<1>23. QED
  BY <1>1, <1>2, <1>3, <1>4, <1>5, <1>6, <1>7, <1>8, <1>9, <1>10, <1>11,
     <1>12, <1>13, <1>14, <1>15, <1>16, <1>17, <1>18, <1>19, <1>20, <1>21,
     <1>22
  DEF Next, WaiterInside, WaiterCalls, RetireStep, Wait, NotifierInside, NotifierCalls

-----------------------------------------------------------------------------
LEMMA InitIInv == Init => IInv
<1> SUFFICES ASSUME Init PROVE IInv
  OBVIOUS
<1>1. TypeOK
  <2>1. epoch \in 0 .. EpochModulus - 1 /\ epochStarted \in 0 .. EpochModulus - 1
    BY EpochAssumption DEF Init
  <2>2. npc \in [Notifiers -> NotifierPlaces]
    BY DEF Init, NotifierPlaces
  <2>3. sem \in 0 .. SemaphoreMaximum
    BY DEF Init, SemaphoreMaximum
  <2>4. QED
    BY <2>1, <2>2, <2>3 DEF Init, TypeOK, WaiterPlaces
<1>2. LockInv /\ WaiterInv
  BY DEF Init, LockInv, WaiterInv, Retiring
<1>3. TokenInv
  BY DEF Init, TokenInv, TokenAccounting, SingleToken, Owed, Announced, Committed,
         Retiring
<1>4. QED
  BY <1>1, <1>2, <1>3 DEF IInv

LEMMA NextIInv == IInv /\ [Next]_vars => IInv'
BY TypeStep, LockStep, WaiterStep, TokenStep DEF IInv

(***************************************************************************)
(* The inductive invariant holds in every behaviour of the event count.    *)
(***************************************************************************)
THEOREM Inductive == Spec => []IInv
<1>1. QED
  BY InitIInv, NextIInv, PTL DEF Spec

(***************************************************************************)
(* Every variable of the event count keeps its type: in particular the     *)
(* semaphore's count stays within the maximum its constructor was given.   *)
(***************************************************************************)
THEOREM TypeCorrect == Spec => []TypeOK
<1>1. IInv => TypeOK
  BY DEF IInv
<1>2. QED
  BY <1>1, Inductive, PTL

(***************************************************************************)
(* However many producers call NotifyOne, whatever the order of the        *)
(* unordered stores and wherever the epoch wraps, a token is in or on its  *)
(* way to the semaphore exactly when the waiter is bound to consume one.   *)
(***************************************************************************)
THEOREM TokensAccounted == Spec => []TokenAccounting
<1>1. IInv => TokenAccounting
  BY DEF IInv, TokenInv
<1>2. QED
  BY <1>1, Inductive, PTL

(***************************************************************************)
(* Notifications never pile up: a Release always finds the semaphore       *)
(* empty and no other Release beside it.                                   *)
(***************************************************************************)
THEOREM TokensSingle == Spec => []SingleToken
<1>1. IInv => SingleToken
  BY DEF IInv, TokenInv
<1>2. QED
  BY <1>1, Inductive, PTL

(***************************************************************************)
(* _Semaphore.Release() of NotifyOne throws only after Dispose: there is   *)
(* no SemaphoreFullException for Enqueue to let through.                   *)
(***************************************************************************)
THEOREM ReleaseNeverFull == Spec => NeverFull
<1>1. ASSUME IInv, NEW n \in Notifiers, ReleaseThrows(n) PROVE wpc = "disposed"
  BY <1>1
  DEF IInv, TokenInv, TypeOK, ReleaseThrows, NotifierGoes, SemaphoreMaximum
<1>2. IInv => [\A n \in Notifiers : ReleaseThrows(n) => wpc = "disposed"]_vars
  BY <1>1
<1>3. QED
  BY <1>2, Inductive, PTL DEF NeverFull
=============================================================================
