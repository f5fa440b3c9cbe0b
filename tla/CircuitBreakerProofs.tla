------------------------ MODULE CircuitBreakerProofs ------------------------
(***************************************************************************)
(* Safety of CircuitBreakerDispatcher for any number of concurrent callers,*)
(* any threshold and delay, and any choice of open behaviours and filter.  *)
(***************************************************************************)
EXTENDS CircuitBreaker, TLAPS

\* What a breaker that is open remembers of its last probe: whatever failed
\* last did so after it.
SpacingInv == state = "Open" => sinceFail <= sinceProbe

IInv == TypeOK /\ FailsDecideState /\ HalfOpenIsProbing /\ SpacingInv

LEMMA TypeStep == TypeOK /\ [Next]_vars => TypeOK'
<1> SUFFICES ASSUME TypeOK, [Next]_vars PROVE TypeOK'
  OBVIOUS
<1> USE BreakerAssumption DEF TypeOK, Answer, Answers, Kinds
<1>1. ASSUME NEW c \in Callers, NEW kind \in Kinds, Enter(c, kind) PROVE TypeOK'
  <2>1. CASE EnterClosed(c, kind)
    BY <2>1 DEF EnterClosed, LetIn
  <2>2. CASE EnterHalfOpen(c, kind)
    BY <2>2 DEF EnterHalfOpen, OnOpen
  <2>3. CASE EnterOpen(c, kind)
    BY <2>3 DEF EnterOpen, OnOpen
  <2>4. CASE EnterAfterDelay(c, kind)
    BY <2>4 DEF EnterAfterDelay, LetIn
  <2>5. QED
    BY <1>1, <2>1, <2>2, <2>3, <2>4 DEF Enter
<1>2. ASSUME NEW c \in Callers, Finish(c) PROVE TypeOK'
  <2>1. answer[c].kind \in Kinds
    OBVIOUS
  <2>2. CASE Succeed(c)
    BY <2>1, <2>2 DEF Succeed, Leave
  <2>3. CASE FailFiltered(c)
    BY <2>1, <2>3 DEF FailFiltered, Leave
  <2>4. CASE Fail(c)
    BY <2>1, <2>4 DEF Fail, Leave
  <2>5. QED
    BY <1>2, <2>2, <2>3, <2>4 DEF Finish
<1>3. CASE Tick
  BY <1>3 DEF Tick, Later
<1>4. CASE UNCHANGED vars
  BY <1>4 DEF vars
<1>5. QED
  BY <1>1, <1>2, <1>3, <1>4 DEF Next

\* fails counts up to Threshold while the breaker is closed and then stands.
LEMMA FailsStep == TypeOK /\ FailsDecideState /\ [Next]_vars => FailsDecideState'
<1> SUFFICES ASSUME TypeOK, FailsDecideState, [Next]_vars PROVE FailsDecideState'
  OBVIOUS
<1> USE BreakerAssumption DEF TypeOK, FailsDecideState
<1>1. ASSUME NEW c \in Callers, NEW kind \in Kinds, Enter(c, kind)
      PROVE  FailsDecideState'
  BY <1>1 DEF Enter, EnterClosed, EnterHalfOpen, EnterOpen, EnterAfterDelay
<1>2. ASSUME NEW c \in Callers, Finish(c) PROVE FailsDecideState'
  BY <1>2 DEF Finish, Succeed, FailFiltered, Fail
<1>3. CASE Tick
  BY <1>3 DEF Tick
<1>4. CASE UNCHANGED vars
  BY <1>4 DEF vars
<1>5. QED
  BY <1>1, <1>2, <1>3, <1>4 DEF Next

\* Every recorded outcome takes the breaker out of half-open, so the probe that
\* half-opened it cannot have recorded its own.
LEMMA ProbingStep == HalfOpenIsProbing /\ [Next]_vars => HalfOpenIsProbing'
<1> SUFFICES ASSUME HalfOpenIsProbing, [Next]_vars PROVE HalfOpenIsProbing'
  OBVIOUS
<1> USE DEF HalfOpenIsProbing
<1>1. ASSUME NEW c \in Callers, NEW kind \in Kinds, Enter(c, kind)
      PROVE  HalfOpenIsProbing'
  <2>1. CASE EnterAfterDelay(c, kind)
    <3>1. probe' = {c} /\ c \in running'
      BY <2>1 DEF EnterAfterDelay, LetIn
    <3> QED
      BY <3>1
  <2>2. CASE EnterClosed(c, kind) \/ EnterHalfOpen(c, kind) \/ EnterOpen(c, kind)
    BY <2>2 DEF EnterClosed, EnterHalfOpen, EnterOpen
  <2>3. QED
    BY <1>1, <2>1, <2>2 DEF Enter
<1>2. ASSUME NEW c \in Callers, Finish(c) PROVE HalfOpenIsProbing'
  <2>1. CASE FailFiltered(c)
    BY <2>1 DEF FailFiltered, Leave
  <2>2. CASE Succeed(c) \/ Fail(c)
    BY <2>2 DEF Succeed, Fail
  <2>3. QED
    BY <1>2, <2>1, <2>2 DEF Finish
<1>3. CASE Tick
  BY <1>3 DEF Tick
<1>4. CASE UNCHANGED vars
  BY <1>4 DEF vars
<1>5. QED
  BY <1>1, <1>2, <1>3, <1>4 DEF Next

\* Both clocks tick together, and only a failure turns sinceFail back.
LEMMA SpacingStep == TypeOK /\ SpacingInv /\ [Next]_vars => SpacingInv'
<1> SUFFICES ASSUME TypeOK, SpacingInv, [Next]_vars PROVE SpacingInv'
  OBVIOUS
<1> USE BreakerAssumption DEF TypeOK, SpacingInv
<1>1. ASSUME NEW c \in Callers, NEW kind \in Kinds, Enter(c, kind) PROVE SpacingInv'
  BY <1>1 DEF Enter, EnterClosed, EnterHalfOpen, EnterOpen, EnterAfterDelay
<1>2. ASSUME NEW c \in Callers, Finish(c) PROVE SpacingInv'
  BY <1>2 DEF Finish, Succeed, FailFiltered, Fail
<1>3. CASE Tick
  BY <1>3 DEF Tick, Later
<1>4. CASE UNCHANGED vars
  BY <1>4 DEF vars
<1>5. QED
  BY <1>1, <1>2, <1>3, <1>4 DEF Next

-----------------------------------------------------------------------------
LEMMA InitIInv == Init => IInv
<1> SUFFICES ASSUME Init PROVE IInv
  OBVIOUS
<1> USE BreakerAssumption DEF Init
<1>1. TypeOK
  BY DEF TypeOK, Kinds, Answers
<1>2. FailsDecideState /\ HalfOpenIsProbing /\ SpacingInv
  BY DEF FailsDecideState, HalfOpenIsProbing, SpacingInv
<1>3. QED
  BY <1>1, <1>2 DEF IInv

(***************************************************************************)
(* The inductive invariant of the breaker.                                 *)
(***************************************************************************)
THEOREM Inductive == Spec => []IInv
<1>1. IInv /\ [Next]_vars => IInv'
  BY TypeStep, FailsStep, ProbingStep, SpacingStep DEF IInv
<1>2. QED
  BY <1>1, InitIInv, PTL DEF Spec

(***************************************************************************)
(* The breaker is closed exactly while fewer than Threshold failures were  *)
(* recorded since the last success, whoever records late.                  *)
(***************************************************************************)
THEOREM StateFollowsFails == Spec => []FailsDecideState
<1>1. IInv => FailsDecideState
  BY DEF IInv
<1>2. QED
  BY <1>1, Inductive, PTL

(***************************************************************************)
(* A half-open breaker has the call that half-opened it still running,     *)
(* always if the filter ignores nothing, and else until it ignores how     *)
(* that call ended.                                                        *)
(***************************************************************************)
THEOREM HalfOpenHasProbe == Spec => []HalfOpenIsProbing
<1>1. IInv => HalfOpenIsProbing
  BY DEF IInv
<1>2. QED
  BY <1>1, Inductive, PTL

(***************************************************************************)
(* The calls that an open breaker lets in are at least Delay apart.        *)
(***************************************************************************)
THEOREM SpacedProbes == Spec => ProbesSpaced
<1>1. ASSUME IInv, [Next]_vars, state = "Open", state' = "HalfOpen"
      PROVE  sinceProbe = Delay
  <2>1. sinceFail >= Delay
    BY <1>1
    DEF Next, vars, Enter, EnterClosed, EnterHalfOpen, EnterOpen, EnterAfterDelay,
        Finish, Succeed, FailFiltered, Fail, Tick
  <2>2. QED
    BY <1>1, <2>1, BreakerAssumption DEF IInv, TypeOK, SpacingInv
<1>2. IInv /\ [Next]_vars =>
        [state = "Open" /\ state' = "HalfOpen" => sinceProbe = Delay]_vars
  BY <1>1
<1>3. QED
  BY <1>2, Inductive, PTL DEF Spec, ProbesSpaced

(***************************************************************************)
(* While it is not closed, the breaker lets in probes and nobody else.     *)
(***************************************************************************)
THEOREM ProbesOnly == Spec => OnlyProbesEnter
<1>1. ASSUME [Next]_vars, state # "Closed", running' \notin SUBSET running
      PROVE  /\ state' = "HalfOpen"
             /\ \E c \in Callers : probe' = {c} /\ running' = running \cup {c}
  BY <1>1
  DEF Next, vars, Enter, EnterClosed, EnterHalfOpen, EnterOpen, EnterAfterDelay,
      LetIn, Finish, Succeed, FailFiltered, Fail, Leave, Tick
<1>2. [Next]_vars =>
        [state # "Closed" /\ running' \notin SUBSET running =>
           /\ state' = "HalfOpen"
           /\ \E c \in Callers : probe' = {c} /\ running' = running \cup {c}]_vars
  BY <1>1
<1>3. QED
  BY <1>2, PTL DEF Spec, OnlyProbesEnter
=============================================================================
