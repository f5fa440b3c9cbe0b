--------------------------- MODULE CircuitBreaker ---------------------------
(***************************************************************************)
(* CircuitBreakerDispatcher under concurrent callers.  The lock is held    *)
(* while a call is let in and while its outcome is recorded, never while   *)
(* the action runs, so a call may be recorded in a state of the breaker    *)
(* that is not the one it was let in by.                                   *)
(*                                                                         *)
(* The code compares DateTime.Now - _LastFail with _Delay.  Here that time *)
(* is a variable which ticks up to Delay: beyond, the comparison no longer *)
(* changes.  Before the first failure it is as large as it can be.         *)
(***************************************************************************)
EXTENDS Integers

CONSTANTS
  Callers,         \* threads, each with one call at a time
  Threshold,       \* _Threshold
  Delay,           \* _Delay, in ticks
  VoidThrows,      \* _OpenBehaviour throws: the default
  HasFallback,     \* _OpenBehaviourReturn has a value for the result's type
  FilterIgnores    \* _ExceptionFilter ignores some of the exceptions

\* A threshold of 0 or less is accepted by the builder and never reached.
ASSUME BreakerAssumption == /\ Threshold \in Nat \ {0}
                            /\ Delay \in Nat
                            /\ {VoidThrows, HasFallback, FilterIgnores} \subseteq BOOLEAN

VARIABLES
  state,           \* _State
  fails,           \* _SuccessiveFails
  sinceFail,       \* DateTime.Now - _LastFail
  running,         \* the callers whose action runs
  answer,          \* what each caller's last call ended with
  probe,           \* history: the last caller let in by an open breaker, while an
                   \* exception of its has not been ignored (a set of one, or none)
  sinceProbe       \* history: the time since that, up to Delay

vars == <<state, fails, sinceFail, running, answer, probe, sinceProbe>>

Kinds == {"void", "value"}
Answers == {"none", "done", "failed", "fallback", "skipped", "refused"}

TypeOK ==
  /\ state \in {"Closed", "Open", "HalfOpen"}
  /\ fails \in Nat
  /\ sinceFail \in 0 .. Delay
  /\ running \subseteq Callers
  /\ answer \in [Callers -> [kind : Kinds, with : Answers]]
  /\ probe \subseteq Callers
  /\ sinceProbe \in 0 .. Delay

Init ==
  /\ state = "Closed"
  /\ fails = 0
  /\ sinceFail = Delay
  /\ running = {}
  /\ answer = [c \in Callers |-> [kind |-> "void", with |-> "none"]]
  /\ probe = {}
  /\ sinceProbe = Delay

Answer(c, kind, with) == answer' = [answer EXCEPT ![c] = [kind |-> kind, with |-> with]]

----------------------------------------------------------------------------
(* OnEnter: what the breaker does with a new call, under its lock.         *)

LetIn(c, kind) ==
  /\ c \notin running
  /\ running' = running \cup {c}
  /\ Answer(c, kind, "none")

\* onOpen(): the void behaviour or the return behaviour, by kind of call.
OnOpen(kind) ==
  CASE kind = "void" -> IF VoidThrows THEN "refused" ELSE "skipped"
    [] kind = "value" -> IF HasFallback THEN "fallback" ELSE "refused"

EnterClosed(c, kind) ==
  /\ state = "Closed"
  /\ LetIn(c, kind)
  /\ UNCHANGED <<state, fails, sinceFail, probe, sinceProbe>>

\* Faulty variant: a half-open breaker lets everybody in.
EnterHalfOpenRuns(c, kind) ==
  /\ state = "HalfOpen"
  /\ LetIn(c, kind)
  /\ UNCHANGED <<state, fails, sinceFail, probe, sinceProbe>>

\* The void behaviour comes first, whatever the kind of the call.
EnterHalfOpen(c, kind) ==
  /\ state = "HalfOpen"
  /\ c \notin running
  /\ Answer(c, kind, IF VoidThrows THEN "refused" ELSE OnOpen(kind))
  /\ UNCHANGED <<state, fails, sinceFail, running, probe, sinceProbe>>

EnterOpen(c, kind) ==
  /\ state = "Open"
  /\ sinceFail < Delay
  /\ c \notin running
  /\ Answer(c, kind, OnOpen(kind))
  /\ UNCHANGED <<state, fails, sinceFail, running, probe, sinceProbe>>

EnterAfterDelay(c, kind) ==
  /\ state = "Open"
  /\ sinceFail >= Delay
  /\ LetIn(c, kind)
  /\ state' = "HalfOpen"
  /\ probe' = {c}
  /\ sinceProbe' = 0
  /\ UNCHANGED <<fails, sinceFail>>

Enter(c, kind) ==
  \/ EnterClosed(c, kind) \/ EnterHalfOpen(c, kind)
  \/ EnterOpen(c, kind) \/ EnterAfterDelay(c, kind)

----------------------------------------------------------------------------
(* The end of an action.                                                   *)

Leave(c, with) ==
  /\ c \in running
  /\ running' = running \ {c}
  /\ Answer(c, answer[c].kind, with)

\* Faulty variant: a success does not reset the counter.
SucceedKeepsFails(c) ==
  /\ Leave(c, "done")
  /\ state' = "Closed"
  /\ UNCHANGED <<fails, sinceFail, probe, sinceProbe>>

Succeed(c) ==
  /\ Leave(c, "done")
  /\ fails' = 0
  /\ state' = "Closed"
  /\ UNCHANGED <<sinceFail, probe, sinceProbe>>

\* CheckException returns before it takes the lock.
FailFiltered(c) ==
  /\ FilterIgnores
  /\ Leave(c, "failed")
  /\ probe' = probe \ {c}
  /\ UNCHANGED <<state, fails, sinceFail, sinceProbe>>

\* Faulty variant: a failure in half-open does not open the breaker again.
FailStaysHalfOpen(c) ==
  /\ Leave(c, "failed")
  /\ sinceFail' = 0
  /\ fails' = IF state = "Closed" THEN fails + 1 ELSE fails
  /\ state' = IF state = "Closed" /\ fails + 1 = Threshold THEN "Open" ELSE state
  /\ UNCHANGED <<probe, sinceProbe>>

\* Faulty variant: _LastFail is set only when the failure is counted.
FailKeepsLastFail(c) ==
  /\ Leave(c, "failed")
  /\ sinceFail' = IF state = "Closed" THEN 0 ELSE sinceFail
  /\ fails' = IF state = "Closed" THEN fails + 1 ELSE fails
  /\ state' = IF state = "Closed" /\ fails + 1 # Threshold THEN "Closed" ELSE "Open"
  /\ UNCHANGED <<probe, sinceProbe>>

\* UnsafeUpdateOnFail
Fail(c) ==
  /\ Leave(c, "failed")
  /\ sinceFail' = 0
  /\ fails' = IF state = "Closed" THEN fails + 1 ELSE fails
  /\ state' = IF state = "Closed" /\ fails + 1 # Threshold THEN "Closed" ELSE "Open"
  /\ UNCHANGED <<probe, sinceProbe>>

Finish(c) == Succeed(c) \/ FailFiltered(c) \/ Fail(c)

Later(t) == IF t < Delay THEN t + 1 ELSE t

Tick ==
  /\ sinceFail' = Later(sinceFail)
  /\ sinceProbe' = Later(sinceProbe)
  /\ UNCHANGED <<state, fails, running, answer, probe>>

Next ==
  \/ \E c \in Callers : (\E kind \in Kinds : Enter(c, kind)) \/ Finish(c)
  \/ Tick

Spec == Init /\ [][Next]_vars

\* An action that runs comes to an end; nobody has to call.
Fairness == \A c \in Callers : WF_vars(Finish(c))

FairSpec == Spec /\ Fairness

----------------------------------------------------------------------------
(* Properties                                                              *)

(***************************************************************************)
(* The counter and the state agree at all times, late outcomes included:   *)
(* the breaker is closed exactly while fewer than Threshold failures were  *)
(* recorded since the last success.                                        *)
(***************************************************************************)
FailsDecideState ==
  /\ state = "Closed" => fails < Threshold
  /\ state # "Closed" => fails = Threshold

(***************************************************************************)
(* A half-open breaker waits for somebody: the call that half-opened it is *)
(* still running, or the filter ignored the exception that it ended with.  *)
(***************************************************************************)
HalfOpenIsProbing ==
  state = "HalfOpen" => probe \subseteq running /\ (probe # {} \/ FilterIgnores)

(***************************************************************************)
(* A breaker that opened protects the service: the calls that it lets in   *)
(* before it closes again are a whole Delay apart, even if late failures   *)
(* of older calls open it again under the one that is probing.             *)
(***************************************************************************)
ProbesSpaced == [][state = "Open" /\ state' = "HalfOpen" => sinceProbe = Delay]_vars

\* While the breaker is not closed only EnterAfterDelay lets a call in, and it
\* does so one at a time: everybody else is answered by the open behaviour.
OnlyProbesEnter ==
  [][state # "Closed" /\ running' \notin SUBSET running =>
       /\ state' = "HalfOpen"
       /\ \E c \in Callers : probe' = {c} /\ running' = running \cup {c}]_vars

\* The probe decides: a breaker leaves half-open when its actions come to an end,
\* except after a probe whose exception was ignored.
ProbeDecides == state = "HalfOpen" ~> state # "HalfOpen" \/ (FilterIgnores /\ probe = {})

\* The breaker does not stay half-open when its actions come to an end.
HalfOpenEnds == state = "HalfOpen" ~> state # "HalfOpen"
=============================================================================
