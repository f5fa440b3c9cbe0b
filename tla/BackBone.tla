------------------------------ MODULE BackBone ------------------------------
(***************************************************************************)
(* The back bone of Concurrent.Flow: sources that are connected to it      *)
(* while it is disposed of, and messages, of a source or of a caller of    *)
(* Process, on their way through a transformer to a finalizer under tokens *)
(* that are linked to the one of the back bone.                            *)
(*                                                                         *)
(* The observables and CompositeDisposable are those of Rx: external.      *)
(* Cancel() of the source of tokens is one step with the callbacks that    *)
(* cancel the linked ones: they run before it returns.                     *)
(***************************************************************************)
EXTENDS Naturals

CONSTANTS
  Sources,
  Messages,
  Origin,          \* of each message: its source, or the caller of Process
  Caller

ASSUME BackBoneAssumption == Origin \in [Messages -> Sources \cup {Caller}]

VARIABLES
  connect,         \* where the Connect of each source is
  subscribed,      \* the sources whose subscription is alive
  composite,       \* the lazy CompositeDisposable: "none", "live", "disposed"
  dispose,         \* of the back bone: "no", "looked", "done"
  missed,          \* history: there was no composite to dispose of
  kind,            \* of each message: "transformed" to another one, or "finalized"
  stage,           \* where each message is
  token            \* the one that the caller gave with it: "live", "requested"

backBoneVars == <<connect, subscribed, composite, dispose, missed, kind, stage, token>>
connectVars == <<connect, subscribed, composite>>
messageVars == <<kind, stage, token>>

InitBackBone ==
  /\ connect = [s \in Sources |-> "new"]
  /\ subscribed = {}
  /\ composite = "none"
  /\ dispose = "no"
  /\ missed = FALSE
  /\ kind \in [Messages -> {"transformed", "finalized"}]
  /\ stage = [m \in Messages |-> "new"]
  /\ token = [m \in Messages |-> "live"]

Cancelled == dispose = "done"

----------------------------------------------------------------------------
(* Connect *)

Connects(s, from, to) == connect[s] = from /\ connect' = [connect EXCEPT ![s] = to]

CheckCancelled(s) ==
  /\ Connects(s, "new", IF Cancelled THEN "refused" ELSE "checked")
  /\ UNCHANGED <<subscribed, composite, dispose, missed, messageVars>>

Subscribe(s) ==
  /\ Connects(s, "checked", "subscribed")
  /\ subscribed' = subscribed \cup {s}
  /\ UNCHANGED <<composite, dispose, missed, messageVars>>

\* Faulty variant: what is added to a composite that is disposed of stays alive.
AddKept(s) ==
  /\ Connects(s, "subscribed", "added")
  /\ composite' = IF composite = "none" THEN "live" ELSE composite
  /\ UNCHANGED <<subscribed, dispose, missed, messageVars>>

\* The value is created here if it is not there; a composite that is disposed of
\* disposes of what is added to it.
Add(s) ==
  /\ Connects(s, "subscribed", "added")
  /\ composite' = IF composite = "none" THEN "live" ELSE composite
  /\ subscribed' = IF composite = "disposed" THEN subscribed \ {s} ELSE subscribed
  /\ UNCHANGED <<dispose, missed, messageVars>>

\* The caller disposes of what Connect returned.
Unsubscribe(s) ==
  /\ connect[s] = "added" /\ s \in subscribed
  /\ subscribed' = subscribed \ {s}
  /\ UNCHANGED <<connect, composite, dispose, missed, messageVars>>

----------------------------------------------------------------------------
(* Dispose *)

Added == {s \in Sources : connect[s] = "added"}

DisposeComposite ==
  /\ dispose = "no"
  /\ dispose' = "looked"
  /\ missed' = (composite = "none")
  /\ IF composite = "live"
       THEN composite' = "disposed" /\ subscribed' = subscribed \ Added
       ELSE UNCHANGED <<composite, subscribed>>
  /\ UNCHANGED <<connect, messageVars>>

Cancel ==
  /\ dispose = "looked"
  /\ dispose' = "done"
  /\ UNCHANGED <<connectVars, missed, messageVars>>

----------------------------------------------------------------------------
(* Process *)

\* Faulty variant: the token of the caller is not linked.
LinkedOwn(m) == Cancelled

\* The state of the linked token, at each of the levels.
Linked(m) == Cancelled \/ token[m] = "requested"

Moves(m, from, to) == stage[m] = from /\ stage' = [stage EXCEPT ![m] = to]

Throws(m, from) ==
  Moves(m, from, IF Origin[m] = Caller THEN "thrown" ELSE "unhandled")

\* ThrowIfCancellationRequested
Checks(m, from, to) == IF Linked(m) THEN Throws(m, from) ELSE Moves(m, from, to)

Receive(m) ==
  /\ Origin[m] \in subscribed \cup {Caller}
  /\ Moves(m, "new", "received")
  /\ UNCHANGED <<connectVars, dispose, missed, kind, token>>

\* Of the back bone, which then fires its event and finds the processor, or not.
CheckProcess(m) ==
  /\ \/ Checks(m, "received", IF kind[m] = "transformed" THEN "toTransform" ELSE "toFinalize")
     \/ Checks(m, "handedOn", "toFinalize")
     \/ Throws(m, "received") \/ Throws(m, "handedOn")
  /\ UNCHANGED <<connectVars, dispose, missed, kind, token>>

\* Of the adapters: before a transformer, after it, and before a finalizer.
CheckAdapter(m) ==
  /\ \/ Checks(m, "toTransform", "transforming")
     \/ Checks(m, "transformed", "handedOn")
     \/ Checks(m, "toFinalize", "finalizing")
  /\ UNCHANGED <<connectVars, dispose, missed, kind, token>>

ProcessorEnds(m) ==
  /\ \/ Moves(m, "transforming", "transformed") \/ Moves(m, "finalizing", "result")
     \/ Throws(m, "transforming") \/ Throws(m, "finalizing")
  /\ UNCHANGED <<connectVars, dispose, missed, kind, token>>

\* Connect gives no token.
RequestCancel(m) ==
  /\ Origin[m] = Caller /\ token[m] = "live"
  /\ token' = [token EXCEPT ![m] = "requested"]
  /\ UNCHANGED <<connectVars, dispose, missed, kind, stage>>

----------------------------------------------------------------------------

ConnectStep(s) == Subscribe(s) \/ Add(s)

ProcessStep(m) == CheckProcess(m) \/ CheckAdapter(m) \/ ProcessorEnds(m)

BackBoneNext ==
  \/ \E s \in Sources : CheckCancelled(s) \/ ConnectStep(s) \/ Unsubscribe(s)
  \/ \E m \in Messages : Receive(m) \/ ProcessStep(m) \/ RequestCancel(m)
  \/ DisposeComposite \/ Cancel

BackBoneSpec == InitBackBone /\ [][BackBoneNext]_backBoneVars

\* Calls that have begun return, and processors come to an end.
BackBoneFairness ==
  /\ \A s \in Sources : WF_backBoneVars(ConnectStep(s))
  /\ \A m \in Messages : WF_backBoneVars(ProcessStep(m))
  /\ WF_backBoneVars(Cancel)

FairBackBoneSpec == BackBoneSpec /\ BackBoneFairness

----------------------------------------------------------------------------
(* Properties                                                              *)

(***************************************************************************)
(* Once the back bone is disposed of, no source that was connected feeds   *)
(* it, however the two calls overlapped.  The exception is a first Connect *)
(* that checks the token before Dispose cancels it and adds what it has    *)
(* after Dispose has found nothing to dispose of.                          *)
(***************************************************************************)
DisposedIsDisconnected ==
  \A s \in subscribed \cap Added : dispose # "no" => missed

(***************************************************************************)
(* A message that is cancelled before it gets to its finalizer, by its     *)
(* caller or by the disposal, ends with an exception: the finalizer does   *)
(* not make a result of it, however far the transformer was.               *)
(***************************************************************************)
CancelledHasNoResult ==
  \A m \in Messages :
    /\ dispose = "done" \/ token[m] = "requested"
    /\ stage[m] \in {"received", "toTransform", "transforming", "transformed", "handedOn"}
    ~> stage[m] \in {"thrown", "unhandled"}
=============================================================================
