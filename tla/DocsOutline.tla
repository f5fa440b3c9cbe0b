---------------------------- MODULE DocsOutline ----------------------------
(***************************************************************************)
(* "In This Article" of a documentation page (renderAffix and getHierarchy *)
(* of docfx.js): one pass over the headings of the article that nests them *)
(* with a stack of the levels that are open.                               *)
(*                                                                         *)
(* A heading is its place among the headings of the article that have an   *)
(* id; what matters of it is its level, 1 to 4.  That a title alone at the *)
(* top is left out of the list is not modelled.                            *)
(***************************************************************************)
EXTENDS Naturals, Sequences, SequencesExt

CONSTANT MaxHeadings

VARIABLES
  levels,          \* the levels of the headings seen so far
  stack,           \* frames: the level, and the siblings under construction
  parent,          \* whose items each heading was attached to, 0 for none
  affix            \* "building", "rendered", or "threw"

outlineVars == <<levels, stack, parent, affix>>

InitOutline ==
  /\ levels = <<>>
  /\ stack = <<>>
  /\ parent = <<>>
  /\ affix = "building"

\* Faulty variant: what is popped is attached to the first of the open siblings.
BuildParentFirst(s) ==
  LET top == Last(s.stack)
      under == Head(s.stack[Len(s.stack) - 1].siblings)
  IN  [stack |-> Front(s.stack),
       parent |-> [i \in DOMAIN s.parent |->
                    IF Contains(top.siblings, i) THEN under ELSE s.parent[i]]]

\* buildParent, on a stack of two frames at least.
BuildParent(s) ==
  LET top == Last(s.stack)
      under == Last(s.stack[Len(s.stack) - 1].siblings)
  IN  [stack |-> Front(s.stack),
       parent |-> [i \in DOMAIN s.parent |->
                    IF Contains(top.siblings, i) THEN under ELSE s.parent[i]]]

\* The while loop: frames deeper than the level are closed.
Closed(s, level) ==
  LET close[k \in 0 .. Len(s.stack)] ==
        IF k = 0 THEN s
        ELSE LET t == close[k - 1]
             IN  IF Len(t.stack) > 1 /\ level < Last(t.stack).level THEN BuildParent(t) ELSE t
  IN  close[Len(s.stack)]

\* The loop runs into the bottom of the stack, and the script stops there,
\* when a heading is above the first one.
Heading(level) ==
  /\ affix = "building"
  /\ Len(levels) < MaxHeadings
  /\ LET item == Len(levels) + 1
         s == Closed([stack |-> stack, parent |-> Append(parent, 0)], level)
         top == Last(s.stack)
         frame == [level |-> level, siblings |-> <<item>>]
     IN  /\ levels' = Append(levels, level)
         /\ parent' = s.parent
         /\ IF s.stack = <<>> \/ level > top.level
              THEN stack' = Append(s.stack, frame) /\ UNCHANGED affix
            ELSE IF level = top.level
              THEN /\ stack' = [s.stack EXCEPT ![Len(s.stack)].siblings = Append(@, item)]
                   /\ UNCHANGED affix
            ELSE stack' = s.stack /\ affix' = "threw"

\* The headings are through: the stack is closed, and what hung in getHierarchy's
\* variables is given to formList.
RenderAffix ==
  /\ affix = "building"
  /\ parent' = IF stack = <<>> THEN parent
                 ELSE Closed([stack |-> stack, parent |-> parent], 0).parent
  /\ stack' = <<>>
  /\ affix' = "rendered"
  /\ UNCHANGED levels

\* getHierarchy's variables are gone once it has returned.
LeaveOutline ==
  /\ affix = "rendered"
  /\ levels # <<>>
  /\ levels' = <<>> /\ stack' = <<>> /\ parent' = <<>>
  /\ UNCHANGED affix

OutlineStep == RenderAffix \/ LeaveOutline \/ \E level \in 1 .. 4 : Heading(level)

----------------------------------------------------------------------------
(* Properties                                                              *)

Shallower(i) == {j \in 1 .. i - 1 : levels[j] < levels[i]}

\* However levels jump, a heading is found under the last shallower one before
\* it, and the script survives unless a heading is above the first one.
OutlineNestsHeadings ==
  /\ affix = "threw" <=> \E i \in DOMAIN levels : levels[i] < levels[1]
  /\ affix = "rendered" =>
       \A i \in DOMAIN levels : parent[i] = Max(Shallower(i) \cup {0})
=============================================================================
