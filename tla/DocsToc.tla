------------------------------- MODULE DocsToc -------------------------------
(***************************************************************************)
(* The filter of the table of contents of a documentation page             *)
(* (registerTocEvents of docfx.js): what a reader types hides the entries  *)
(* whose text does not contain it, leaves first, then the entries that     *)
(* have some below, from classes that stay from one input to the next.     *)
(*                                                                         *)
(* The entries are numbered in the order of the page; parent gives the     *)
(* entry that each of them is below, or 0.                                 *)
(***************************************************************************)
EXTENDS Naturals, Sequences, SequencesExt

CONSTANT Trees     \* tables of contents, as sequences of parents

ASSUME TreesAssumption ==
  /\ Trees \subseteq Seq(Nat)
  /\ \A t \in Trees : \A i \in DOMAIN t : t[i] \in 0 .. i - 1

VARIABLES
  tree,
  shown, hidden, filtered,   \* the entries with the classes show, hide, filtered
  matching                   \* the leaves whose text contains what was typed last
                             \* (all of them when that is nothing)

tocVars == <<tree, shown, hidden, filtered, matching>>

Leaves == DOMAIN tree \ ToSet(tree)

InitToc ==
  /\ tree \in Trees
  /\ shown = {} /\ hidden = {} /\ filtered = {}
  /\ matching = Leaves

Below(i) ==
  LET under[j \in DOMAIN tree] == tree[j] # 0 /\ (tree[j] = i \/ under[tree[j]])
  IN  {j \in DOMAIN tree : under[j]}

\* Faulty variant: an entry with nothing to show below it is left as it was.
FilterParentKept(c, i) ==
  IF Below(i) \cap c.shown # {}
    THEN [shown |-> c.shown \cup {i}, hidden |-> c.hidden \ {i}, filtered |-> c.filtered \cup {i}]
    ELSE c

\* An entry with entries below it, from the classes that those have by now.
FilterParent(c, i) ==
  IF Below(i) \cap c.shown # {}
    THEN [shown |-> c.shown \cup {i}, hidden |-> c.hidden \ {i}, filtered |-> c.filtered \cup {i}]
    ELSE [shown |-> c.shown \ {i}, hidden |-> c.hidden \cup {i}, filtered |-> c.filtered \ {i}]

\* What is typed may be found in the texts of any of the leaves.  The entries that
\* have some below come after all of the leaves, in the order of the page.
Filter(leaves) ==
  LET upTo[i \in 0 .. Len(tree)] ==
        IF i = 0 THEN [shown |-> (shown \ Leaves) \cup leaves,
                       hidden |-> (hidden \cup Leaves) \ leaves,
                       filtered |-> filtered]
        ELSE IF i \in Leaves THEN upTo[i - 1]
        ELSE FilterParent(upTo[i - 1], i)
      c == upTo[Len(tree)]
  IN  /\ matching' = leaves
      /\ shown' = c.shown /\ hidden' = c.hidden /\ filtered' = c.filtered
      /\ UNCHANGED tree

\* The input is emptied; show is not taken back.
ClearFilter ==
  /\ filtered' = {} /\ hidden' = {}
  /\ matching' = Leaves
  /\ UNCHANGED <<tree, shown>>

TocStep == ClearFilter \/ \E leaves \in SUBSET Leaves : Filter(leaves)

----------------------------------------------------------------------------
(***************************************************************************)
(* Whatever was typed before, an entry that matches can be seen, with all  *)
(* the entries above it; a leaf that does not match is hidden, and so is   *)
(* an entry that has leaves only below it, none of which match.            *)
(***************************************************************************)
FilterIsExact ==
  /\ matching = Leaves \ hidden
  /\ \A i \in DOMAIN tree \ Leaves :
       /\ Below(i) \cap matching # {} => i \notin hidden
       /\ Below(i) \subseteq Leaves \ matching => i \in hidden
=============================================================================
