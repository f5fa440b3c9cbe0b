------------------------------ MODULE DocsTabs ------------------------------
(***************************************************************************)
(* The tab groups of a documentation page (renderTabs of docfx.js): all    *)
(* groups but the independent ones share the list of selected tab ids, a   *)
(* tab may be there only while another one is selected, and a click goes   *)
(* through every group.                                                    *)
(*                                                                         *)
(* A group is a record: independent, and tabs, a sequence of records of    *)
(* ids (a sequence) and condition (an id, or NoCondition).                 *)
(***************************************************************************)
EXTENDS Naturals, Sequences, SequencesExt

CONSTANTS Layouts,      \* what a page may hold: sequences of groups
          TabIds,
          NoCondition

Tabs == [ids : Seq(TabIds), condition : TabIds \cup {NoCondition}]

Groups == [independent : BOOLEAN, tabs : Seq(Tabs)]

ASSUME LayoutsAssumption == Layouts \subseteq Seq(Groups) /\ NoCondition \notin TabIds

VARIABLES
  layout,
  grouped,         \* how many groups initTabs is through with
  selectedTabs,    \* state.selectedTabs
  visible,         \* of each group, the tabs that are not hidden
  selected,        \* of each group, the tabs whose section is shown
  tabsThrew        \* an exception left initTabs or a click

tabVars == <<layout, grouped, selectedTabs, visible, selected, tabsThrew>>

InitTabs ==
  /\ layout \in Layouts
  /\ grouped = 0
  /\ selectedTabs = <<>>
  /\ visible = [g \in DOMAIN layout |-> DOMAIN layout[g].tabs]
  /\ selected = [g \in DOMAIN layout |-> DOMAIN layout[g].tabs]
  /\ tabsThrew = FALSE

Dependent == {g \in DOMAIN layout : ~layout[g].independent}

\* Faulty variant: a group that has to select a tab does not forget its others.
ForgetNone(chosen, tabs) == chosen

\* The splices of the ids of a tab, where each of them is first found.
ForgetTab(chosen, ids) ==
  LET left[k \in 0 .. Len(ids)] ==
        IF k = 0 THEN chosen ELSE RemoveFirst(left[k - 1], ids[k])
  IN  left[Len(ids)]

\* Those of a group.
Forget(chosen, tabs) ==
  LET left[t \in 0 .. Len(tabs)] ==
        IF t = 0 THEN chosen ELSE ForgetTab(left[t - 1], tabs[t].ids)
  IN  left[Len(tabs)]

\* updateVisibilityAndSelection of group g, from the selected ids and classes s.
Update(s, g) ==
  LET tabs == layout[g].tabs
      shown == {t \in DOMAIN tabs : tabs[t].condition \in ToSet(s.chosen) \cup {NoCondition}}
      active == {t \in shown : ToSet(tabs[t].ids) \cap ToSet(s.chosen) # {}}
      first == Min(shown)
      Seen(chosen, picked, threw) ==
        [chosen |-> chosen, visible |-> [s.visible EXCEPT ![g] = shown],
         selected |-> [s.selected EXCEPT ![g] = picked], threw |-> threw]
  IN  IF s.threw THEN s
      ELSE IF active # {} THEN Seen(s.chosen, active, FALSE)
      ELSE IF shown = {} THEN Seen(Forget(s.chosen, tabs), {}, TRUE)
      ELSE Seen(Append(Forget(s.chosen, tabs), tabs[first].ids[1]), {first}, FALSE)

Classes(chosen) ==
  [chosen |-> chosen, visible |-> visible, selected |-> selected, threw |-> FALSE]

Becomes(s) ==
  /\ selectedTabs' = s.chosen
  /\ visible' = s.visible
  /\ selected' = s.selected
  /\ tabsThrew' = s.threw

\* One turn of the loop of initTabs.  The query string is never read
\* (parseQueryString is called with no argument): no tab is selected from it.
InitTabGroup ==
  /\ grouped < Len(layout)
  /\ ~tabsThrew
  /\ grouped' = grouped + 1
  /\ IF grouped + 1 \in Dependent
       THEN Becomes(Update(Classes(selectedTabs), grouped + 1))
       ELSE UNCHANGED <<selectedTabs, visible, selected, tabsThrew>>
  /\ UNCHANGED layout

\* splice(indexOf(previous), 1, id): an id that is not there makes indexOf
\* -1, which replaces the last one.
Replaced(chosen, previous, id) ==
  LET at == SelectInSeq(chosen, LAMBDA c : c = previous)
  IN  ReplaceAt(chosen, IF at = 0 THEN Len(chosen) ELSE at, id)

ClickIndependent(g, t) ==
  LET tabs == layout[g].tabs
  IN  /\ selected' = [selected EXCEPT ![g] =
                       {u \in DOMAIN tabs : ToSet(tabs[u].ids) \cap ToSet(tabs[t].ids) # {}}]
      /\ UNCHANGED <<selectedTabs, visible, tabsThrew>>

\* Faulty variant: only the group that was clicked is brought up to date.
ClickDependentAlone(g, t) ==
  LET tabs == layout[g].tabs
      previous == tabs[Min(selected[g])].ids[1]
      chosen == Replaced(selectedTabs, previous, tabs[t].ids[1])
  IN  IF ToSet(selectedTabs) \cap ToSet(tabs[t].ids) # {}
        THEN UNCHANGED <<selectedTabs, visible, selected, tabsThrew>>
        ELSE Becomes(Update(Classes(chosen), g))

ClickDependent(g, t) ==
  LET tabs == layout[g].tabs
      previous == tabs[Min(selected[g])].ids[1]
      chosen == Replaced(selectedTabs, previous, tabs[t].ids[1])
      upTo[h \in 0 .. Len(layout)] ==
        IF h = 0 THEN Classes(chosen)
        ELSE IF h \in Dependent THEN Update(upTo[h - 1], h)
        ELSE upTo[h - 1]
  IN  IF ToSet(selectedTabs) \cap ToSet(tabs[t].ids) # {}
        THEN UNCHANGED <<selectedTabs, visible, selected, tabsThrew>>
        ELSE Becomes(upTo[Len(layout)])

\* handleClick, on a tab that can be seen.
ClickTab(g, t) ==
  /\ grouped = Len(layout)
  /\ ~tabsThrew
  /\ t \in visible[g]
  /\ IF layout[g].independent THEN ClickIndependent(g, t) ELSE ClickDependent(g, t)
  /\ UNCHANGED <<layout, grouped>>

TabStep == InitTabGroup \/ \E g \in DOMAIN layout : \E t \in DOMAIN layout[g].tabs : ClickTab(g, t)

----------------------------------------------------------------------------
(* Properties                                                              *)

Ids(g) == UNION {ToSet(layout[g].tabs[t].ids) : t \in DOMAIN layout[g].tabs}

Conditions(g) == {layout[g].tabs[t].condition : t \in DOMAIN layout[g].tabs} \ {NoCondition}

Unconditional == {g \in Dependent : Conditions(g) = {}}

Ready == {g \in Dependent : g <= grouped}

\* One of the tabs can be there at least: whatever is selected, or because the
\* conditions are the ids of a group before this one, one of which is.
Inhabited(g) ==
  \/ \E t \in DOMAIN layout[g].tabs : layout[g].tabs[t].condition = NoCondition
  \/ \E h \in Unconditional : h < g /\ Ids(h) = Conditions(g)

\* Two tabs of a group with the same id are never there together.
Unambiguous(g) ==
  \A t, u \in DOMAIN layout[g].tabs :
    LET c == layout[g].tabs[t].condition
        d == layout[g].tabs[u].condition
    IN  t # u /\ layout[g].tabs[t].ids = layout[g].tabs[u].ids =>
          c # d /\ \E h \in Unconditional : {c, d} \subseteq Ids(h)

(***************************************************************************)
(* What a page has to respect for its tabs to work: a tab has one id,      *)
(* groups that share an id have the same tabs, and what a tab depends on   *)
(* is not there on some condition in its turn.                             *)
(***************************************************************************)
WellFormed ==
  \A g \in Dependent :
    /\ \A t \in DOMAIN layout[g].tabs : Len(layout[g].tabs[t].ids) = 1
    /\ Inhabited(g) /\ Unambiguous(g)
    /\ \A h \in Dependent :
         /\ Ids(g) \cap Ids(h) # {} => layout[g].tabs = layout[h].tabs
         /\ Ids(h) \cap Conditions(g) # {} => h \in Unconditional

\* However the reader clicks, and whichever tabs come and go with the click,
\* every group of a well-formed page shows one tab, one that can be seen, and no
\* script stops.
OneTabShown ==
  WellFormed =>
    /\ ~tabsThrew
    /\ \A g \in Ready : \E t \in visible[g] : selected[g] = {t}

\* A tab that is clicked is shown, in its own group and in every other one that
\* has the same tabs.
ClicksAreFollowed ==
  [][WellFormed =>
       \A g \in Dependent : \A t \in DOMAIN layout[g].tabs :
         ClickTab(g, t) =>
           \A h \in Dependent : layout[h].tabs = layout[g].tabs => t \in selected'[h]]_tabVars
=============================================================================
