------------------------------ MODULE DocsPage ------------------------------
(***************************************************************************)
(* A page of the documentation site once it is loaded (the function that   *)
(* docfx.js runs when the document is ready): the outline of the article   *)
(* is rendered, then the tabs, in one go and in this order, so that an     *)
(* exception in the first leaves the page without the second; afterwards   *)
(* the reader clicks on tabs and filters the table of contents.            *)
(***************************************************************************)
EXTENDS DocsOutline, DocsTabs, DocsToc

vars == <<outlineVars, tabVars, tocVars>>

Init == InitOutline /\ InitTabs /\ InitToc

RenderOutline == OutlineStep /\ UNCHANGED <<tabVars, tocVars>>

\* renderTabs comes after renderAffix, whose variables are gone by then.
RenderTabs ==
  /\ affix = "rendered" /\ levels = <<>>
  /\ InitTabGroup
  /\ UNCHANGED <<outlineVars, tocVars>>

Click ==
  /\ \E g \in DOMAIN layout : \E t \in DOMAIN layout[g].tabs : ClickTab(g, t)
  /\ UNCHANGED <<outlineVars, tocVars>>

\* The table of contents answers to the reader even if the scripts stopped: its
\* events are registered by renderSidebar, before renderAffix.
FilterToc ==
  /\ affix = "threw" \/ tabsThrew \/ grouped = Len(layout)
  /\ TocStep
  /\ UNCHANGED <<outlineVars, tabVars>>

Next == RenderOutline \/ RenderTabs \/ Click \/ FilterToc

Spec == Init /\ [][Next]_vars
=============================================================================
