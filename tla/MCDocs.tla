------------------------------- MODULE MCDocs -------------------------------
(***************************************************************************)
(* A small instance of DocsPage: layouts of tab groups as DocFX writes     *)
(* them, with groups that share tabs, that depend on another one, and that *)
(* are independent, two that are not well-formed, and tables of contents   *)
(* of two and three levels; and beside it one of DocsSearch.  The two      *)
(* share no variable: each is explored while the other one rests.          *)
(***************************************************************************)
EXTENDS DocsPage, DocsSearch

Tab(id) == [ids |-> <<id>>, condition |-> NoCondition]
TabIf(id, condition) == [ids |-> <<id>>, condition |-> condition]
Group(tabs) == [independent |-> FALSE, tabs |-> tabs]
Alone(tabs) == [independent |-> TRUE, tabs |-> tabs]

System == <<Tab("win"), Tab("linux"), Tab("mac")>>
Shell == <<TabIf("cmd", "win"), TabIf("bash", "linux"), TabIf("bash", "mac")>>
Language == <<Tab("c"), TabIf("f", "win")>>

MCTabIds == {"win", "linux", "mac", "cmd", "bash", "c", "f", "v1", "v2"}

MCLayouts ==
  {<<Group(System), Group(Shell), Group(System)>>,
   <<Group(System), Group(Shell), Group(Shell)>>,
   <<Alone(System), Group(System), Group(Language)>>,
   <<Group(Language), Group(System), Group(<<Tab("v1"), Tab("v2")>>)>>,
   <<Group(Shell), Group(System)>>,
   <<Group(<<[ids |-> <<"win", "linux">>, condition |-> NoCondition], Tab("mac")>>), Group(System)>>}

MCTrees == {<<0, 1, 1, 0>>, <<0, 1, 2, 1, 0>>}

PageRests == Init /\ layout = <<Group(Shell), Group(System)>> /\ tree = <<0, 1, 1, 0>>

SearchRests == InitSearch /\ navbar = "absent" /\ ~hasList

DocsInit == Init /\ InitSearch /\ (PageRests \/ SearchRests)

DocsNext ==
  \/ SearchRests /\ Next /\ UNCHANGED searchVars
  \/ PageRests /\ SearchNext /\ UNCHANGED vars

DocsSpec ==
  /\ DocsInit /\ [][DocsNext]_<<vars, searchVars>>
  /\ WF_searchVars(PageStep) /\ WF_searchVars(Query)
=============================================================================
