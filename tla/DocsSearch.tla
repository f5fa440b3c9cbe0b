----------------------------- MODULE DocsSearch -----------------------------
(***************************************************************************)
(* Searching the documentation site: the page (enableSearch and            *)
(* renderNavbar of docfx.js) and the worker that holds the index           *)
(* (search-worker.js), which exchange messages in order, while the         *)
(* navigation bar and the files of the worker come in any order, or never. *)
(*                                                                         *)
(* What the reader types is a member of one of three sets: ValidQueries    *)
(* and Malformed are of three characters or more, and the parser of lunr   *)
(* throws on the latter (see LunrQuery); Short are shorter.                *)
(***************************************************************************)
EXTENDS Naturals, Sequences, SequencesExt

CONSTANTS ValidQueries, Malformed, Short, None,
          MaxTyped,      \* bound: inputs of the reader
          MaxHandlers    \* bound: a page that never gets a list binds for ever

Long == ValidQueries \cup Malformed
Queries == Long \cup Short

VARIABLES
  navbar,            \* "absent", or "there" once a list was found
  hasList,           \* the file that loadNavbar gets has a list
  handlers,          \* the keyup handlers of the search box
  query, label,      \* the variable of enableSearch, the title of the results
  bound,             \* queryReady is bound: indexReady is resolved
  items,             \* whose results are shown, and whose words are marked in them
  contents,          \* the article is shown, rather than the results
  stopWords, data,   \* files of the worker: "asked", "failed", "loaded", (data) "empty"
  lunrIndex,         \* the index is built
  dropped,           \* the last query threw in the worker
  toWorker, toPage,  \* messages, in order
  typed

pageVars == <<navbar, hasList>>
boxVars == <<handlers, query, label, bound, items, contents, typed>>
workerVars == <<stopWords, data, lunrIndex, dropped>>
searchVars == <<pageVars, boxVars, workerVars, toWorker, toPage>>

\* The navigation bar may be part of the page, which then has bound the search
\* box when renderNavbar returned.
InitSearch ==
  /\ navbar \in {"absent", "there"}
  /\ hasList \in BOOLEAN
  /\ handlers = IF navbar = "there" THEN 1 ELSE 0
  /\ query = None /\ label = None
  /\ bound = FALSE
  /\ items = [of |-> None, marked |-> None]
  /\ contents = TRUE
  /\ stopWords = "asked" /\ data = "asked"
  /\ lunrIndex = FALSE /\ dropped = FALSE
  /\ toWorker = <<>> /\ toPage = <<>>
  /\ typed = 0

----------------------------------------------------------------------------
(* The navigation bar *)

\* The callback of $.get: showSearch, then renderNavbar, which comes to showSearch
\* again; with no list in the file, renderNavbar asks for it again.
NavbarLoaded ==
  /\ navbar = "absent"
  /\ handlers + 2 <= MaxHandlers
  /\ IF hasList
       THEN navbar' = "there" /\ handlers' = handlers + 2
       ELSE navbar' = navbar /\ handlers' = handlers + 1
  /\ UNCHANGED <<hasList, query, label, bound, items, contents, typed,
                 workerVars, toWorker, toPage>>

----------------------------------------------------------------------------
(* The search box *)

Copies(n, q) == [i \in 1 .. n |-> q]

\* Faulty variant: what is asked is what the box held before.
KeyupStale(q) ==
  /\ handlers > 0 /\ typed < MaxTyped
  /\ typed' = typed + 1
  /\ query' = q
  /\ contents' = (q \notin Long)
  /\ label' = IF q \in Long THEN q ELSE label
  /\ toWorker' = IF q \in Long /\ bound /\ query # None
                   THEN toWorker \o Copies(handlers, query) ELSE toWorker
  /\ UNCHANGED <<pageVars, handlers, bound, items, workerVars, toPage>>

\* Every handler of keyup runs; each of them triggers queryReady.
Keyup(q) ==
  /\ handlers > 0 /\ typed < MaxTyped
  /\ typed' = typed + 1
  /\ query' = q
  /\ contents' = (q \notin Long)
  /\ label' = IF q \in Long THEN q ELSE label
  /\ toWorker' = IF q \in Long /\ bound THEN toWorker \o Copies(handlers, q) ELSE toWorker
  /\ UNCHANGED <<pageVars, handlers, bound, items, workerVars, toPage>>

\* Faulty variant: what was typed before the index was ready is not asked.
IndexReadyForgets ==
  /\ toPage # <<>> /\ Head(toPage).e = "index-ready"
  /\ toPage' = Tail(toPage)
  /\ bound' = TRUE
  /\ UNCHANGED <<pageVars, handlers, query, label, items, contents, typed, workerVars, toWorker>>

IndexReady ==
  /\ toPage # <<>> /\ Head(toPage).e = "index-ready"
  /\ toPage' = Tail(toPage)
  /\ bound' = TRUE
  /\ toWorker' = IF query \in Long THEN Append(toWorker, query) ELSE toWorker
  /\ UNCHANGED <<pageVars, handlers, query, label, items, contents, typed, workerVars>>

\* handleSearchResults: the hits of the message, with the words, the links and
\* the briefs of what the box holds by now.
QueryReady ==
  /\ toPage # <<>> /\ Head(toPage).e = "query-ready"
  /\ toPage' = Tail(toPage)
  /\ items' = [of |-> Head(toPage).q, marked |-> query]
  /\ UNCHANGED <<pageVars, handlers, query, label, bound, contents, typed, workerVars, toWorker>>

\* The reader turns a page of the results.
TurnPage ==
  /\ ~contents /\ items.of # None
  /\ items' = [items EXCEPT !.marked = query]
  /\ UNCHANGED <<pageVars, handlers, query, label, bound, contents, typed, workerVars,
                 toWorker, toPage>>

----------------------------------------------------------------------------
(* The worker *)

Built(words, loaded) == words = "loaded" /\ loaded = "loaded"

StopWordsAnswered(status) ==
  /\ stopWords = "asked"
  /\ stopWords' = status
  /\ lunrIndex' = (lunrIndex \/ Built(stopWords', data))
  /\ UNCHANGED <<pageVars, boxVars, data, dropped, toWorker, toPage>>

\* index-ready goes out when the data is there, whether the stop words are or not.
DataAnswered(status) ==
  /\ data = "asked"
  /\ data' = status
  /\ lunrIndex' = (lunrIndex \/ Built(stopWords, data'))
  /\ toPage' = IF status = "failed" THEN toPage ELSE Append(toPage, [e |-> "index-ready"])
  /\ UNCHANGED <<pageVars, boxVars, stopWords, dropped, toWorker>>

\* onmessage throws without an index or on a query with a syntax error, and then
\* no answer is posted.
Query ==
  /\ toWorker # <<>>
  /\ toWorker' = Tail(toWorker)
  /\ LET q == Head(toWorker)
     IN  /\ dropped' = (~lunrIndex \/ q \in Malformed)
         /\ toPage' = IF dropped' THEN toPage ELSE Append(toPage, [e |-> "query-ready", q |-> q])
  /\ UNCHANGED <<pageVars, boxVars, stopWords, data, lunrIndex>>

----------------------------------------------------------------------------

PageStep == IndexReady \/ QueryReady

SearchNext ==
  \/ NavbarLoaded
  \/ \E q \in Queries : Keyup(q)
  \/ PageStep \/ TurnPage
  \/ \E status \in {"failed", "loaded"} : StopWordsAnswered(status)
  \/ \E status \in {"failed", "empty", "loaded"} : DataAnswered(status)
  \/ Query

SearchSpec == InitSearch /\ [][SearchNext]_searchVars

\* The event loops of the page and of the worker go on; no file has to come.
FairSearchSpec == SearchSpec /\ WF_searchVars(PageStep) /\ WF_searchVars(Query)

----------------------------------------------------------------------------
(* Properties                                                              *)

Quiet == toWorker = <<>> /\ toPage = <<>>

Answered(q) == label = q /\ items.of = q /\ items.marked = q

\* However many handlers ask, and however late their answers are, what the page
\* ends up with under the title of a query are its results, with its words marked,
\* unless the last thing that the worker was asked threw.
LastQueryIsShown == Quiet /\ bound /\ query \in Long /\ ~dropped => Answered(query)

\* Once the index was announced, a query that stays in the box is answered, or has
\* thrown, even if it was typed before the announcement.
QueriesAreAnswered ==
  \A q \in ValidQueries :
    bound /\ query = q ~> query # q \/ (Quiet /\ (dropped \/ Answered(q)))
=============================================================================
