---------------------------- MODULE LunrTokenSet ----------------------------
(***************************************************************************)
(* lunr.TokenSet of the documentation site's search (lunr 2.1.2): the      *)
(* minimal automaton of the words of an index, built word by word, and the *)
(* automata of query terms, with wildcards or within an edit distance,     *)
(* that are intersected with it.                                           *)
(*                                                                         *)
(* A character is its number: 0 .. 9 are the digits, and Star is the       *)
(* wildcard.  A word is a sequence of characters, a node is its id, and    *)
(* edges is the function that takes <<node, label>> to a node.             *)
(***************************************************************************)
EXTENDS Naturals, Sequences, FiniteSets, SequencesExt

CONSTANT Star
CONSTANT Root      \* _nextId when the builder is made, the id of its root

VARIABLES
  edges, final,    \* the nodes' fields
  nextId,          \* lunr.TokenSet._nextId
  previousWord,
  uncheckedNodes,  \* the path of previousWord that is not minimized yet
  minimizedNodes   \* registered nodes: a function of their toString

tokenSetVars == <<edges, final, nextId, previousWord, uncheckedNodes, minimizedNodes>>

InitTokenSet ==
  /\ edges = <<>>
  /\ final = {}
  /\ nextId = Root + 1
  /\ previousWord = <<>>
  /\ uncheckedNodes = <<>>
  /\ minimizedNodes = <<>>

----------------------------------------------------------------------------
(* The builder                                                             *)

\* The order of strings.
Precedes(u, v) ==
  \E i \in DOMAIN v :
    /\ \A j \in 1 .. i - 1 : j \in DOMAIN u /\ u[j] = v[j]
    /\ i \in DOMAIN u => u[i] < v[i]

\* What sort makes of a set, below[x] being what comes before x.
Sorted(S, below) ==
  [i \in 1 .. Cardinality(S) |-> CHOOSE x \in S : Cardinality(below[x]) = i - 1]

SortedWords(words) == Sorted(words, [w \in words |-> {v \in words : Precedes(v, w)}])

Labels(g, node) == {e[2] : e \in {e \in DOMAIN g : e[1] = node}}

SortedLabels(labels) == Sorted(labels, [c \in labels |-> {b \in labels : b < c}])

Digits(n) ==
  LET digits[k \in Nat] ==
        IF k < 10 THEN <<k>> ELSE Append(digits[k \div 10], k % 10)
  IN  digits[n]

\* The loop of toString.  Nothing separates an id from the label that follows it,
\* which may be a digit.
Spelled(bit, labels, ids) ==
  LET str[i \in 0 .. Len(labels)] ==
        IF i = 0 THEN <<bit>> ELSE str[i - 1] \o <<labels[i]>> \o Digits(ids[i])
  IN  str[Len(labels)]

\* toString
Key(g, node) ==
  LET labels == SortedLabels(Labels(g, node))
  IN  Spelled(IF node \in final THEN 1 ELSE 0, labels, [i \in DOMAIN labels |-> g[node, labels[i]]])

\* A node that has the string of a registered one is replaced by it, any other is
\* registered.
CheckNode(m, u) ==
  LET key == Key(m.edges, u.child)
  IN  IF key \in DOMAIN m.register
        THEN [edges |-> [m.edges EXCEPT ![<<u.parent, u.char>>] = m.register[key]],
              register |-> m.register]
        ELSE [edges |-> m.edges,
              register |-> [k \in DOMAIN m.register \cup {key} |->
                              IF k = key THEN u.child ELSE m.register[k]]]

\* The edges and the register once the unchecked nodes past downTo were checked,
\* deepest first.
Minimized(downTo) ==
  LET n == Len(uncheckedNodes)
      minimize[i \in 0 .. n - downTo] ==
        IF i = 0 THEN [edges |-> edges, register |-> minimizedNodes]
          ELSE CheckNode(minimize[i - 1], uncheckedNodes[n - i + 1])
  IN  minimize[n - downTo]

\* Faulty variant: the loop goes on past the first difference.
CommonPrefixUnbroken(word) ==
  Cardinality({i \in DOMAIN word \cap DOMAIN previousWord : word[i] = previousWord[i]})

CommonPrefix(word) ==
  Max({n \in 0 .. Len(word) : \A i \in 1 .. n : i \in DOMAIN previousWord /\ word[i] = previousWord[i]})

\* Words come in order, or insert throws.
Insert(word) ==
  /\ ~Precedes(word, previousWord)
  /\ LET prefix == CommonPrefix(word)
         m == Minimized(prefix)
         \* the node that the first i - 1 characters of word lead to
         parent(i) == IF i > prefix + 1 THEN nextId + i - prefix - 2
                        ELSE IF prefix = 0 THEN Root ELSE uncheckedNodes[prefix].child
         added == [i \in 1 .. Len(word) - prefix |->
                    [parent |-> parent(prefix + i), char |-> word[prefix + i],
                     child |-> nextId + i - 1]]
         new == {<<u.parent, u.char>> : u \in ToSet(added)}
     IN  /\ edges' = [e \in DOMAIN m.edges \cup new |->
                        IF e \in new THEN (CHOOSE u \in ToSet(added) : e = <<u.parent, u.char>>).child
                                     ELSE m.edges[e]]
         /\ minimizedNodes' = m.register
         /\ uncheckedNodes' = SubSeq(uncheckedNodes, 1, prefix) \o added
         /\ nextId' = nextId + Len(added)
         /\ final' = final \cup {parent(Len(word) + 1)}
  /\ previousWord' = word

\* Faulty variant: the last word is left as it is.
FinishUnminimized ==
  /\ uncheckedNodes' = <<>>
  /\ UNCHANGED <<edges, minimizedNodes, final, nextId, previousWord>>

Finish ==
  /\ LET m == Minimized(0)
     IN  edges' = m.edges /\ minimizedNodes' = m.register
  /\ uncheckedNodes' = <<>>
  /\ UNCHANGED <<final, nextId, previousWord>>

----------------------------------------------------------------------------
(* The automata of query terms, as records of a root, edges and final      *)
(* nodes.                                                                  *)

\* The node before a wildcard loops on it.  Every node after the first wildcard
\* also goes back to the root, unless a wildcard of its own takes that label.
FromString(str) ==
  LET at(i) == Cardinality({j \in 1 .. i : str[j] # Star})
      chars == {i \in DOMAIN str : str[i] # Star}
      stars == DOMAIN str \ chars
      steps == {<<at(i - 1), str[i], at(i)>> : i \in DOMAIN str}
      looping == {at(i) : i \in stars}
      back == {<<at(i), Star, 0>> : i \in {j \in chars : \E s \in stars : s < j}}
      all == steps \cup {t \in back : t[1] \notin looping}
  IN  [root |-> 0,
       edges |-> [e \in {<<t[1], t[2]>> : t \in all} |->
                    (CHOOSE t \in all : e = <<t[1], t[2]>>)[3]],
       final |-> IF str = <<>> THEN {} ELSE {at(Len(str))}]

\* Faulty variant: one edit uses up all that are left.
MovedOnce(f, label, cost, rest) ==
  [node |-> Append(f.node, label), edits |-> IF cost = 0 THEN f.edits ELSE 0, str |-> rest]

\* One frame of fromFuzzyString per node, edits remaining and string left.
\* Nodes are named by the labels that lead to them: no two paths share one.
Moved(f, label, cost, rest) ==
  [node |-> Append(f.node, label), edits |-> f.edits - cost, str |-> rest]

FuzzyMoves(f) ==
  LET str == f.str
  IN  (IF Len(str) > 0 THEN {Moved(f, str[1], 0, Tail(str))} ELSE {})
        \cup IF f.edits = 0 THEN {} ELSE
          {Moved(f, Star, 1, str)}                                        \* insertion
            \cup (IF Len(str) > 0 THEN {Moved(f, Star, 1, Tail(str))}     \* substitution
                                  ELSE {})
            \cup IF Len(str) > 1
                   THEN {Moved(f, str[2], 1, SubSeq(str, 3, Len(str))),   \* deletion
                         Moved(f, str[2], 1, <<str[1]>> \o SubSeq(str, 3, Len(str)))}
                   ELSE {}

\* A node reached with nothing left of the string is final and is not pushed.
FromFuzzyString(str, editDistance) ==
  LET first == {[node |-> <<>>, edits |-> editDistance, str |-> str]}
      pushed(S) == {f \in S : f.str # <<>> \/ f \in first}
      level[k \in Nat] ==
        IF k = 0 THEN first ELSE UNION {FuzzyMoves(f) : f \in pushed(level[k - 1])}
      frames == UNION {level[k] : k \in 0 .. Len(str) + editDistance}
  IN  [root |-> <<>>,
       edges |-> [e \in {<<Front(f.node), Last(f.node)>> : f \in frames \ first} |->
                    Append(e[1], e[2])],
       final |-> {f.node : f \in {g \in frames \ first : g.str = <<>>}}
                   \cup {f.node : f \in {g \in frames : g.edits > 0 /\ Len(g.str) = 1}}]

\* intersect and toArray: the words that both sides lead to a final node.  The
\* root of the result is never final, so the empty word is not found.
Expand(q) ==
  LET Moves(f) ==
        {[word |-> Append(f.word, p[1]), node |-> edges[f.node, p[1]], q |-> q.edges[f.q, p[2]]] :
           p \in {p \in Labels(edges, f.node) \X Labels(q.edges, f.q) :
                    p[1] = p[2] \/ p[2] = Star}}
      level[k \in Nat] ==
        IF k = 0 THEN {[word |-> <<>>, node |-> Root, q |-> q.root]}
                 ELSE UNION {Moves(f) : f \in level[k - 1]}
      reached == UNION {level[k] : k \in 1 .. nextId - Root}
  IN  {f.word : f \in {g \in reached : g.node \in final /\ g.q \in q.final}}

----------------------------------------------------------------------------
(* What the automaton is meant to be                                       *)

Prefixed(c, words) == {<<c>> \o w : w \in words}

\* The words of at most so many characters that lead from each node to one of
\* those that accept.
Language(g, accepting, length) ==
  LET words[k \in Nat] ==
        [n \in Nat |->
          (IF n \in accepting THEN {<<>>} ELSE {})
            \cup IF k = 0 THEN {} ELSE
              UNION {Prefixed(c, words[k - 1][g[n, c]]) : c \in Labels(g, n)}]
  IN  words[length]

RightLanguage(node) == Language(edges, final, nextId - Root)[node]

Reachable ==
  LET level[k \in Nat] ==
        IF k = 0 THEN {Root}
          ELSE UNION {{edges[n, c] : c \in Labels(edges, n)} : n \in level[k - 1]}
  IN  UNION {level[k] : k \in 0 .. nextId - Root}
=============================================================================
