------------------------------ MODULE LunrIndex ------------------------------
(***************************************************************************)
(* The index behind the documentation site's search, as search-worker.js   *)
(* builds it with lunr.Builder and asks it with lunr.Index.search: the     *)
(* documents are added one by one, the terms go into the token set one by  *)
(* one, and then any string may be asked.                                  *)
(*                                                                         *)
(* A weight stands for the score of a term in a field: the code multiplies *)
(* the frequency by factors (idf, the length of the field) that are left   *)
(* out here, and divides by the lengths of both vectors at the end, which  *)
(* decides the order of the answers and not which they are.                *)
(***************************************************************************)
EXTENDS LunrQuery, LunrVector, FiniteSets

CONSTANTS
  Root,
  NonWord,         \* the characters that \W matches
  Stem(_),         \* lunr.stemmer: any function of terms
  StopWords,       \* search-stopwords.json
  Corpora,         \* what index.json may hold: sequences of documents, each a
                   \* function from the fields to strings
  Strings          \* what a reader may type

ASSUME FieldsAssumption ==
  AllFields \in Seq(Seq(Nat)) /\ Len(AllFields) > 0 /\ IsInjective(AllFields)

ASSUME RootAssumption == Root \in Nat

ASSUME StringsAssumption == Strings \subseteq Seq(Nat)

ASSUME CorporaAssumption == \A c \in Corpora : c \in Seq([ToSet(AllFields) -> Seq(Nat)])

VARIABLES
  corpus,
  added,           \* how many documents were added
  terms,           \* invertedIndex: its terms in the order of their _index
  frequencies,     \* fieldTermFrequencies of each <<document, field>>, as the
                   \* sequence of the terms with their number
  inserted,        \* how many of the sorted terms are in the token set
  built,
  asked,           \* the string of the last search
  edges, final, nextId, previousWord, uncheckedNodes, minimizedNodes

TokenSet == INSTANCE LunrTokenSet

tokenSetVars == <<edges, final, nextId, previousWord, uncheckedNodes, minimizedNodes>>
documentVars == <<corpus, added, terms, frequencies>>
indexVars == <<documentVars, inserted, built, asked, tokenSetVars>>

InitIndex ==
  /\ corpus \in Corpora
  /\ added = 0
  /\ terms = <<>>
  /\ frequencies = <<>>
  /\ inserted = 0
  /\ built = FALSE
  /\ asked = <<>>
  /\ TokenSet!InitTokenSet

----------------------------------------------------------------------------
(* Tokenizer and pipelines.  The worker takes the stop words out of the    *)
(* index pipeline, and adds its own to both when the documents are in: the *)
(* index keeps stop words that a search drops.                             *)

Tokens(text) ==
  LET str == ToLowerCase(text)
      from[p \in Nat \ {0}] ==
        LET end == Min({q \in p .. Len(str) : str[q] = Space} \cup {Len(str) + 1})
        IN  IF p > Len(str) THEN <<>>
            ELSE (IF end > p THEN <<SubSeq(str, p, end - 1)>> ELSE <<>>) \o from[end + 1]
  IN  from[1]

\* trimmer: a token of non-word characters becomes the empty term, and stays.
Trimmed(token) ==
  LET word == {i \in DOMAIN token : token[i] \notin NonWord}
  IN  IF word = {} THEN <<>> ELSE SubSeq(token, Min(word), Max(word))

ASSUME StemAssumption ==
  \A c \in Corpora : \A d \in DOMAIN c : \A field \in DOMAIN c[d] :
    \A token \in ToSet(Tokens(c[d][field])) : Stem(Trimmed(token)) \in Seq(Nat)

IndexPipeline(tokens) == [i \in DOMAIN tokens |-> Stem(Trimmed(tokens[i]))]

\* runString on the search pipeline: one term, or none.
SearchPipeline(term) == {Stem(term)} \ StopWords

----------------------------------------------------------------------------
(* Builder.add                                                             *)

\* An object with one more of a key, and its keys in the order of insertion.
Counted(counts, term) ==
  LET places == {i \in DOMAIN counts : counts[i][1] = term}
  IN  IF places = {} THEN Append(counts, <<term, 1>>)
        ELSE [counts EXCEPT ![CHOOSE i \in places : TRUE][2] = @ + 1]

FieldTerms(d, field) == IndexPipeline(Tokens(corpus[d][field]))

\* The inverted index with one posting for every term.
Indexed(known, new) ==
  LET index[i \in 0 .. Len(new)] ==
        IF i = 0 THEN known
        ELSE IF Contains(index[i - 1], new[i]) THEN index[i - 1]
        ELSE Append(index[i - 1], new[i])
  IN  index[Len(new)]

\* The fields one after the other.
AddDocument ==
  /\ added < Len(corpus)
  /\ LET d == added + 1
         of(field) == FieldTerms(d, field)
         index[i \in 0 .. Len(AllFields)] ==
           IF i = 0 THEN terms ELSE Indexed(index[i - 1], of(AllFields[i]))
     IN  /\ terms' = index[Len(AllFields)]
         /\ frequencies' = [p \in {<<d, f>> : f \in ToSet(AllFields)} |->
                             FoldLeft(Counted, <<>>, of(p[2]))] @@ frequencies
         /\ added' = d
  /\ UNCHANGED <<corpus, inserted, built, asked, tokenSetVars>>

----------------------------------------------------------------------------
(* Builder.build                                                           *)

TermIndex(term) == (CHOOSE i \in DOMAIN terms : terms[i] = term) - 1

SortedTerms == TokenSet!SortedWords(ToSet(terms))

\* fromArray(Object.keys(invertedIndex).sort())
InsertTerm ==
  /\ added = Len(corpus)
  /\ inserted < Len(terms)
  /\ TokenSet!Insert(SortedTerms[inserted + 1])
  /\ inserted' = inserted + 1
  /\ UNCHANGED <<documentVars, built, asked>>

Build ==
  /\ added = Len(corpus) /\ inserted = Len(terms)
  /\ ~built
  /\ TokenSet!Finish
  /\ built' = TRUE
  /\ UNCHANGED <<documentVars, inserted, asked>>

\* Keys that read as numbers come first in an object, in their own order.
IsNumber(term) == /\ term # <<>> /\ ToSet(term) \subseteq Digit
                  /\ term[1] = 0 => Len(term) = 1

Keys(counts) ==
  SortSeq(SelectSeq(counts, LAMBDA c : IsNumber(c[1])), LAMBDA c, d : ParseInt(c[1]) < ParseInt(d[1]))
    \o SelectSeq(counts, LAMBDA c : ~IsNumber(c[1]))

\* createFieldVectors
FieldVector(d, field) ==
  FoldLeft(LAMBDA v, c : Upsert(v, TermIndex(c[1]), c[2]), <<>>, Keys(frequencies[d, field]))

----------------------------------------------------------------------------
(* Index.search                                                            *)

\* A search leaves the index as it is: one search says what any other would.
Search(string) ==
  /\ built
  /\ asked = <<>>
  /\ asked' = string
  /\ UNCHANGED <<documentVars, inserted, built, tokenSetVars>>

IndexNext == AddDocument \/ InsertTerm \/ Build \/ \E string \in Strings : Search(string)

IndexSpec == InitIndex /\ [][IndexNext]_indexVars

TermsOf(clause) == IF clause.usePipeline THEN SearchPipeline(clause.term) ELSE {clause.term}

FromClause(clause, term) ==
  IF clause.editDistance = None THEN TokenSet!FromString(term)
                                ELSE TokenSet!FromFuzzyString(term, clause.editDistance)

ExpandedTerms(clause) ==
  UNION {TokenSet!Expand(FromClause(clause, term)) : term \in TermsOf(clause)}

\* invertedIndex[term][field]
Posting(term, field) ==
  {d \in DOMAIN corpus : \E c \in ToSet(frequencies[d, field]) : c[1] = term}

\* matchingFields, with their matchData: <<document, field, term>>.
Matches(clauses) ==
  UNION {{m \in (DOMAIN corpus) \X ToSet(c.fields) \X ExpandedTerms(c) :
            m[1] \in Posting(m[3], m[2])} : c \in ToSet(clauses)}

\* toArray: a word before those that it begins, and the edges of a node from the
\* last to the first of Object.keys.  These are in the order in which intersect
\* came by them, which is left open: keys gives each character its place.
ToArray(words, keys) ==
  LET later(u, v, i) == SubSeq(u, 1, i - 1) = SubSeq(v, 1, i - 1) /\ keys[u[i]] > keys[v[i]]
  IN  SortSeq(SelectSeq(terms, LAMBDA t : t \in words),
              LAMBDA u, v : IsStrictPrefix(u, v) \/ \E i \in DOMAIN u \cap DOMAIN v : later(u, v, i))

\* queryVectors[field], when the terms of each clause come in the order of its array.
QueryVector(clauses, arrays, field) ==
  LET Boost(v, i) == IF field \notin ToSet(clauses[i].fields) THEN v
                       ELSE FoldLeft(LAMBDA w, t : Upsert(w, TermIndex(t), clauses[i].boost), v, arrays[i])
  IN  FoldLeft(Boost, <<>>, [i \in DOMAIN clauses |-> i])

----------------------------------------------------------------------------
(* What the index promises                                                 *)

\* The words a term stands for: a wildcard for any characters, or for none (where
\* the doc of lunr.Index.search has "one or more").
WildcardMatches(term, word) ==
  LET match[i \in Nat, j \in Nat] ==
        IF i > Len(term) THEN j > Len(word)
        ELSE IF term[i] = Star
          THEN match[i + 1, j] \/ (j <= Len(word) /\ match[i, j + 1])
          ELSE j <= Len(word) /\ term[i] = word[j] /\ match[i + 1, j + 1]
  IN  match[1, 1]

\* Under an edit distance a wildcard is any one character.
Like(term, word) ==
  Len(term) = Len(word) /\ \A i \in DOMAIN term : term[i] \in {Star, word[i]}

\* Edits are made from the left to the right: what is before left is settled.  Each
\* settles one character: that which replaces another, or is inserted before one of
\* the term, or comes first of two that change places, or follows the one deleted.
\* So nothing is inserted after the last character, and no two neighbours deleted.
Edits(e) ==
  UNION {{ [term |-> RemoveAt(e.term, i), left |-> i + 1],
           [term |-> [e.term EXCEPT ![i] = Star], left |-> i + 1],
           [term |-> InsertAt(e.term, i, Star), left |-> i + 1] } : i \in e.left .. Len(e.term)}
    \cup {[term |-> [e.term EXCEPT ![i] = e.term[i + 1], ![i + 1] = e.term[i]], left |-> i + 1] :
            i \in e.left .. Len(e.term) - 1}

Edited(term, distance) ==
  LET edited[k \in Nat] == IF k = 0 THEN {[term |-> term, left |-> 1]}
                                    ELSE edited[k - 1] \cup UNION {Edits(e) : e \in edited[k - 1]}
  IN  {e.term : e \in edited[distance]}

Denoted(clause, term) ==
  {word \in ToSet(terms) \ {<<>>} :
     IF clause.editDistance = None
       THEN WildcardMatches(term, word)
       ELSE \E edited \in Edited(term, clause.editDistance) : Like(edited, word)}

Query == Parse(asked)

(***************************************************************************)
(* Any text in lower case can be searched for: written with its special    *)
(* characters escaped, with any field, distance and boost around it, it is *)
(* read back as the one clause that was meant.                             *)
(***************************************************************************)
EveryTermCanBeWritten ==
  asked # <<>> /\ asked = ToLowerCase(asked) =>
    \A fields \in {AllFields} \cup {<<f>> : f \in ToSet(AllFields)} :
      \A boost \in {0, 1, 9} : \A distance \in {None, 0, 2} :
        LET clause == [Clause(asked, fields) EXCEPT !.boost = boost, !.editDistance = distance]
        IN  Parse(Notation(clause)) = [ok |-> TRUE, clauses |-> <<clause>>]

EscapedAt(str, i) ==
  LET backslashes == i - 1 - Max({j \in 0 .. i - 1 : j = 0 \/ str[j] # Backslash})
  IN  backslashes % 2 = 1

(***************************************************************************)
(* What stands on the two sides of a space means what it means on its own: *)
(* where both sides are queries, the clauses of the whole are those of the *)
(* one and then of the other.                                              *)
(***************************************************************************)
QueriesCompose ==
  \A i \in {i \in DOMAIN asked : asked[i] = Space /\ ~EscapedAt(asked, i)} :
    LET left == Parse(SubSeq(asked, 1, i - 1))
        right == Parse(SubSeq(asked, i + 1, Len(asked)))
    IN  left.ok /\ right.ok =>
          Query = [ok |-> TRUE, clauses |-> left.clauses \o right.clauses]

\* Every word inserted so far is accepted, and no other, although nodes were
\* merged as soon as the builder thought them complete.
TokenSetIsExact ==
  TokenSet!RightLanguage(Root) = {SortedTerms[i] : i \in 1 .. inserted}

\* The automaton of a built index is minimal: no two of its nodes lead to the
\* same words.
TokenSetIsMinimal ==
  built => \A m, n \in TokenSet!Reachable :
             TokenSet!RightLanguage(m) = TokenSet!RightLanguage(n) => m = n

\* A query finds a term in a field of a document exactly when the text of that
\* field has a word with a stem that one of the clauses denotes.
AnswersAreExact ==
  asked # <<>> /\ Query.ok =>
    LET clauses == ToSet(Query.clauses)
        denoted == [c \in clauses |-> UNION {Denoted(c, term) : term \in TermsOf(c)}]
        holding == [p \in (DOMAIN corpus) \X ToSet(AllFields) |-> ToSet(FieldTerms(p[1], p[2]))]
    IN  Matches(Query.clauses) =
          UNION {UNION {{<<d, f, w>> : w \in denoted[c] \cap holding[d, f]} :
                          d \in DOMAIN corpus, f \in ToSet(c.fields)} : c \in clauses}

\* The score of a field adds up boost and weight of every term that the query
\* and the field share: no pair of the sparse vectors is missed, whatever the order
\* in which the terms of the query are found.
ScoresAddUp ==
  asked # <<>> /\ Query.ok =>
    LET clauses == Query.clauses
        characters == UNION {ToSet(t) : t \in ToSet(terms)}
        place(c) == Cardinality({x \in characters : x <= c})
        orders == UNION {{[c \in characters |-> (place(c) + n) % Cardinality(characters)],
                          [c \in characters |-> (n - place(c)) % Cardinality(characters)]} :
                            n \in 1 .. Cardinality(characters)}
    IN  \A words \in {[i \in DOMAIN clauses |-> ExpandedTerms(clauses[i])]} :
          LET found == {[i \in DOMAIN clauses |-> ToArray(words[i], keys)] : keys \in orders}
              shared(i, d, f) == Len(SelectSeq(FieldTerms(d, f), LAMBDA t : t \in words[i]))
          IN  \A f \in ToSet(AllFields), d \in DOMAIN corpus :
                LET vector == FieldVector(d, f)
                    score == FoldLeft(LAMBDA n, i : n + IF f \in ToSet(clauses[i].fields)
                                                          THEN clauses[i].boost * shared(i, d, f) ELSE 0,
                                      0, [i \in DOMAIN clauses |-> i])
                IN  \A arrays \in found : Dot(QueryVector(clauses, arrays, f), vector) = score
=============================================================================
