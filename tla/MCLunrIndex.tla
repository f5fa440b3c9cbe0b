----------------------------- MODULE MCLunrIndex -----------------------------
(***************************************************************************)
(* A small instance of LunrIndex: an alphabet of two letters and a digit,  *)
(* the fields "a" and "s", a handful of documents, and for queries every   *)
(* short string together with longer ones made of two clauses.             *)
(***************************************************************************)
EXTENDS LunrIndex

a == 10
s == 28
MCLowerCase == <<a, s>>
MCUpperCase == <<40, 58>>
MCAllFields == <<<<a>>, <<s>>>>
MCNonWord == Special \cup {Star}
MCStopWords == {<<s>>}

\* The first rule of the stemmer, which spares words of two letters.
MCStem(term) ==
  IF Len(term) > 2 /\ Last(term) = s /\ term[Len(term) - 1] # s THEN Front(term) ELSE term

Text(words) == FlattenSeq([i \in DOMAIN words |-> <<Space>> \o words[i]])

MCCorpora ==
  LET titles == {<<>>, <<<<a, s>>, <<40>>>>, <<<<s, s>>, <<Star, s>>, <<s, s>>>>}
      keywords == {<<<<s, a, a>>, <<a, a>>, <<a, s, a, s>>, <<s, s, a>>>>,
                   <<<<2>>, <<a, Star>>, <<1, 0>>, <<Star>>, <<0, 1>>, <<s>>, <<a, Star, s>>>>}
      documents == {<<a>> :> Text(t) @@ <<s>> :> Text(k) : t \in titles, k \in keywords}
  IN  {<<d, e>> : d \in documents, e \in {f \in documents : f[<<a>>] = <<>>}}

MCStrings ==
  LET alphabet == {a, 58, 1, Star, Colon, Tilde, Caret, Backslash, Space}
      typed == {<<a>>, <<s>>, <<a, Star>>, <<a, s, a>>, <<s, a, a, s>>, <<a, Star, a>>, <<Star, s>>}
      clauses == {[Clause(t, f) EXCEPT !.boost = b, !.editDistance = e] :
                    t \in typed, f \in {AllFields, <<<<s>>>>}, b \in {1, 3}, e \in {None, 1, 2}}
  IN  BoundedSeq(alphabet, 3)
        \cup {Notation(c) : c \in clauses}
        \cup {Notation(c) \o <<Space>> \o Notation(d) :
                c \in {c \in clauses : c.boost = 3}, d \in {c \in clauses : c.term = <<a, s, a>>}}

\* Seven numbers of one document, and no question.  The node of 40 and 410 has the
\* string of the node of 302 and 31: an edge by 0 to node 2 and one by 1 to node
\* 12, or an edge by 0 to node 21 and one by 1 to node 2.
MCNumbered ==
  LET ones == [i \in 1 .. 11 |-> IF i = 11 THEN 0 ELSE 1]
      twos == [i \in 1 .. 9 |-> 2]
  IN  {<< <<a>> :> Text(<<<<0>>, ones, twos, <<3, 0, 2>>, <<3, 1>>, <<4, 0>>, <<4, 1, 0>>>>)
            @@ <<s>> :> <<>> >>}

MCUnasked == {}
=============================================================================
