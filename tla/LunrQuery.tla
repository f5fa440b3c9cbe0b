------------------------------ MODULE LunrQuery ------------------------------
(***************************************************************************)
(* The query language of the documentation site's search: lunr.QueryLexer  *)
(* and lunr.QueryParser (lunr 2.1.2), which turn what a reader types into  *)
(* the clauses of a lunr.Query or throw a QueryParseError.                 *)
(*                                                                         *)
(* A character is a number: 0 .. 9 the digits, LowerCase and UpperCase the *)
(* letters (UpperCase[n] is the capital of LowerCase[n]), and one number   *)
(* for each special character.  Space stands for whatever matches          *)
(* lunr.tokenizer.separator.                                               *)
(***************************************************************************)
EXTENDS Integers, Sequences, SequencesExt

CONSTANTS LowerCase, UpperCase,       \* sequences of as many letters
          Star, Colon, Tilde, Caret, Backslash, Space,
          AllFields                   \* the fields of the index, in order

ASSUME LettersAssumption ==
  LowerCase \in Seq(Nat) /\ UpperCase \in Seq(Nat) /\ Len(LowerCase) = Len(UpperCase)

Special == {Colon, Tilde, Caret, Backslash, Space}
Digit == 0 .. 9

\* lexText, acceptDigitRun: no character is two of what they look for.
ASSUME SpecialAssumption ==
  /\ Special \subseteq Nat \ Digit
  /\ IsInjective(<<Colon, Tilde, Caret, Backslash, Space>>)

None == -1        \* no editDistance in the clause

ToLowerCase(str) ==
  [i \in DOMAIN str |->
    IF \E n \in DOMAIN UpperCase : UpperCase[n] = str[i]
      THEN LowerCase[CHOOSE n \in DOMAIN UpperCase : UpperCase[n] = str[i]]
      ELSE str[i]]

ParseInt(str) == FoldLeft(LAMBDA n, d : 10 * n + d, 0, str)

----------------------------------------------------------------------------
(* The lexer: from each position where lexText starts, the lexemes left.   *)

\* Where lexText stops: at a delimiter, or past the end.  A backslash takes the
\* next character with it, also when there is none.
Stop(str, from) ==
  LET stop[p \in Nat] ==
        IF p > Len(str) THEN p
        ELSE IF str[p] = Backslash THEN stop[p + 2]
        ELSE IF str[p] \in Special THEN p ELSE stop[p + 1]
  IN  stop[from]

\* Faulty variant: the characters taken out are those that were escaped.
SliceStringUnescaped(str, from, to) ==
  SelectSeq(SubSeq(str, from, to - 1), LAMBDA c : c # Backslash)

\* sliceString: what is between two positions without its escape characters.
SliceString(str, from, to) ==
  LET rest[p \in Nat] ==
        IF p >= to THEN <<>>
        ELSE IF str[p] = Backslash
          THEN SubSeq(str, p + 1, IF p + 1 < to THEN p + 1 ELSE p) \o rest[p + 2]
          ELSE <<str[p]>> \o rest[p + 1]
  IN  rest[from]

\* acceptDigitRun
DigitsEnd(str, from) ==
  Min({p \in from .. Len(str) : str[p] \notin Digit} \cup {Len(str) + 1})

Lexeme(type, str) == [type |-> type, str |-> str]

Lexemes(string) ==
  LET lexText[start \in Nat] ==
        LET stop == Stop(string, start)
            text == SliceString(string, start, Min({stop, Len(string) + 1}))
            term == IF stop > start THEN <<Lexeme("TERM", text)>> ELSE <<>>
            digits == DigitsEnd(string, stop + 1)
            number(type) == <<Lexeme(type, SubSeq(string, stop + 1, digits - 1))>>
        IN  IF stop > Len(string) THEN term
            ELSE CASE string[stop] = Colon -> <<Lexeme("FIELD", text)>> \o lexText[stop + 1]
                   [] string[stop] = Tilde -> term \o number("EDIT_DISTANCE") \o lexText[digits]
                   [] string[stop] = Caret -> term \o number("BOOST") \o lexText[digits]
                   [] string[stop] = Space -> term \o lexText[stop + 1]
  IN  lexText[1]

----------------------------------------------------------------------------
(* The parser: one lexeme after the other, in the state that says which    *)
(* parse function comes next ("start" for parseFieldOrTerm, "field" once a *)
(* field is known, "term" once the clause has its term).                   *)

\* parseTerm, with the defaults of Query.clause.
Clause(str, fields) ==
  [fields |-> fields, term |-> ToLowerCase(str), boost |-> 1, editDistance |-> None,
   usePipeline |-> ~Contains(str, Star)]

InitialParse == [state |-> "start", clauses |-> <<>>, fields |-> AllFields]

\* nextClause
Completed(parse) ==
  IF parse.state = "term" THEN Append(parse.clauses, parse.current) ELSE parse.clauses

\* Faulty variant: the next clause keeps the field of this one.
ParseTermKeepsField(parse, str) ==
  [state |-> "term", clauses |-> Completed(parse), fields |-> parse.fields,
   current |-> Clause(str, parse.fields)]

ParseTerm(parse, str) ==
  [state |-> "term", clauses |-> Completed(parse), fields |-> AllFields,
   current |-> Clause(str, parse.fields)]

ParseField(parse, str) ==
  IF parse.state # "field" /\ Contains(AllFields, str)
    THEN [state |-> "field", clauses |-> Completed(parse), fields |-> <<str>>]
    ELSE [state |-> "error"]

ParseEditDistance(parse, str) ==
  IF parse.state = "term" /\ str # <<>>
    THEN [parse EXCEPT !.current.editDistance = ParseInt(str)]
    ELSE [state |-> "error"]

ParseBoost(parse, str) ==
  IF parse.state = "term" /\ str # <<>>
    THEN [parse EXCEPT !.current.boost = ParseInt(str)]
    ELSE [state |-> "error"]

ParseLexeme(parse, lexeme) ==
  IF parse.state = "error" THEN parse
  ELSE CASE lexeme.type = "TERM" -> ParseTerm(parse, lexeme.str)
         [] lexeme.type = "FIELD" -> ParseField(parse, lexeme.str)
         [] lexeme.type = "EDIT_DISTANCE" -> ParseEditDistance(parse, lexeme.str)
         [] lexeme.type = "BOOST" -> ParseBoost(parse, lexeme.str)

\* parse: whether the string is a query, and its clauses.
Parse(string) ==
  LET parse == FoldLeft(ParseLexeme, InitialParse, Lexemes(string))
  IN  IF parse.state \in {"error", "field"}
        THEN [ok |-> FALSE]
        ELSE [ok |-> TRUE, clauses |-> Completed(parse)]

----------------------------------------------------------------------------
(* The notation that the parser is meant to read                           *)

Escaped(str) ==
  FlattenSeq([i \in DOMAIN str |->
                IF str[i] \in Special THEN <<Backslash, str[i]>> ELSE <<str[i]>>])

\* A clause as a reader would write it; boost and distance of one digit.
Notation(clause) ==
  (IF clause.fields = AllFields THEN <<>> ELSE Escaped(clause.fields[1]) \o <<Colon>>)
    \o Escaped(clause.term)
    \o (IF clause.editDistance = None THEN <<>> ELSE <<Tilde, clause.editDistance>>)
    \o (IF clause.boost = 1 THEN <<>> ELSE <<Caret, clause.boost>>)
=============================================================================
