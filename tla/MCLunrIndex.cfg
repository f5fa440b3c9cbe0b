SPECIFICATION IndexSpec
CONSTANTS
  LowerCase <- MCLowerCase
  UpperCase <- MCUpperCase
  Star = 100
  Colon = 101
  Tilde = 102
  Caret = 103
  Backslash = 104
  Space = 105
  AllFields <- MCAllFields
  Root = 1
  NonWord <- MCNonWord
  Stem <- MCStem
  StopWords <- MCStopWords
  Corpora <- MCCorpora
  Strings <- MCStrings
INVARIANTS
  TokenSetIsExact
  TokenSetIsMinimal
  EveryTermCanBeWritten
  QueriesCompose
  AnswersAreExact
  ScoresAddUp
CHECK_DEADLOCK FALSE
