SPECIFICATION DocsSpec
CONSTANTS
  MaxHeadings = 5
  Layouts <- MCLayouts
  TabIds <- MCTabIds
  NoCondition = "none"
  Trees <- MCTrees
  ValidQueries = {"task", "fiber"}
  Malformed = {"task^"}
  Short = {"ta"}
  None = None
  MaxTyped = 3
  MaxHandlers = 3
CHECK_DEADLOCK FALSE
INVARIANTS
  OutlineNestsHeadings
  OneTabShown
  FilterIsExact
  LastQueryIsShown
PROPERTIES
  ClicksAreFollowed
  QueriesAreAnswered
