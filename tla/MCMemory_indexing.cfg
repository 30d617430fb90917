SPECIFICATION FairIndexSpec
CONSTANTS
  Contents <- SmallContents
  CodeSources = {"a.ts"}
  NoSymbol = NoSymbol
  MaxLines = 2
  OverlapLines = 1
  Sources = {"a.ts"}
  NoFile = NoFile
  Passes = {p1, p2}
  Queries = {q}
  Limit = 1
  MaxEdits = 2
  MaxCrashes = 1
INVARIANT RowsAreOfTheMarkedText
PROPERTIES IndexCatchesUp SearchMissesNothing
