SPECIFICATION Spec
CONSTANTS
  Chunks <- Pieces
  MaxChunks = 5
  Years <- TwoYears
  Days <- EveryDay
  Seconds <- TimesOfDay
INVARIANTS
  ParserMeetsGrammar
  ErrorsMatch
  RecipesAgreeWithCron
  ShyJobAlternates
CHECK_DEADLOCK FALSE
