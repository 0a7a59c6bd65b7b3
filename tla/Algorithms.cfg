SPECIFICATION Spec
CONSTANTS
  TicksPerDay = 2
  DefaultDays = 2
  MaxDays = 3
  PriceUnit = 2
  Prices <- MCPrices
  MaxText = 8
  MaxPages = 2
  MaxChars = 7
  CharsPerToken = 2
  TargetTokens = {1, 2}
  OverlapTokens = {0, 1, 2}
  MaxSymbols = 5
  Texts = {1, 2, 3}
  Sizes = {1, 2, 3}
  MaxRows = 2
  LastDay = 3
  MaxPieces = 7
  MaxSources = 2
INVARIANTS
  EveryCharacterChunked
  FenceIsItsOwn
  EveryTextItsVector
  DaysAgreeWithSummary
  CitationsAreTheMentions
CHECK_DEADLOCK FALSE
