SPECIFICATION Spec
CONSTANTS
  TicksPerDay = 2
  DefaultDays = 2
  MaxDays = 3
  PriceUnit = 2
  Prices <- MCPrices
  MaxText = 8
  MaxPages = 2
  MaxChars = 7
  CharsPerToken = 2
  TargetTokens = {3}
  OverlapTokens = {1}
  MaxSymbols = 5
  Texts = {1, 2, 3}
  Sizes = {1, 2, 3}
  MaxRows = 2
  LastDay = 3
  MaxPieces = 7
  MaxSources = 2
INVARIANT RepeatBeginsAWord
CHECK_DEADLOCK FALSE
