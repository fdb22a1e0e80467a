SPECIFICATION Spec
CONSTANTS
  Texts <- MCTexts
  Capacities = {1, 2, 3}
  CR = "cr"
  LF = "lf"
  NoLine = NoLine
  Walks <- MCWalks
  Overrides <- MCOverrides
  Configured <- MCConfigured
  OptionPrefixes <- MCOptionPrefixes
  ValueParts = {"1", "2", "exe"}
  Null = Null
  Sessions <- MCSessions
  Alphabet <- MCAlphabet
  Numbers = {0, 1, 2, 3}
  LineFeed = "lf"
  Return = "cr"
  Type <- MCType
  NumberOf <- MCNumberOf
  IsNumber <- MCIsNumber
  Digits <- MCDigits
  Invocations <- MCInvocations
  Extended <- MCExtended
  Socket <- MCSocket
  Pipe <- MCPipe
  PipeSpellings <- MCPipeSpellings
  Characters <- MCCharacters
  Space = " "
  Quote <- MCQuote
  Apostrophe = "'"
  Backslash <- MCBackslash
INVARIANTS
  LinesOfText
  LeftInOrder
  NothingForgotten
  OverridesWin
  SessionComesThrough
  ArgumentsArrive
CHECK_DEADLOCK FALSE
