SPECIFICATION BothSpec
CONSTANTS
  a = a  b = b  g = g  dg = dg  var = var  nil = nil  none = none
  Term = {a, b, g, dg}
  DefaultGraph = dg
  Unencodable = {}
  Quoted = {}
  Guessed = {}
  Str = {}
  NoStr = none
  StrOf <- MCStrOf
  Digest = {}
  Hash <- MCHash
  Var = var
  Nil = nil
  Stored <- FiveQuads
  Fragment <- AnyFragment
  MaxInlineStringSize = 2
  Width = 4
  IntOf <- Ints
  IntText <- IntTexts
  FloatOf <- Floats
  FloatText <- FloatTexts
  WholeText <- WholeTexts
  BoolOf <- Bools
  DayOf <- Days
  DayText <- DayTexts
  TickOf <- Ticks
  SecondText <- SecondTexts
  TicksPerSecond = 2
  WestOfGreenwich = FALSE
  RDFTerm <- SomeTerms
  MaxInserted = 2
INVARIANTS ScanAnswersPattern ScanHasNoDuplicates JoinFindsValue DistinctAgrees
CHECK_DEADLOCK FALSE
