SPECIFICATION Spec
CONSTANTS
  x = x  y = y  z = z  dg = dg  var = var  nil = nil  none = none
  Term <- MCTerm
  DefaultGraph = dg
  Unencodable = {}
  Quoted = {}
  Guessed = {}
  Str = {}
  NoStr = none
  StrOf <- MCStrOf
  Digest = {}
  Hash <- MCHash
  Var = var
  Nil = nil
  VarName = {x, y, z}
  True <- yes
  False <- no
  Truthy <- MCTruthy
  Falsy <- MCFalsy
  Numeric <- MCNumeric
  Number <- MCNumber
  Rank <- MCRank
  Applied <- EvaluateCall
  Defined <- DefinedCall
  Version <- Versions
  Style <- PlainStyle
  Item <- Unions
  MaxItems <- TwoItems
  Heading = {}
  Finished = {}
  Condition <- NoCondition
  Row = {}
CHECK_DEADLOCK FALSE
INVARIANT UnionAlternates
