SPECIFICATION Spec
CONSTANTS
  x = x  y = y  z = z  a = a  b = b  pr = pr  ta = ta  qt = qt  tt = tt  g = g
  yes = yes  no = no  dg = dg  var = var  nil = nil  none = none
  Term <- MCTerm
  DefaultGraph = dg
  Unencodable = {tt}
  Quoted = {qt}
  Guessed = {}
  Str = {}
  NoStr = none
  StrOf <- MCStrOf
  Digest = {}
  Hash <- MCHash
  Var = var
  Nil = nil
  VarName = {x, y, z}
  True = yes
  False = no
  Truthy = {yes}
  Falsy = {no}
  Numeric = {}
  Number <- MCNumber
  Rank <- MCRank
  Applied <- NotApplied
  Defined <- NotApplied
  Kind <- MCKind
  Text <- MCText
  QueryForm <- GraphQueries
  Request = {}
  Version <- Versions
  MaxCommits <- None

INVARIANT GraphConstrainsScans
