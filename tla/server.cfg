SPECIFICATION FairServerSpec
CONSTANTS
  dg = dg  tt = tt  none = none  var = var  nil = nil
  h1 = h1  h2 = h2  h3 = h3   u1 = u1  u2 = u2
  inOne = inOne  inTwo = inTwo  withTripleTerm = withTripleTerm
  empty = empty  malformed = malformed  cutOff = cutOff
  Term <- MCTerm
  DefaultGraph = dg
  Unencodable = {tt}
  Quoted = {}
  Guessed = {}
  Str <- MCStr
  NoStr = none
  StrOf <- MCStrOf
  Digest <- MCStr
  Hash <- MCHash
  Var = var
  Nil = nil
  Writer = {h1, h2, h3}
  Reader = {}
  Batch <- MCBatch
  Probe = {}
  Query = {}
  Fault <- Faults
  MayCrash = FALSE
  User = {u1, u2}
  Scenario <- Scenarios
  Parse <- MCParse
  Trouble <- MCTrouble
INVARIANTS OkMeansStored WholeUploads ReadsItsTree
PROPERTY UploadsSucceed
CHECK_DEADLOCK FALSE
