SPECIFICATION SceneSpec
CONSTANTS
  a = a  b = b  pr = pr  n = n  g = g  qt = qt  tt = tt  dg = dg
  sa = sa  sp = sp  sg = sg  sq = sq  none = none  var = var  nil = nil
  w1 = w1  w2 = w2  r1 = r1
  Term <- MCTerm
  DefaultGraph = dg
  Unencodable = {tt}
  Quoted = {qt}
  Guessed = {b}
  Str <- MCStr
  NoStr = none
  StrOf <- MCStrOf
  Digest <- MCStr
  Hash <- MCHash
  Var = var
  Nil = nil
  Writer = {w1, w2}
  Reader = {r1}
  Batch <- MCBatch
  Probe <- ReaderProbes
  Query <- ReaderQueries
  Fault <- SomeFaults
  MayCrash = TRUE
SYMMETRY Writers2
INVARIANTS IndexAgreement GraphsListed DictionaryComplete StoreInv
PROPERTIES NothingCollected ConflictOnlyOverNewStrings Implements
