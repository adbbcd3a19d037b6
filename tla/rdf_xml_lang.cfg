SPECIFICATION DocumentSpec
CONSTANTS
  ns = ns  sub = sub  doc = doc  x = x  y = y  bad = bad
  NoBase = noBase  SameDocument = same  DefaultGraph = dg
  NCName = {x, y}
  DocumentBase = doc
  Label = {}
  Below <- MCBelow
  Input <- MCInput
  Cuts <- MCCuts
  Document <- Languages
CHECK_DEADLOCK FALSE
INVARIANT LanguageFromAround
