SPECIFICATION DocumentSpec
CONSTANTS
  ns1 = ns1  ns2 = ns2  x = x  y = y  noBase = noBase  dg = dg  runaway = runaway
  NoBase = noBase
  Bare <- MCBare
  Runaway = runaway
  DefaultGraph = dg
  Label = {x, y}
  Text <- MCText
  Document <- MCDocument
  Scrap <- MCScrap
CHECK_DEADLOCK FALSE
INVARIANTS MeansItsGraph HandledAccepted AcceptedIsBalanced StrictRefusesShorthand
PROPERTY ReadingEnds
