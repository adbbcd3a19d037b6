SPECIFICATION FairSpec
CONSTANTS
  b1 = b1  b2 = b2  b3 = b3  iri = iri  edge = edge  quoted = quoted
  Shape = {edge, quoted}
  Leaf = {b1, b2, b3, iri}
  Blank = {b1, b2, b3}
  Input <- MCGraphs
CHECK_DEADLOCK FALSE
INVARIANTS AnswerIsRight YesIsRight IInv
PROPERTY Terminates
