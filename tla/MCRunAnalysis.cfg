SPECIFICATION RunSpec
CONSTANTS
  N = 6
  BatchSize = 2
  Shapes = {s1, s2}
  NoShape = none
  Close = close
  Lookahead = 3
  Workers = 2
  WriteBatch = 2
INVARIANTS NoProducerLeftBehind CancelAtNextBoundary StrictTimeOrder 
PROPERTIES ImplementsSweep
