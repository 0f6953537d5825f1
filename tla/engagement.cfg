SPECIFICATION FairSpec
CONSTANTS
  Event = {e1, e2, e3, e4}
  Closer = {x1, x2}
  BufferSize = 2
  BatchSize = 2
INVARIANTS
  OnePlace
  CloseFlushes
PROPERTY
  EarlyEventShipped
