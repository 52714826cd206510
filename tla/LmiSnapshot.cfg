SPECIFICATION Spec
CONSTANTS
  Launches = {l1, l2}
  None = None
INVARIANT ChainReturned
INVARIANT StreamsSound
PROPERTY NoOrphan
PROPERTY Paused
