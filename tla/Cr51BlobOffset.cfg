SPECIFICATION Spec
CONSTANTS
  NoMauv = NoMauv
  MinVersion = 1
  MaxVersion = 1
  MaxTimestamp = 1
  Version <- MCVersion
  Timestamp <- MCTimestamp
  Images <- SearchImages
  Interfaces <- SearchInterfaces
INVARIANT NoBlobNoOffset
