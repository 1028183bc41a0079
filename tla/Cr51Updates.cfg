SPECIFICATION Spec
CONSTANTS
  NoMauv = NoMauv
  MinVersion = 0
  MaxVersion = 2
  MaxTimestamp = 2
  Version <- MCVersion
  Timestamp <- MCTimestamp
  Images <- UpdateImages
  Interfaces <- UpdateInterfaces
INVARIANTS RefusedLeavesRecord AcceptedIsAllowed IInv
PROPERTIES StoresOwnMauv ImplementsMauvStore
