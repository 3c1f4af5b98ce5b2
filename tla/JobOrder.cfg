CONSTANTS
  ThreadCount = 2
  TypeMask <- SharedThread
  Job = {j1, j2, j3}
  NoJob = NoJob
  JobKind <- QueuedKinds
  QueueCapacity = 2
  MaxResults = 1
SPECIFICATION Spec
SYMMETRY Symmetry
PROPERTIES HandedOutInOrder
