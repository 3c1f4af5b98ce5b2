CONSTANTS
  ThreadCount = 1
  TypeMask <- SharedThread
  Job = {j1, j2}
  NoJob = NoJob
  JobKind <- MixedKinds
  QueueCapacity = 2
  MaxResults = 2
SPECIFICATION Spec
SYMMETRY Symmetry
PROPERTIES HighExhaustedFirst
