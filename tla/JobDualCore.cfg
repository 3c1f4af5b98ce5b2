CONSTANTS
  ThreadCount = 1
  TypeMask <- DedicatedThreads
  Job = {j1}
  NoJob = NoJob
  JobKind <- QueuedKinds
  QueueCapacity = 2
  MaxResults = 2
SPECIFICATION FairSpec
PROPERTIES ServedByAnyThreads
