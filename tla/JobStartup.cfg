CONSTANTS
  ThreadCount = 2
  TypeMask <- SharedThread
  Job = {j1}
  NoJob = NoJob
  JobKind <- MixedKinds
  QueueCapacity = 2
  MaxResults = 2
SPECIFICATION Spec
SYMMETRY Symmetry
INVARIANTS InfoMutexExists
