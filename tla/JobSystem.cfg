CONSTANTS
  ThreadCount = 2
  TypeMask <- SharedThread
  Job = {j1, j2}
  NoJob = NoJob
  JobKind <- MixedKinds
  QueueCapacity = 1
  MaxResults = 1
SPECIFICATION Spec
INVARIANTS RightThread AnsweredOnce
SYMMETRY Symmetry
PROPERTIES ImplementsContract NothingErased
