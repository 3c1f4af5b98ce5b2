CONSTANTS
  Thread = {t1, t2}
  small = small  medium = medium  string = string  array = array
  Pool <- Pools
  PoolOf <- SizePool
  Base <- Bases
  PoolSize <- Sizes
  Request <- Requests
  PlatformBlock = {100}
  HeaderBytes = 2
  HeaderAlignment = 1
  Tag = {string, array}
  Stray = Stray  Nobody = Nobody  Null = Null
SPECIFICATION FairSpec
INVARIANTS HeadersSound BytesApart NothingLost StatsBalance
PROPERTIES CallsReturn
