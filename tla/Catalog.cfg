SPECIFICATION FairSpec
CONSTANTS
  movies = movies
  music = music
  Tabs = {movies, music}
  Passes <- MCPasses
  Total = 2
  Batch = 2
  Capacity = 2
  Concurrency = 2
  MaxRefreshes = 2
  Wanted = {music}
  MaxClients = 1
INVARIANTS NewestReachesTheClient MediaCacheCatchesUp
PROPERTIES GridsKept ClientsSeeAGrid StartupRefreshes
CHECK_DEADLOCK FALSE
