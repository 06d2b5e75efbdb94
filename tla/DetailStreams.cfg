SPECIFICATION FairStreamsSpec
CONSTANTS
  Titles = {"season1", "season2", "show"}
  Nothing = Nothing
  Episodes <- MCEpisodes
  Providers = {"fast", "slow"}
  Offers <- MCOffers
  Idents <- MCIdents
  Configs <- MCConfigs
  Unknown = Unknown
  MaxAsks = 2
INVARIANTS EachStreamOnce StreamsAreOfTheTitle MarkerLast ErrorOnlyWhenEmpty
PROPERTIES SpinnerStops
