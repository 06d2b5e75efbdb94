SPECIFICATION FairSpec
CONSTANTS
  film = film
  series = series
  anime = anime
  tmdb = tmdb
  bridged = bridged
  addon = addon
  Titles = {film, series, anime}
  Nothing = Nothing
  Spaces = {"tmdb", "imdb", "anilist"}
  Ids = {1, 2, 3, 7, 8}
  Source <- MCSource
  EntryId <- MCEntryId
  Accepts <- MCAccepts
  External <- MCExternal
  Plugins = {tmdb, bridged, addon}
  Addon = addon
  Verbs = {"enrich", "credits", "ratings"}
  Sources <- MCSources
  Needs <- MCNeeds
  Bridges <- MCBridges
  MaxOpens = 2
INVARIANTS StaleIgnored
PROPERTIES CardFills FastAnswersShown
CHECK_DEADLOCK FALSE
