SPECIFICATION FairSpec
CONSTANTS
  Plays = {}
  Torrents = {q}
  Switches = {w}
  Stops = {s}
  NoOne = NoOne
INVARIANTS NoStrayWindow
PROPERTIES Settles OneWindowAtATime
