SPECIFICATION Spec
CONSTANTS
  Plays = {p}
  Torrents = {q}
  Switches = {}
  Stops = {}
  NoOne = NoOne
PROPERTIES OnlyExitTearsDown
