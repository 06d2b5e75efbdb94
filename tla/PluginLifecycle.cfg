SPECIFICATION FairSpec
CONSTANTS
  x = x
  y = y
  Names = {x, y}
  NoName = NoName
  MaxArrivals <- ArrivalBound
  MaxRequests = 1
INVARIANTS OneLoadPerArrival SeenIsOnDisk NothingIsLostSilently
PROPERTIES EverythingIsHandled
CHECK_DEADLOCK FALSE
