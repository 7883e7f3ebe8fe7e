\* safety: two callbacks, repeated and oversize messages, outages
CONSTANTS
  c1 = c1
  c2 = c2
  p1 = p1
  p2 = p2
  a = a
  b = b
  d = d
  big = big
  NoMessage = NoMessage
  Callbacks <- TwoCallbacks
  Peers <- OnePeer
  Messages <- AllMessages
  Oversize <- BigOversize
  MaxStored = 2
  MaxFailures = 2
  MaxTaken = 4
  Repeats = TRUE
  QuickRejoin = FALSE
  Outages = TRUE
SPECIFICATION Spec
SYMMETRY Alike
INVARIANTS StoreIsASet DeliveredIsHeld NewestIsLast GivenUpWasTried
