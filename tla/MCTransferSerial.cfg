SPECIFICATION Spec
CONSTANTS
  r1 = r1
  r2 = r2
  r3 = r3
  t1 = t1
  t2 = t2
  t3 = t3
  shop = shop
  depot = depot
  NoReq = NoReq
  NoTransfer = NoTransfer
  Location = {shop, depot}
  Req = {r1, r2, r3}
  Transfer = {t1, t2, t3}
  Source <- Sources
  Destination <- Destinations
  Quantity <- Quantities
  OnHand <- Stocks
  OneAtATime = TRUE
SYMMETRY Perms
INVARIANT TransferBooked
PROPERTY ImplementsLifecycle
CHECK_DEADLOCK FALSE
