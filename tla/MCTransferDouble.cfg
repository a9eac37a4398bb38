SPECIFICATION Spec
CONSTANTS
  r1 = r1
  r2 = r2
  r3 = r3
  t1 = t1
  t2 = t2
  t3 = t3
  shop = shop
  depot = depot
  NoReq = NoReq
  NoTransfer = NoTransfer
  Location = {shop, depot}
  Req = {r1, r2}
  Transfer = {t1, t2}
  Source <- TwoSources
  Destination <- TwoDestinations
  Quantity <- TwoQuantities
  OnHand <- Stocks
  OneAtATime = FALSE
INVARIANT TransferBooked
CHECK_DEADLOCK FALSE
