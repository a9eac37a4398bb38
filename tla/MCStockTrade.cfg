SPECIFICATION Spec
CONSTANTS
  k1 = k1
  k2 = k2
  r1 = r1
  r2 = r2
  r3 = r3
  NoReq = NoReq
  Key = {k1, k2}
  Req = {r1, r2, r3}
  Jobs <- TradeJobs
  Reconciles = FALSE
  StockBound = 2
SYMMETRY Perms
INVARIANTS CacheMatchesLedger LayersMatchCache CheckedSaleIsCosted DeadlockNeedsDisorder
