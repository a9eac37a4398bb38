SPECIFICATION Spec
CONSTANTS
  Req = {r1, r2}
  NoReq = None
  o1 = o1
  Order = {o1}
  NoOrder = None
  a = a
  b = b
  Line = {a, b}
  Ordered <- OrderedUnits
  Supplier = {i}
  NoSupplier = None
  Reference = {x, y}
  NoReference = None
  Amounts = {1, 2}
  Ages = {1, 4}
  Terms = {1}
  NoDate = None
  LedgerBound = 3
  Session = {i}
  NoSession = None
  AuditedPart = {i}
  NoPart = None
  NoItem = None
  MaxUnits = 1
  Part = {x, y}
  Number = {x, y}
  NoNumber = None
  Barcode = {x, y}
  NoBarcode = None
  Category = {i}
  Cost = {8, 17}
  Price = {0, 10, 20}
  External = None
  Quantity <- SoldUnits
  Value <- UnitValue
  Format = {i}
  NoFormat = None
  Reader = {i}
  Sale = {x, y}
  MaxSold = 2
  SalePrice = 3
  SaleCost = 2
  DayLength = 2
  LastDay = 1
  Event = {x, y}
  NoAlert = None
  Role = "MANAGER"
SYMMETRY Perms
INVARIANTS
  NeverOverstated ReceiptsTallied
  PaidOnce OverpaidOnlyByReturns AgingAddsUp
  AdjustedOnce
  IdentifiersUnique ReviewFlagTells  NoteMatchesRefunds FiguresAgree
  PageTells
PROPERTIES OrdersKeepPromise AuditAligns DeletedForGood
CHECK_DEADLOCK FALSE
