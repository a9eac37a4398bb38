SPECIFICATION Spec
CONSTANTS
  r1 = r1
  r2 = r2
  r3 = r3
  s1 = s1
  s2 = s2
  l1 = l1
  l2 = l2
  part = part
  customer = customer
  NoReq = NoReq
  NoSale = NoSale
  NoCustomer = NoCustomer
  External = External
  Req = {r1, r2}
  Sale = {s1, s2}
  Line = {l1, l2}
  Part = {part}
  Customer = {customer}
  Limit <- Limits
  Drafts <- MixedDrafts
  Amounts = {1}
  AdjustAlone = TRUE
  MaxUnits = 2
  InvoiceBound = 3
  CreditBound = 1
SYMMETRY Perms
INVARIANTS InvoicesUnique CreditWithinLimit SaleSettled
PROPERTY RequestsAreSerial
