SPECIFICATION Spec
CONSTANTS
  r1 = r1
  r2 = r2
  r3 = r3
  s1 = s1
  s2 = s2
  l1 = l1
  l2 = l2
  part = part
  customer = customer
  NoReq = NoReq
  NoSale = NoSale
  NoCustomer = NoCustomer
  External = External
  Req = {r1}
  Sale = {s1}
  Line = {l1, l2}
  Part = {part}
  Customer = {customer}
  Limit <- Limits
  Drafts <- TwinDrafts
  Amounts = {1}
  AdjustAlone = TRUE
  MaxUnits = 2
  InvoiceBound = 1
  CreditBound = 0
SYMMETRY Perms
INVARIANT RemainderIsReturnable
