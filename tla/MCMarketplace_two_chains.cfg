SPECIFICATION Spec
CONSTANTS
  alice = alice  bob = bob  c1 = c1  c2 = c2  eth = eth  usd = usd  p1 = p1  p2 = p2
  None = None
  Users = {alice}
  MixedCase = {alice}
  Chains = {c1, c2}
  LiveChains = {c1, c2}
  Tokens = {0}
  Currencies = {eth}
  Procs = {p1}
  Requests <- ListingsOnTwoChains
  Cancellations = {}
  CancelRequests = {}
  PostedSales = {}
  MaxOrders = 2
  MaxFaults = 0
INVARIANTS StaleOnlyIfOutdoneOnSameWallet
