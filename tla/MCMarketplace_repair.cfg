SPECIFICATION FairSpec
CONSTANTS
  alice = alice  bob = bob  c1 = c1  c2 = c2  eth = eth  usd = usd  p1 = p1  p2 = p2
  None = None
  Users = {alice, bob}
  MixedCase = {bob}
  Chains = {c1}
  LiveChains = {c1}
  Tokens = {0}
  Currencies = {eth}
  Procs = {p1, p2}
  Requests <- TwoListingsAndABid
  Cancellations <- LowestOrAllCancelled
  CancelRequests <- LowestCancelled
  PostedSales = {}
  MaxOrders = 2
  MaxFaults = 0
PROPERTIES StalenessConverges
