SPECIFICATION Spec
CONSTANTS
  alice = alice  bob = bob  c1 = c1  c2 = c2  eth = eth  usd = usd  p1 = p1  p2 = p2
  None = None
  Users = {alice, bob}
  MixedCase = {alice}
  Chains = {c1}
  LiveChains = {}
  Tokens = {0}
  Currencies = {eth, usd}
  Procs = {p1}
  Requests <- ListingsAndBids
  Cancellations <- SomeCancels
  CancelRequests <- AliceCancels
  PostedSales <- AliceToBob
  MaxOrders = 3
  MaxFaults = 0
INVARIANTS ShownIsBest NextNonceIsFree DeletedWasSold
PROPERTIES CancellationLeavesOneShown
