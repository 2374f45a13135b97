SPECIFICATION FairSpec
CONSTANTS
  alice = alice  bob = bob  p1 = p1  p2 = p2
  None = None
  Users = {alice, bob}
  Requesters = {bob}
  Procs = {p1}
  Sources = {"webhook"}
  BatchSize = 2
  MaxMinted = 3
  MaxTransfers = 1
  MaxFaults = 1
INVARIANTS TypeOK NoGaps OwnersWereOwners
PROPERTY RegistryConverges
