SPECIFICATION FairSpec
CONSTANTS
  weeth = weeth  ezeth = ezeth  p1 = p1  p2 = p2
  None = None
  Tokens = {weeth, ezeth}
  Excluded = {ezeth}
  Deposits <- OneDeposit
  Balances = {0, 1}
  Procs = {p1, p2}
  Sources = {"webhook", "listener"}
  MaxTransfers = 1
  MaxFaults = 1
INVARIANTS TypeOK AccruedWasSeen OvercountIsBounded
PROPERTIES AccruedIsKept BalancesConverge
