SPECIFICATION Spec
CONSTANTS
  alice = alice
  bob = bob
  carol = carol
  arbitrum = arbitrum
  mantle = mantle
  Nobody = Nobody
  NoRow = NoRow
  Addresses = {alice, bob}
  AffiliateIds = {1, 2}
  Requests = {1, 2}
  PaidChains = {arbitrum, mantle}
  Payees <- PayeesOfChains
  Owners = {alice, bob}
  Stakers = {alice, carol}
  OwnedBy <- OwnersOfWallets
  Tables <- WalletTables
  WalletsPerBatch = 2
  InitialWalletPoints = 3
  StakeRate = 1
  StakeAmounts = {1}
  Horizon = 6
  MaxSlow = 1
  MaxStakeEvents = 1
  MaxJobFaults = 1
  Now = 4
  Amounts <- InAndOut
  Opening = 1
  MaxHistory = 3
  PageLength = 2
  Cutoffs <- TwoCutoffs
INVARIANTS
  TypeOK
  ReferralsAreAcyclic
  AnsweredLinksWork
  TotalsAddUp
  NotOverpaid
  BackfillPaysBalances
PROPERTIES
  ReferralsStay
  PaymentsGoOn
  MissedHoursAreMadeUp
