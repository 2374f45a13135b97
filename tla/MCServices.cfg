SPECIFICATION Spec
CONSTANTS
  helper = helper
  marketplace = marketplace
  formerHelper = formerHelper
  NoRow = NoRow
  Waiting = Waiting
  Failed = Failed
  NoAddress = NoAddress
  Absent = Absent
  renzo = renzo
  Platforms = {renzo}
  AlwaysAsked = {}
  Viewers = {1, 2}
  MaxAttempts = 2
  MaxPoints = 2
  LastHour = 2
  MaxEmitted = 3
  MaxFaults = 2
  Wanted <- Contracts
  OldAddresses = {formerHelper}
  MaxSyncFaults = 1
  Book = {1, 2, 3, 4}
  Tokens = {1, 2}
  GroupKeys = {1, 2}
  Layouts <- BookLayouts
  BatchSize = 3
INVARIANTS
  TypeOK
  FreshWasSaid
  PointsSurvive
  StakesAddUp
  ListeningHearsAll
PROPERTIES
  CollectionEnds
  WatchedUnlessForeign
  EveryGroupSettled
CHECK_DEADLOCK FALSE
