\* Every report and order of three controllers, at the corners of each field,
\* and frames of others.
CONSTANTS
  Devices <- MCDevices
  Aliens <- MCAliens
  Picks <- MCPicks
  Words <- MCWords
  Numbers <- MCNumbers
  SomeIds <- MCSomeIds
SPECIFICATION WireSpec
INVARIANTS
  WellFormed
  HeardAsSaid
  IdIdentifies
  FilterExact
  OrdersAreNotReports
