SPECIFICATION FleetSpec
CONSTANTS
  Drivers = {d1}
  AutoRenew = TRUE
  BudgetLimit = 1
  MaxSpent = 2
  MaxReceipts = 2
  MaxEvents = 2
PROPERTIES
  IncidentsSettle
  PersistentTroubleTriggers
