CONSTANTS
  Calls = {k1, k2}
  t1 = t1
  t2 = t2
  NoTenant = NoTenant
  Contacts <- MCContacts
  Tenants <- MCTenants
  OwnerOf <- MCOwnerOf
  MaxTime = 2
  Failing <- MCFailing
  RoutingOn <- MCRoutingOn
  WarehouseBound = TRUE
  Faulty <- EveryPort
  Durable <- ManagedDurable
  MaxRestarts = 1
SPECIFICATION FairSpec
INVARIANTS
  RecordsAgree
  ForeignCallsLeaveNoTrace
PROPERTIES
  ServedCardsStayServed
  KeepsTheLedger
  EveryCallEnds
CHECK_DEADLOCK FALSE
