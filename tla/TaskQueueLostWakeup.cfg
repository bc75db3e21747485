CONSTANTS
  c1 = c1
  c2 = c2
  n1 = n1
  n2 = n2
  n3 = n3
  Null = Null
  Client <- TwoClients
  Node <- Addresses
  Allow <- AllowValues
SPECIFICATION FairSpec
PROPERTY SyncReturns
