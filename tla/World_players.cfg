\* One account that logs in twice.
SPECIFICATION FairSpec
CONSTANTS
  c1 = c1
  c2 = c2
  alice = alice
  Connections = {c1, c2}
  Accounts = {alice}
  AccountOf <- Reconnect
  LogoutTicks = 2
  MaxPackets = 3
  None = None
INVARIANTS
  RegisteredUntilDeleted
  OneShipPerAccount
  RemovesOwnEntry
  LogoutsSettled
\* Clients may stop sending, and a use after free stops the model.
PROPERTIES
  GoneClientsAreDeleted
  PacketsAreExecuted
CHECK_DEADLOCK FALSE
