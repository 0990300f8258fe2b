\* A client that reconnects while its old player waits for its removal.
SPECIFICATION Spec
CONSTANTS
  c1 = c1
  c2 = c2
  alice = alice
  Connections = {c1, c2}
  Accounts = {alice}
  AccountOf <- Reconnect
  LogoutTicks = 2
  MaxPackets = 1
  None = None
INVARIANT RemovalEntriesAreLive
CHECK_DEADLOCK FALSE
