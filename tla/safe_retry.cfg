SPECIFICATION FairSpec
CONSTANTS
  c1 = c1
  c2 = c2
  alice = alice
  p1 = p1
  p2 = p2
  Clients <- TwoClients
  Accounts <- OneAccount
  AccountOf <- Shared
  ConfiguredId <- OneConfigured
  StartedInit <- ZeroedMemory
  Payloads <- OnePayload
  GasPrices = {1}
  NodeChainId = 5
  RefusedStatus <- EspRefused
  TimeoutStatus <- EspTimeout
  SafeRetry = TRUE
  MaxCalls = 2
  NoReply = NoReply
INVARIANT PaidAtMostOnce
PROPERTY CallsReturnUnlessNull
