SPECIFICATION Spec
CONSTANTS
  c1 = c1
  c2 = c2
  alice = alice
  p1 = p1
  p2 = p2
  Clients <- TwoClients
  Accounts <- OneAccount
  AccountOf <- Shared
  ConfiguredId <- OneConfigured
  StartedInit <- ZeroedMemory
  Payloads <- TwoPayloads
  GasPrices = {1, 2}
  NodeChainId = 5
  RefusedStatus <- EspRefused
  TimeoutStatus <- EspTimeout
  SafeRetry = FALSE
  MaxCalls = 2
  NoReply = NoReply
PROPERTY KeepsLedger
INVARIANTS
  TypeOK
  NoNonceGap
  SendResultSound
  EarlyErrorMeansNotSent
  CallsOnlyAfterStart
