---------------------------- MODULE MCChainSession ----------------------------
(***************************************************************************)
(* Small instances of ChainSession for TLC.                                *)
(***************************************************************************)
EXTENDS ChainSession, TLC

CONSTANTS c1, c2, alice, p1, p2

OneClient == {c1}
TwoClients == {c1, c2}
OneAccount == {alice}
OnePayload == {p1}
TwoPayloads == {p1, p2}

(* Two devices hold the key of the same account.                           *)
Shared == [c \in Clients |-> alice]

(* c1 asks the node for its chain id, c2 was built with it.                *)
OneConfigured == [c \in Clients |-> IF c = c2 THEN NodeChainId ELSE 0]
NoneConfigured == [c \in Clients |-> 0]

(* Error codes of the HTTPClient of the ESP cores.                         *)
EspRefused == -1
EspTimeout == -11

ZeroedMemory == {FALSE}
AnyMemory == BOOLEAN

===============================================================================
