-------------------------------- MODULE EthNode --------------------------------
(***************************************************************************)
(* The remote Ethereum node, as the Chain class uses it.  It is not part   *)
(* of the repository: these definitions are the contract of the JSON-RPC   *)
(* methods that Chain.cpp calls.                                           *)
(***************************************************************************)
EXTENDS Integers, Sequences, FiniteSets

CONSTANTS
  Accounts,     (* the accounts whose private keys the devices hold         *)
  Payloads,     (* what a transaction does: recipient, amount and call data *)
  GasPrices,    (* gas prices: none of them is 0                            *)
  NodeChainId   (* the chain id the node answers to eth_chainId             *)

ASSUME NodeAssumption ==
  /\ Payloads # {}
  /\ GasPrices \subseteq Nat \ {0}
  /\ NodeChainId \in Nat \ {0}

(* A signed transaction; two equal records are the same bytes and the same *)
(* hash, since the signature is deterministic.                             *)
Transactions == [from : Accounts, nonce : Nat, price : GasPrices,
                 payload : Payloads, chainId : Nat]

VARIABLES
  mined,      (* account -> sequence of its transactions in blocks          *)
  pool        (* transactions the node accepted and has not mined           *)

nodeVars == <<mined, pool>>

NodeInit ==
  /\ mined = [a \in Accounts |-> <<>>]
  /\ pool = {}

(* eth_getTransactionCount(account, tag): the mined transactions, and with  *)
(* the tag "pending" the pooled ones too.                                  *)
PoolOf(a) == {t \in pool : t.from = a}
TransactionCount(a, tag) ==
  Len(mined[a]) + IF tag = "pending" THEN Cardinality(PoolOf(a)) ELSE 0

SameSlot(t, u) == t.from = u.from /\ t.nonce = u.nonce

(* eth_sendRawTransaction: signed for this chain, not already used, and    *)
(* dearer than the pooled transaction it would replace, if there is one.   *)
Acceptable(t) ==
  /\ t.chainId = NodeChainId
  /\ t.nonce >= Len(mined[t.from])
  /\ \A u \in pool : SameSlot(t, u) => t.price > u.price

PoolWith(t) == {u \in pool : ~SameSlot(t, u)} \cup {t}

(* A block takes the transaction whose turn it is.                         *)
Mine(t) ==
  /\ t \in pool
  /\ t.nonce = Len(mined[t.from])
  /\ mined' = [mined EXCEPT ![t.from] = Append(@, t)]
  /\ pool' = pool \ {t}

===============================================================================
