-------------------------- MODULE ChainSessionProofs --------------------------
(***************************************************************************)
(* Proofs about ChainSession, for any number of devices and accounts.      *)
(*                                                                         *)
(* Why nonces never leave a gap: the count a device reads can only grow    *)
(* behind its back, since transactions are never unmined.  So every nonce  *)
(* a device holds, and every nonce in a request that is still under way,   *)
(* is at most the account's next nonce, and the node refuses smaller ones. *)
(***************************************************************************)
EXTENDS ChainSession, TLAPS

FieldsOK ==
  /\ started \in [Clients -> BOOLEAN]
  /\ startReturned \in [Clients -> BOOLEAN]
  /\ id \in [Clients -> {0, NodeChainId}]

CallsOK ==
  /\ pc \in [Clients -> Methods \cup {"idle", "crashed"}]
  /\ op \in [Clients -> Ops \cup {NoOp}]
  /\ \A c \in Clients : Busy(c) <=> op[c] \in Ops
  /\ reply \in [Clients -> Replies \cup {NoReply}]
  /\ calls \in 0..MaxCalls
  /\ journal \in [Calls -> Entries]

(* The journal entry of a running call is the one it was given.            *)
JournalFits ==
  \A c \in Clients : op[c] \in Ops =>
    journal[op[c].call] \in [api : Apis, payload : Payloads, res : Outcomes]

(* The price is known when the transaction is signed.                      *)
PriceKnown ==
  \A c \in Clients :
    pc[c] \in {"eth_sendRawTransaction", "eth_estimateGas"} => op[c].price \in GasPrices

(* An answer that arrived unspoiled is one the node can have given.        *)
AnswersFit ==
  \A c \in Clients : reply[c] # NoReply /\ reply[c].body = "string" =>
    /\ pc[c] = "eth_chainId" => reply[c].val = NodeChainId
    /\ pc[c] = "eth_getTransactionCount" => reply[c].val <= Len(mined[AccountOf[c]])
    /\ pc[c] = "eth_gasPrice" => reply[c].val \in GasPrices

(* The nonce a device goes on with was the next one some time ago.         *)
NoncesPast ==
  \A c \in Clients :
    pc[c] \in {"eth_gasPrice", "eth_sendRawTransaction", "eth_estimateGas"} =>
      op[c].nonce <= Len(mined[AccountOf[c]])

SessionOK == JournalFits /\ PriceKnown /\ AnswersFit /\ NoncesPast

NodeOK ==
  /\ stray \subseteq Requests
  /\ accepted \subseteq Requests
  /\ mined \in [Accounts -> Seq(Transactions)]
  /\ pool \subseteq Transactions

(* The pool has one transaction per account and nonce.                     *)
OnePerSlot == \A t, u \in pool : SameSlot(t, u) => t = u

PoolOK == OnePerSlot /\ NoNonceGap

StraysPast == \A q \in stray : q.tx.nonce <= Len(mined[q.tx.from])

IInv == FieldsOK /\ CallsOK /\ SessionOK /\ NodeOK
          /\ StraysPast /\ PoolOK

USE SessionAssumption, NodeAssumption, StatusAssumption

-------------------------------------------------------------------------------
(* The values that travel                                                  *)

(* The network hands back responses, spoiled ones included.                *)
LEMMA RepliesTyped ==
  /\ \A v \in Nat : Answer(v) \in Replies /\ Answer(v).body = "string" /\ Answer(v).val = v
  /\ \A r \in {NodeError, NullAnswer, Refused, TimedOut} \cup Spoiled :
       r \in Replies /\ r.body # "string"
  BY DEF Answer, NodeError, NullAnswer, Refused, TimedOut, Spoiled, Reply,
         Replies, Bodies, Statuses, HTTP_OK, GatewayStatus

(* DoRequestYo yields a Result, and a value only from an unspoiled answer. *)
LEMMA ResultsTyped ==
  ASSUME NEW r \in Replies
  PROVE  /\ DoRequestYo(r) \in Results
         /\ DoRequestYo(r).why = "value" => r.body = "string" /\ DoRequestYo(r).val = r.val
  BY DEF DoRequestYo, Err, Value, NullValue, Results, Whys, Replies, Bodies,
         Statuses, HTTP_OK, GatewayStatus, NodeErrorCode

(* NoOp is not the local state of a call.                                  *)
LEMMA NoOpNotInOps == NoOp \notin Ops
  BY DEF NoOp, Ops, Apis

LEMMA OutcomesTyped ==
  /\ Results \subseteq Outcomes
  /\ \A w \in {"unused", "running", "threw", "lost"} : Mark(w) \in Outcomes
  /\ Err(-1, "nonce") \in Results
  /\ Err(-41, "gasPrice") \in Results
  BY DEF Outcomes, Results, Whys, Mark, Err

-------------------------------------------------------------------------------
(* How the parts of IInv survive the building blocks of the actions        *)

(* The end of a call leaves its device without locals and its journal      *)
(* entry typed.                                                            *)
LEMMA EndIsTyped ==
  ASSUME CallsOK, SessionOK, NEW c \in Clients, NEW res \in Outcomes,
         NEW after \in {"idle", "crashed"}, End(c, res, after), UNCHANGED mined
  PROVE  CallsOK' /\ SessionOK'
  <1> DEFINE Entry == [api : Apis, payload : Payloads, res : Outcomes]
  <1>a. \A k \in Calls : journal[k] \in Entry => journal'[k] \in Entry
    BY DEF End
  <1>b. \A k \in Calls : journal'[k] # journal[k] => k = op[c].call
    BY DEF End, CallsOK
  <1>c. \A k \in Calls : k = op[c].call => op[c] \in Ops
    BY DEF CallsOK, NoOp, Calls
  <1>d. journal' \in [Calls -> Entries]
    <2>1. journal' = [k \in Calls |-> journal'[k]]
      BY DEF End
    <2>2. ASSUME NEW k \in Calls PROVE journal'[k] \in Entries
      <3>1. CASE k = op[c].call
        BY <3>1, <1>a, <1>c DEF SessionOK, JournalFits, Entries
      <3>2. CASE k # op[c].call
        BY <3>2, <1>b DEF CallsOK
      <3> QED
        BY <3>1, <3>2
    <2> QED
      BY <2>1, <2>2
  <1>1. CallsOK'
    BY <1>d, NoOpNotInOps DEF CallsOK, End, Busy, GuardedMethods
  <1>2. JournalFits'
    <2> SUFFICES ASSUME NEW d \in Clients, op'[d] \in Ops
                 PROVE  journal'[op'[d].call] \in Entry
      BY DEF JournalFits
    <2>1. op'[d] = op[d] /\ op[d].call \in Calls
      BY NoOpNotInOps DEF CallsOK, End, Ops
    <2> QED
      BY <2>1, <1>a DEF SessionOK, JournalFits
  <1>3. PriceKnown' /\ AnswersFit' /\ NoncesPast'
    BY DEF CallsOK, SessionOK, PriceKnown, AnswersFit, NoncesPast, End
  <1> QED
    BY <1>1, <1>2, <1>3 DEF SessionOK

(* An answer of the right kind keeps the exchange of a device in order.    *)
LEMMA DeliverStep ==
  ASSUME CallsOK, SessionOK, NEW c \in Clients, NEW r \in Replies, Deliver(c, r),
         r.body = "string" =>
           /\ pc[c] = "eth_chainId" => r.val = NodeChainId
           /\ pc[c] = "eth_getTransactionCount" => r.val <= Len(mined[AccountOf[c]])
           /\ pc[c] = "eth_gasPrice" => r.val \in GasPrices,
         UNCHANGED <<pc, callVars, mined>>
  PROVE  CallsOK' /\ SessionOK'
  <1>1. CallsOK'
    BY DEF CallsOK, Deliver, Busy, GuardedMethods, callVars
  <1>2. SessionOK'
    BY DEF CallsOK, SessionOK, JournalFits, PriceKnown, AnswersFit, NoncesPast,
           Deliver, callVars
  <1> QED
    BY <1>1, <1>2

(* Taking an acceptable transaction of a past count into the pool.         *)
LEMMA AcceptStep ==
  ASSUME NodeOK, PoolOK, NEW q \in Requests, Accept(q),
         q.tx.nonce <= Len(mined[q.tx.from])
  PROVE  /\ accepted' \subseteq Requests
         /\ pool' \subseteq Transactions
         /\ PoolOK'
  <1>1. q.tx \in Transactions
    BY DEF Requests
  <1>2. q.tx.nonce = Len(mined[q.tx.from])
    BY <1>1 DEF Accept, Acceptable, Transactions, NodeOK
  <1> QED
    BY <1>1, <1>2 DEF NodeOK, PoolOK, OnePerSlot, NoNonceGap, Accept, PoolWith, SameSlot

(* What a device signs is a transaction of its account.                    *)
LEMMA RequestTyped ==
  ASSUME FieldsOK, CallsOK, SessionOK, NEW c \in Clients,
         pc[c] = "eth_sendRawTransaction"
  PROVE  /\ Request(c, op[c]) \in Requests
         /\ Request(c, op[c]).tx.nonce <= Len(mined[Request(c, op[c]).tx.from])
  <1>1. op[c] \in Ops /\ op[c].price \in GasPrices
    BY DEF CallsOK, SessionOK, PriceKnown, Busy, GuardedMethods
  <1>2. op[c].nonce <= Len(mined[AccountOf[c]])
    BY DEF SessionOK, NoncesPast
  <1>3. AccountOf[c] \in Accounts /\ id[c] \in Nat
    BY DEF FieldsOK
  <1> QED
    BY <1>1, <1>2, <1>3 DEF Request, Requests, Transactions, Ops

(* What is still under way when a device gives up is no later than the     *)
(* count it read.                                                          *)
LEMMA AbandonStep ==
  ASSUME FieldsOK, CallsOK, SessionOK, NodeOK, StraysPast, NEW c \in Clients,
         stray' = IF InFlight(c) THEN stray \cup {Request(c, op[c])} ELSE stray,
         UNCHANGED <<accepted, nodeVars>>
  PROVE  NodeOK' /\ StraysPast'
  BY RequestTyped DEF InFlight, NodeOK, StraysPast, nodeVars

(* Whatever a device still knows when it restarts is forgotten.            *)
LEMMA RestartStep ==
  ASSUME IInv, NEW c \in Clients, Restart(c)
  PROVE  IInv'
  <1>1. FieldsOK'
    BY DEF IInv, FieldsOK, Restart
  <1>2. CallsOK' /\ SessionOK'
    BY EndIsTyped, OutcomesTyped DEF IInv, Restart, Close, nodeVars
  <1>3. NodeOK' /\ StraysPast'
    BY AbandonStep DEF IInv, Restart
  <1>4. PoolOK'
    BY DEF IInv, Restart, PoolOK, OnePerSlot, NoNonceGap, nodeVars
  <1> QED
    BY <1>1, <1>2, <1>3, <1>4 DEF IInv

-------------------------------------------------------------------------------
(* IInv is inductive: the initial states and one lemma per kind of action  *)

LEMMA InitIInv == Init => IInv
  <1> SUFFICES ASSUME Init PROVE IInv
    OBVIOUS
  <1>1. FieldsOK /\ CallsOK
    BY NoOpNotInOps, OutcomesTyped DEF Init, FieldsOK, CallsOK, Busy, GuardedMethods, Entries,
                                       Methods
  <1>2. SessionOK
    BY NoOpNotInOps DEF Init, SessionOK, JournalFits, PriceKnown, AnswersFit, NoncesPast
  <1>3. NodeOK /\ StraysPast /\ PoolOK
    BY DEF Init, NodeInit, NodeOK, StraysPast, PoolOK, OnePerSlot, NoNonceGap
  <1> QED
    BY <1>1, <1>2, <1>3 DEF IInv

(* Start() and Send() up to the first exchange.                            *)
LEMMA ApplicationStep ==
  ASSUME IInv, NEW c \in Clients, Application(c)
  PROVE  IInv'
  <1> USE DEF IInv
  <1>1. CASE StartKnown(c)
    BY <1>1 DEF StartKnown, FieldsOK, CallsOK, Busy, GuardedMethods, SessionOK, JournalFits,
                PriceKnown,
                AnswersFit, NoncesPast, NodeOK, StraysPast, PoolOK, OnePerSlot, NoNonceGap, callVars, nodeVars
  <1>2. CASE StartLoad(c)
    <2>1. FieldsOK' /\ NodeOK' /\ StraysPast' /\ PoolOK'
      BY <1>2 DEF StartLoad, FieldsOK, NodeOK, StraysPast, PoolOK, OnePerSlot, NoNonceGap,
                  fieldVars, nodeVars
    <2>2. CallsOK'
      BY <1>2 DEF StartLoad, Quiet, Issue, CallsOK, Busy, GuardedMethods, Methods, callVars
    <2>3. SessionOK'
      BY <1>2 DEF StartLoad, Issue, CallsOK, SessionOK, JournalFits, PriceKnown,
                  AnswersFit, NoncesPast, callVars, nodeVars
    <2> QED
      BY <2>1, <2>2, <2>3
  <1>3. ASSUME NEW api \in Apis, NEW payload \in Payloads,
               NEW price \in GasPrices \cup {NoPrice}, BeginTx(c, api, payload, price)
        PROVE  IInv'
    <2> DEFINE Entry(why) == [api |-> api, payload |-> payload, res |-> Mark(why)]
               o == [api |-> api, call |-> calls + 1, payload |-> payload,
                     price |-> price, nonce |-> 0]
    <2>1. calls + 1 \in Calls /\ calls' = calls + 1 /\ calls' \in 0..MaxCalls
      BY <1>3 DEF BeginTx, Calls, CallsOK
    <2>2. FieldsOK' /\ NodeOK' /\ StraysPast' /\ PoolOK'
      BY <1>3 DEF BeginTx, FieldsOK, NodeOK, StraysPast, PoolOK, OnePerSlot, NoNonceGap,
                  fieldVars, nodeVars
    <2>3. /\ Entry("running") \in [api : Apis, payload : Payloads, res : Outcomes]
          /\ Entry("threw") \in [api : Apis, payload : Payloads, res : Outcomes]
          /\ o \in Ops
      BY <2>1, OutcomesTyped DEF Ops
    <2>4. CASE /\ journal' = [journal EXCEPT ![calls + 1] = Entry("running")]
               /\ op' = [op EXCEPT ![c] = o]
               /\ Issue(c, "eth_getTransactionCount")
      <3>1. CallsOK'
        BY <2>1, <2>3, <2>4 DEF CallsOK, Busy, Issue, Methods, GuardedMethods, Entries
      <3>2. JournalFits'
        BY <2>1, <2>3, <2>4 DEF CallsOK, SessionOK, JournalFits, Ops
      <3>3. PriceKnown' /\ AnswersFit' /\ NoncesPast'
        BY <1>3, <2>4 DEF BeginTx, Issue, CallsOK, SessionOK, PriceKnown, AnswersFit,
                          NoncesPast, nodeVars
      <3> QED
        BY <2>2, <3>1, <3>2, <3>3 DEF SessionOK
    <2>5. CASE /\ journal' = [journal EXCEPT ![calls + 1] = Entry("threw")]
               /\ UNCHANGED <<op, pc, reply>>
      <3>1. CallsOK'
        BY <2>1, <2>3, <2>5 DEF CallsOK, Busy, GuardedMethods, Entries
      <3>2. JournalFits'
        BY <2>1, <2>3, <2>5 DEF CallsOK, SessionOK, JournalFits, Ops
      <3>3. PriceKnown' /\ AnswersFit' /\ NoncesPast'
        BY <1>3, <2>5 DEF BeginTx, SessionOK, PriceKnown, AnswersFit, NoncesPast, nodeVars
      <3> QED
        BY <2>2, <3>1, <3>2, <3>3 DEF SessionOK
    <2> QED
      BY <1>3, <2>4, <2>5 DEF BeginTx
  <1> QED
    BY <1>1, <1>2, <1>3 DEF Application

(* An exchange of Send or EstimateGas is followed by another one.          *)
LEMMA NextExchangeStep ==
  ASSUME CallsOK, SessionOK, NEW c \in Clients, Busy(c), NEW method \in GuardedMethods,
         NEW o \in Ops, op' = [op EXCEPT ![c] = o], o.call = op[c].call,
         Issue(c, method), UNCHANGED <<calls, journal, mined>>,
         method \in {"eth_sendRawTransaction", "eth_estimateGas"} => o.price \in GasPrices,
         o.nonce <= Len(mined[AccountOf[c]])
  PROVE  CallsOK' /\ SessionOK'
  <1>1. CallsOK'
    BY DEF CallsOK, Busy, Issue, Methods, GuardedMethods
  <1>2. JournalFits'
    BY DEF CallsOK, SessionOK, JournalFits
  <1>3. PriceKnown' /\ AnswersFit' /\ NoncesPast'
    BY DEF CallsOK, SessionOK, PriceKnown, AnswersFit, NoncesPast, Issue
  <1> QED
    BY <1>1, <1>2, <1>3 DEF SessionOK

(* What the code reads out of an answered exchange.                        *)
LEMMA GotFits ==
  ASSUME CallsOK, SessionOK, NEW c \in Clients, reply[c] # NoReply
  PROVE  /\ Got(c) \in Outcomes
         /\ Got(c).why = "value" =>
              /\ Got(c).val \in Nat
              /\ pc[c] = "eth_chainId" => Got(c).val = NodeChainId
              /\ pc[c] = "eth_getTransactionCount" => Got(c).val <= Len(mined[AccountOf[c]])
              /\ pc[c] = "eth_gasPrice" => Got(c).val \in GasPrices
  <1>1. reply[c] \in Replies
    BY DEF CallsOK
  <1>2. /\ Got(c) \in Results
        /\ Got(c).why = "value" => reply[c].body = "string" /\ Got(c).val = reply[c].val
    BY <1>1, ResultsTyped DEF Got
  <1>3. reply[c].val \in Nat
    BY <1>1 DEF Replies
  <1> QED
    BY <1>2, <1>3, OutcomesTyped DEF SessionOK, AnswersFit

(* The code behind an answered exchange.                                   *)
LEMMA ContinueStep ==
  ASSUME IInv, NEW c \in Clients, Continue(c)
  PROVE  IInv'
  <1> USE DEF IInv
  <1>a. UNCHANGED <<fieldVars, stray, accepted, nodeVars>>
          => FieldsOK' /\ NodeOK' /\ StraysPast' /\ PoolOK'
    BY DEF FieldsOK, NodeOK, StraysPast, PoolOK, OnePerSlot, NoNonceGap, fieldVars, nodeVars
  <1>m. \A api \in Apis : LastMethod(api) \in GuardedMethods
    BY DEF Apis, LastMethod, GuardedMethods
  <1>1. CASE StartLoaded(c)
    <2>0. Got(c).val = NodeChainId
      BY <1>1, GotFits DEF StartLoaded, Received
    <2>1. FieldsOK'
      BY <1>1, <2>0 DEF StartLoaded, FieldsOK
    <2>2. CallsOK'
      BY <1>1 DEF StartLoaded, Received, CallsOK, Busy, GuardedMethods, callVars
    <2>3. SessionOK' /\ NodeOK' /\ StraysPast' /\ PoolOK'
      BY <1>1 DEF StartLoaded, CallsOK, SessionOK, JournalFits, PriceKnown, AnswersFit,
                  NoncesPast, NodeOK, StraysPast, PoolOK, OnePerSlot, NoNonceGap, callVars, nodeVars
    <2> QED
      BY <2>1, <2>2, <2>3
  <1>2. CASE StartFailed(c)
    <2>1. CallsOK'
      BY <1>2 DEF StartFailed, Received, CallsOK, Busy, GuardedMethods, callVars
    <2>2. SessionOK'
      BY <1>2 DEF StartFailed, CallsOK, SessionOK, JournalFits, PriceKnown, AnswersFit,
                  NoncesPast, callVars, nodeVars
    <2> QED
      BY <1>2, <1>a, <2>1, <2>2 DEF StartFailed
  <1>3. CASE CountReply(c)
    <2> DEFINE res == Got(c)
               method == IF op[c].price = NoPrice THEN "eth_gasPrice" ELSE LastMethod(op[c].api)
               o == [op[c] EXCEPT !.nonce = NonceOf(res)]
    <2>1. FieldsOK' /\ NodeOK' /\ StraysPast' /\ PoolOK' /\ UNCHANGED mined
      BY <1>3, <1>a DEF CountReply, nodeVars
    <2>2. CASE Close(c, Err(-1, "nonce"))
      BY <2>1, <2>2, EndIsTyped, OutcomesTyped DEF Close
    <2>3. CASE /\ res.why = "value" /\ op' = [op EXCEPT ![c].nonce = NonceOf(res)]
               /\ Issue(c, method) /\ UNCHANGED <<calls, journal>>
      <3>1. Busy(c) /\ op[c] \in Ops
        BY <1>3 DEF CountReply, Received, Busy, GuardedMethods, CallsOK
      <3>2. res.val \in Nat /\ res.val <= Len(mined[AccountOf[c]])
        BY <1>3, <2>3, GotFits DEF CountReply, Received
      <3>3. o \in Ops /\ o.call = op[c].call /\ o.nonce = res.val /\ o.price = op[c].price
        BY <3>1, <3>2 DEF Ops, NonceOf
      <3>4. op' = [op EXCEPT ![c] = o]
        BY <2>3
      <3>5. method \in GuardedMethods
        BY <3>1, <1>m DEF GuardedMethods, Ops
      <3>6. method \in {"eth_sendRawTransaction", "eth_estimateGas"} => o.price \in GasPrices
        BY <3>1, <3>3 DEF Ops
      <3> QED
        BY <2>1, <2>3, <3>1, <3>2, <3>3, <3>4, <3>5, <3>6, NextExchangeStep
    <2> QED
      BY <1>3, <2>2, <2>3 DEF CountReply
  <1>4. CASE GasPriceReply(c)
    <2> DEFINE res == Got(c)
               o == [op[c] EXCEPT !.price = res.val]
    <2>1. FieldsOK' /\ NodeOK' /\ StraysPast' /\ PoolOK' /\ UNCHANGED mined
      BY <1>4, <1>a DEF GasPriceReply, nodeVars
    <2>2. CASE Close(c, Err(-41, "gasPrice"))
      BY <2>1, <2>2, EndIsTyped, OutcomesTyped DEF Close
    <2>3. CASE /\ res.why = "value" /\ op' = [op EXCEPT ![c].price = res.val]
               /\ Issue(c, LastMethod(op[c].api)) /\ UNCHANGED <<calls, journal>>
      <3>1. Busy(c) /\ op[c] \in Ops /\ op[c].nonce <= Len(mined[AccountOf[c]])
        BY <1>4 DEF GasPriceReply, Received, Busy, GuardedMethods, CallsOK, SessionOK, NoncesPast
      <3>2. res.val \in GasPrices
        BY <1>4, <2>3, GotFits DEF GasPriceReply, Received
      <3>3. o \in Ops /\ o.call = op[c].call /\ o.nonce = op[c].nonce /\ o.price = res.val
        BY <3>1, <3>2 DEF Ops
      <3>4. op' = [op EXCEPT ![c] = o]
        BY <2>3
      <3>5. LastMethod(op[c].api) \in GuardedMethods
        BY <3>1, <1>m DEF Ops
      <3> QED
        BY <2>1, <2>3, <3>1, <3>2, <3>3, <3>4, <3>5, NextExchangeStep
    <2> QED
      BY <1>4, <2>2, <2>3 DEF GasPriceReply
  <1>5. CASE RawReply(c)
    <2>1. Got(c) \in Outcomes /\ Close(c, Got(c)) /\ UNCHANGED mined
      BY <1>5, GotFits DEF RawReply, Received, nodeVars
    <2> QED
      BY <1>5, <1>a, <2>1, EndIsTyped DEF RawReply, Close
  <1>6. CASE EstimateReply(c)
    <2>1. Got(c) \in Outcomes /\ Close(c, Got(c)) /\ UNCHANGED mined
      BY <1>6, GotFits DEF EstimateReply, Received, nodeVars
    <2> QED
      BY <1>6, <1>a, <2>1, EndIsTyped DEF EstimateReply, Close
  <1>7. CASE Fault(c)
    <2>1. /\ End(c, Mark("lost"), "crashed")
          /\ UNCHANGED <<fieldVars, stray, accepted, nodeVars>>
      BY <1>7 DEF Fault
    <2>2. CallsOK' /\ SessionOK'
      BY <2>1, EndIsTyped, OutcomesTyped DEF nodeVars
    <2> QED
      BY <1>a, <2>1, <2>2
  <1> QED
    BY <1>1, <1>2, <1>3, <1>4, <1>5, <1>6, <1>7 DEF Continue

(* The node, the network and the power supply of a device.                 *)
LEMMA WorldStep ==
  ASSUME IInv, NEW c \in Clients, World(c)
  PROVE  IInv'
  <1> USE DEF IInv
  <1>a. UNCHANGED <<fieldVars, stray, accepted, nodeVars>>
          => FieldsOK' /\ NodeOK' /\ StraysPast' /\ PoolOK'
    BY DEF FieldsOK, NodeOK, StraysPast, PoolOK, OnePerSlot, NoNonceGap, fieldVars, nodeVars
  <1>f. UNCHANGED <<fieldVars, callVars, pc, nodeVars>>
          => /\ FieldsOK' /\ UNCHANGED <<pc, callVars, mined>>
    BY DEF FieldsOK, fieldVars, nodeVars
  <1>1. CASE ServeRead(c)
    <2>1. PICK v \in ReadAnswers(c) : Deliver(c, Answer(v))
      BY <1>1 DEF ServeRead
    <2>2. v \in Nat
      BY <2>1 DEF ReadAnswers, TransactionCount, CountTag, NodeOK
    <2>3. /\ pc[c] = "eth_chainId" => v = NodeChainId
          /\ pc[c] = "eth_getTransactionCount" => v <= Len(mined[AccountOf[c]])
          /\ pc[c] = "eth_gasPrice" => v \in GasPrices
      BY <2>1 DEF ReadAnswers, TransactionCount, CountTag, NodeOK
    <2>4. Answer(v) \in Replies /\ Answer(v).val = v
      BY <2>2, RepliesTyped
    <2>5. CallsOK' /\ SessionOK'
      BY <1>1, <1>f, <2>1, <2>3, <2>4, DeliverStep DEF ServeRead
    <2> QED
      BY <1>1, <1>a, <2>5 DEF ServeRead
  <1>2. CASE ServeRaw(c)
    <2> DEFINE q == Request(c, op[c])
    <2>1. pc[c] = "eth_sendRawTransaction"
      BY <1>2 DEF ServeRaw, InFlight
    <2>2. q \in Requests /\ q.tx.nonce <= Len(mined[q.tx.from])
      BY <2>1, RequestTyped
    <2>3. UNCHANGED <<fieldVars, callVars, pc, stray>>
      BY <1>2 DEF ServeRaw
    <2>4. CASE Accept(q) /\ Deliver(c, Answer(0))
      <3>1. UNCHANGED mined
        BY <2>4 DEF Accept
      <3>2. CallsOK' /\ SessionOK'
        BY <2>1, <2>3, <2>4, <3>1, DeliverStep, RepliesTyped
      <3>3. NodeOK' /\ StraysPast' /\ PoolOK'
        BY <2>2, <2>3, <2>4, <3>1, AcceptStep DEF NodeOK, StraysPast
      <3> QED
        BY <2>3, <3>2, <3>3 DEF FieldsOK, fieldVars
    <2>5. CASE Deliver(c, NodeError) /\ UNCHANGED <<accepted, nodeVars>>
      <3>1. CallsOK' /\ SessionOK'
        BY <1>f, <2>3, <2>5, DeliverStep, RepliesTyped
      <3> QED
        BY <1>a, <2>3, <2>5, <3>1
    <2> QED
      BY <1>2, <2>4, <2>5 DEF ServeRaw
  <1>3. CASE NodeFails(c)
    <2>1. PICK r \in {NodeError, NullAnswer} : Deliver(c, r)
      BY <1>3 DEF NodeFails
    <2>2. CallsOK' /\ SessionOK'
      BY <1>3, <1>f, <2>1, DeliverStep, RepliesTyped DEF NodeFails
    <2> QED
      BY <1>3, <1>a, <2>2 DEF NodeFails
  <1>4. CASE Refuse(c)
    <2>1. CallsOK' /\ SessionOK'
      BY <1>4, <1>f, DeliverStep, RepliesTyped DEF Refuse
    <2> QED
      BY <1>4, <1>a, <2>1 DEF Refuse
  <1>5. CASE TimeOut(c)
    <2>1. CallsOK' /\ SessionOK' /\ FieldsOK'
      BY <1>5, <1>f, DeliverStep, RepliesTyped DEF TimeOut
    <2>2. NodeOK' /\ StraysPast'
      BY <1>5, AbandonStep DEF TimeOut
    <2> QED
      BY <1>5, <2>1, <2>2 DEF TimeOut, PoolOK, OnePerSlot, NoNonceGap, nodeVars
  <1>6. CASE Spoil(c)
    <2>1. PICK r \in Spoiled : Deliver(c, r)
      BY <1>6 DEF Spoil
    <2>2. CallsOK' /\ SessionOK'
      BY <1>6, <1>f, <2>1, DeliverStep, RepliesTyped DEF Spoil
    <2> QED
      BY <1>6, <1>a, <2>2 DEF Spoil
  <1>7. CASE PowerLoss(c)
    BY <1>7, RestartStep DEF PowerLoss
  <1> QED
    BY <1>1, <1>2, <1>3, <1>4, <1>5, <1>6, <1>7 DEF World

(* Abandoned requests reach the node or never do.                          *)
LEMMA StrayStep ==
  ASSUME IInv, NEW q \in stray, StrayArrives(q) \/ StrayLost(q)
  PROVE  IInv'
  <1> USE DEF IInv
  <1>1. UNCHANGED <<fieldVars, callVars, pc, reply, mined>> /\ stray' = stray \ {q}
    BY DEF StrayArrives, StrayLost, Accept, nodeVars
  <1>2. FieldsOK' /\ CallsOK' /\ SessionOK'
    BY <1>1 DEF FieldsOK, CallsOK, Busy, GuardedMethods, SessionOK, JournalFits, PriceKnown,
                AnswersFit,
                NoncesPast, fieldVars, callVars
  <1>3. StraysPast'
    BY <1>1 DEF StraysPast
  <1>4. CASE Accept(q)
    BY <1>1, <1>2, <1>3, <1>4, AcceptStep DEF NodeOK, StraysPast
  <1>5. CASE UNCHANGED <<accepted, nodeVars>>
    BY <1>1, <1>2, <1>3, <1>5 DEF NodeOK, PoolOK, OnePerSlot, NoNonceGap, nodeVars
  <1> QED
    BY <1>4, <1>5 DEF StrayArrives, StrayLost

(* A block: every count grows or stays, and no other pooled transaction of *)
(* the account is left behind, since there is none.                        *)
LEMMA MineStep ==
  ASSUME IInv, NEW t \in pool, MineBlock(t)
  PROVE  IInv'
  <1> USE DEF IInv
  <1>1. /\ t \in Transactions /\ t.from \in Accounts
        /\ mined' = [mined EXCEPT ![t.from] = Append(@, t)] /\ pool' = pool \ {t}
        /\ UNCHANGED <<fieldVars, callVars, pc, reply, stray, accepted>>
    BY DEF MineBlock, Mine, NodeOK, Transactions
  <1>2. mined' \in [Accounts -> Seq(Transactions)]
    BY <1>1 DEF NodeOK
  <1>3. \A a \in Accounts : Len(mined[a]) \in Nat /\ Len(mined'[a]) \in Nat
                          /\ Len(mined[a]) <= Len(mined'[a])
    BY <1>1 DEF NodeOK
  <1>4. FieldsOK' /\ CallsOK' /\ NodeOK'
    BY <1>1, <1>2 DEF FieldsOK, CallsOK, Busy, GuardedMethods, NodeOK, fieldVars, callVars
  <1>5. JournalFits' /\ PriceKnown'
    BY <1>1 DEF SessionOK, JournalFits, PriceKnown, callVars
  <1>6. AnswersFit'
    <2> SUFFICES ASSUME NEW c \in Clients, reply[c] # NoReply, reply[c].body = "string",
                        pc[c] = "eth_getTransactionCount"
                 PROVE  reply[c].val <= Len(mined'[AccountOf[c]])
      BY <1>1 DEF SessionOK, AnswersFit
    <2>1. reply[c].val \in Nat /\ reply[c].val <= Len(mined[AccountOf[c]])
      BY DEF CallsOK, Replies, SessionOK, AnswersFit
    <2> QED
      BY <1>3, <2>1
  <1>7. NoncesPast'
    <2> SUFFICES ASSUME NEW c \in Clients,
                        pc[c] \in {"eth_gasPrice", "eth_sendRawTransaction", "eth_estimateGas"}
                 PROVE  op[c].nonce <= Len(mined'[AccountOf[c]])
      BY <1>1 DEF NoncesPast, callVars
    <2>1. op[c].nonce \in Nat /\ op[c].nonce <= Len(mined[AccountOf[c]])
      BY DEF CallsOK, Busy, GuardedMethods, Ops, SessionOK, NoncesPast
    <2> QED
      BY <1>3, <2>1
  <1>8. StraysPast'
    <2> SUFFICES ASSUME NEW q \in stray PROVE q.tx.nonce <= Len(mined'[q.tx.from])
      BY <1>1 DEF StraysPast
    <2>1. q.tx \in Transactions /\ q.tx.nonce <= Len(mined[q.tx.from])
      BY DEF NodeOK, Requests, StraysPast
    <2> QED
      BY <1>3, <2>1 DEF Transactions
  <1>9. PoolOK'
    <2> SUFFICES ASSUME NEW u \in pool, u # t PROVE u.nonce = Len(mined'[u.from])
      BY <1>1 DEF PoolOK, OnePerSlot, NoNonceGap
    <2>1. u.from # t.from
      BY DEF PoolOK, OnePerSlot, NoNonceGap, SameSlot
    <2> QED
      BY <1>1, <2>1 DEF PoolOK, NoNonceGap, NodeOK, Transactions
  <1> QED
    BY <1>4, <1>5, <1>6, <1>7, <1>8, <1>9 DEF SessionOK

-------------------------------------------------------------------------------
(* The theorems                                                            *)

THEOREM Inductive == Spec => []IInv
  <1>1. IInv /\ [Next]_vars => IInv'
    <2> SUFFICES ASSUME IInv, [Next]_vars PROVE IInv'
      OBVIOUS
    <2>1. CASE UNCHANGED vars
      BY <2>1 DEF vars, fieldVars, callVars, nodeVars, IInv, FieldsOK, CallsOK, Busy,
                  GuardedMethods,
                  SessionOK, JournalFits, PriceKnown, AnswersFit, NoncesPast, NodeOK,
                  StraysPast, PoolOK, OnePerSlot, NoNonceGap
    <2>2. ASSUME NEW c \in Clients, Application(c) \/ Continue(c) \/ World(c)
          PROVE  IInv'
      BY <2>2, ApplicationStep, ContinueStep, WorldStep
    <2>3. ASSUME NEW q \in stray, StrayArrives(q) \/ StrayLost(q)
          PROVE  IInv'
      BY <2>3, StrayStep
    <2>4. ASSUME NEW t \in pool, MineBlock(t)
          PROVE  IInv'
      BY <2>4, MineStep
    <2> QED
      BY <2>1, <2>2, <2>3, <2>4 DEF Next
  <1> QED
    BY <1>1, InitIInv, PTL DEF Spec

(* Chain.cpp: every variable keeps its type in every state of every        *)
(* instance.                                                               *)
THEOREM TypeCorrect == Spec => []TypeOK
  <1>1. IInv => TypeOK
    BY DEF IInv, FieldsOK, CallsOK, NodeOK, TypeOK
  <1> QED
    BY <1>1, Inductive, PTL

(* Chain.cpp:158-181: whatever number of devices share an account, the     *)
(* node never holds a transaction that has to wait for another one.        *)
THEOREM NoncesLeaveNoGap == Spec => []NoNonceGap
  <1>1. IInv => NoNonceGap
    BY DEF IInv, PoolOK
  <1> QED
    BY <1>1, Inductive, PTL

-------------------------------------------------------------------------------
(* Objects of static storage: `started' is FALSE until Start sets it       *)

StartedFits ==
  \A c \in Clients :
    /\ started[c] => startReturned[c] /\ id[c] = NodeChainId
    /\ pc[c] \in GuardedMethods => started[c]

LEMMA StepStarted ==
  ASSUME StartedInit = {FALSE}, IInv, StartedFits, [Next]_vars
  PROVE  StartedFits'
  <1> USE DEF StartedFits, IInv, FieldsOK, CallsOK
  <1>0. UNCHANGED <<fieldVars, pc>> => StartedFits'
    BY DEF fieldVars
  <1>c. ASSUME NEW c \in Clients, NEW res, NEW after \in {"idle", "crashed"},
               End(c, res, after), UNCHANGED fieldVars
        PROVE  StartedFits'
    BY <1>c DEF End, fieldVars, GuardedMethods
  <1>r. ASSUME NEW c \in Clients, Restart(c)
        PROVE  StartedFits'
    BY <1>r DEF Restart, Close, End, GuardedMethods
  <1>i. ASSUME NEW c \in Clients, NEW method, Issue(c, method), started[c], UNCHANGED fieldVars
        PROVE  StartedFits'
    BY <1>i DEF Issue, fieldVars
  <1>1. CASE UNCHANGED vars
    BY <1>0, <1>1 DEF vars
  <1>2. ASSUME NEW c \in Clients, Application(c)
        PROVE  StartedFits'
    <2>1. CASE StartKnown(c)
      BY <2>1, SessionAssumption DEF StartKnown
    <2>2. CASE StartLoad(c)
      BY <2>2 DEF StartLoad, Issue, fieldVars, GuardedMethods
    <2>3. ASSUME NEW api \in Apis, NEW payload \in Payloads,
                 NEW price \in GasPrices \cup {NoPrice}, BeginTx(c, api, payload, price)
          PROVE  StartedFits'
      BY <2>3, <1>0, <1>i DEF BeginTx, AssertStarted
    <2> QED
      BY <1>2, <2>1, <2>2, <2>3 DEF Application
  <1>3. ASSUME NEW c \in Clients, Continue(c)
        PROVE  StartedFits'
    <2>1. CASE StartLoaded(c)
      <3>1. Got(c).val = NodeChainId
        BY <2>1, GotFits DEF StartLoaded, Received
      <3> QED
        BY <2>1, <3>1 DEF StartLoaded, GuardedMethods
    <2>2. CASE StartFailed(c)
      BY <2>2 DEF StartFailed, fieldVars, GuardedMethods
    <2>3. CASE CountReply(c)
      BY <2>3, <1>c, <1>i DEF CountReply, Close, Received, GuardedMethods
    <2>4. CASE GasPriceReply(c)
      BY <2>4, <1>c, <1>i DEF GasPriceReply, Close, Received, GuardedMethods
    <2>5. CASE RawReply(c) \/ EstimateReply(c)
      BY <2>5, <1>c DEF RawReply, EstimateReply, Close
    <2>6. CASE Fault(c)
      BY <2>6, <1>c DEF Fault
    <2> QED
      BY <1>3, <2>1, <2>2, <2>3, <2>4, <2>5, <2>6 DEF Continue
  <1>4. ASSUME NEW c \in Clients, World(c)
        PROVE  StartedFits'
    BY <1>4, <1>0, <1>r DEF World, ServeRead, ServeRaw, NodeFails, Refuse, TimeOut, Spoil, PowerLoss
  <1>5. ASSUME NEW q \in stray, StrayArrives(q) \/ StrayLost(q)
        PROVE  StartedFits'
    BY <1>5, <1>0 DEF StrayArrives, StrayLost
  <1>6. ASSUME NEW t \in pool, MineBlock(t)
        PROVE  StartedFits'
    BY <1>6, <1>0 DEF MineBlock
  <1> QED
    BY <1>1, <1>2, <1>3, <1>4, <1>5, <1>6 DEF Next

(* Chain.cpp:274-280: a Chain of static storage makes no guarded call      *)
(* before Start() returned true and the id is that of the node's chain.    *)
THEOREM StartComesFirst ==
  ASSUME StartedInit = {FALSE}
  PROVE  Spec => []CallsOnlyAfterStart
  <1>1. Init => StartedFits
    BY DEF Init, StartedFits, GuardedMethods
  <1>2. IInv /\ StartedFits /\ [Next]_vars => StartedFits'
    BY StepStarted
  <1>3. StartedFits => CallsOnlyAfterStart
    BY DEF StartedFits, CallsOnlyAfterStart
  <1> QED
    BY <1>1, <1>2, <1>3, Inductive, PTL DEF Spec

-------------------------------------------------------------------------------
(***************************************************************************)
(* What a Result says of a payment.  A call number names one invocation of *)
(* Send or EstimateGas.  The argument follows it: one device works on it   *)
(* at most, its requests carry its payload, none exists before the last    *)
(* exchange begins, and the journal keeps what it was asked to do.         *)
(***************************************************************************)

Sent == accepted \cup stray
NothingSent(k) == \A q \in Sent : q.call # k

(* One device per running call, and no call numbers from the future.       *)
CallUnique ==
  /\ \A c, d \in Clients :
       op[c] \in Ops /\ op[d] \in Ops /\ op[c].call = op[d].call => c = d
  /\ \A c \in Clients : op[c] \in Ops => op[c].call <= calls
  /\ \A q \in Sent : q.call <= calls

(* The entries of calls that have not been made are empty.                 *)
FutureEmpty == \A k \in Calls : k > calls => journal[k].api = "none"

(* The journal and the locals of a running call agree.                     *)
EntryFits ==
  \A c \in Clients : op[c] \in Ops =>
    /\ journal[op[c].call].api = op[c].api
    /\ journal[op[c].call].payload = op[c].payload
    /\ journal[op[c].call].res.why = "running"
    /\ journal[op[c].call].res.code = 0

MethodFits ==
  \A c \in Clients :
    /\ pc[c] = "eth_sendRawTransaction" => op[c].api = "Send"
    /\ pc[c] = "eth_estimateGas" => op[c].api = "EstimateGas"

(* Every request stems from a Send and carries what it was asked to pay.   *)
RequestsFit ==
  \A q \in Sent :
    journal[q.call].api = "Send" /\ journal[q.call].payload = q.tx.payload

(* Nothing has left the device before its last exchange is over.           *)
BeforeSent ==
  \A c \in Clients :
    pc[c] \in {"eth_getTransactionCount", "eth_gasPrice"} \/ InFlight(c) =>
      NothingSent(op[c].call)

(* A hash in the answer means that the node has the transaction.           *)
HashMeansAccepted ==
  \A c \in Clients :
    pc[c] = "eth_sendRawTransaction" /\ reply[c] # NoReply /\ reply[c].body = "string" =>
      \E q \in accepted : q.call = op[c].call

RecordsOK ==
  CallUnique /\ FutureEmpty /\ EntryFits /\ MethodFits /\ RequestsFit /\ BeforeSent
    /\ HashMeansAccepted /\ SendResultSound /\ EarlyErrorMeansNotSent

-------------------------------------------------------------------------------
(* Building blocks                                                         *)

(* The end of a call changes the outcome in its own entry and nothing else.*)
LEMMA JournalAtEnd ==
  ASSUME IInv, NEW c \in Clients, NEW res, NEW after, End(c, res, after)
  PROVE  \A k \in Calls :
           /\ journal'[k].api = journal[k].api
           /\ journal'[k].payload = journal[k].payload
           /\ k # op[c].call => journal'[k] = journal[k]
           /\ k = op[c].call => journal'[k].res = res /\ op[c] \in Ops
  <1> TAKE k \in Calls
  <1>1. journal'[k] = IF k = op[c].call THEN [journal[k] EXCEPT !.res = res] ELSE journal[k]
    BY DEF End
  <1>2. k = op[c].call => op[c] \in Ops
    BY DEF IInv, CallsOK, NoOp, Calls
  <1>3. k = op[c].call => journal[k] \in [api : Apis, payload : Payloads, res : Outcomes]
    BY <1>2 DEF IInv, SessionOK, JournalFits
  <1> QED
    BY <1>1, <1>2, <1>3

(* The call of a request is one of those that were made.                   *)
LEMMA CallNumbers ==
  ASSUME IInv, RecordsOK
  PROVE  /\ \A q \in Sent : q.call \in Calls
         /\ \A c \in Clients : op[c] \in Ops => op[c].call \in Calls
  BY DEF IInv, NodeOK, Sent, Requests, Ops

(* A call ends: with an early error only if it sent nothing, with a value  *)
(* only if the node has what it sent.                                      *)
LEMMA EndStep ==
  ASSUME IInv, RecordsOK, NEW c \in Clients, NEW res,
         NEW after \in {"idle", "crashed"}, End(c, res, after),
         accepted' = accepted,
         \/ stray' = stray
         \/ InFlight(c) /\ stray' = stray \cup {Request(c, op[c])},
         res.why \in {"nonce", "gasPrice", "threw"} =>
           NothingSent(op[c].call) /\ pc[c] # "eth_sendRawTransaction",
         res.why = "value" /\ op[c].api = "Send" =>
           \E q \in accepted : q.call = op[c].call
  PROVE  RecordsOK'
  <1> DEFINE r == Request(c, op[c])
  <1>1. /\ op' = [op EXCEPT ![c] = NoOp] /\ pc' = [pc EXCEPT ![c] = after]
        /\ reply' = [reply EXCEPT ![c] = NoReply] /\ calls' = calls
    BY DEF End
  <1>2. \A d \in Clients : op'[d] \in Ops => d # c /\ op'[d] = op[d] /\ op[d] \in Ops
    BY <1>1, NoOpNotInOps DEF IInv, CallsOK
  <1>3. \A d \in Clients : d # c => op'[d] = op[d] /\ pc'[d] = pc[d] /\ reply'[d] = reply[d]
    BY <1>1 DEF IInv, CallsOK
  <1>4. pc'[c] \in {"idle", "crashed"} /\ op'[c] = NoOp
    BY <1>1 DEF IInv, CallsOK
  <1>5. stray' # stray => /\ pc[c] = "eth_sendRawTransaction" /\ op[c] \in Ops
                          /\ r.call = op[c].call /\ r.tx.payload = op[c].payload
                          /\ op[c].api = "Send"
    BY DEF InFlight, IInv, CallsOK, Busy, GuardedMethods, Request, RecordsOK, MethodFits
  <1>6. Sent' = Sent \/ (Sent' = Sent \cup {r} /\ stray' # stray)
    BY DEF Sent
  <1>7. CallUnique'
    BY <1>1, <1>2, <1>5, <1>6 DEF RecordsOK, CallUnique
  <1>f. FutureEmpty'
    BY <1>1, JournalAtEnd DEF RecordsOK, FutureEmpty
  <1>8. \A d \in Clients : op'[d] \in Ops => op'[d].call # op[c].call \/ op[c] \notin Ops
    BY <1>2 DEF RecordsOK, CallUnique
  <1>9. EntryFits'
    BY <1>2, <1>8, JournalAtEnd, CallNumbers DEF RecordsOK, EntryFits
  <1>10. MethodFits'
    BY <1>3, <1>4 DEF RecordsOK, MethodFits
  <1>11. RequestsFit'
    <2>1. \A q \in Sent' : q.call \in Calls
      BY <1>5, <1>6, CallNumbers
    <2>2. \A q \in Sent' : journal[q.call].api = "Send" /\ journal[q.call].payload = q.tx.payload
      BY <1>5, <1>6 DEF RecordsOK, RequestsFit, EntryFits
    <2> QED
      BY <2>1, <2>2, JournalAtEnd DEF RequestsFit
  <1>12. BeforeSent'
    <2> SUFFICES ASSUME NEW d \in Clients,
                        pc'[d] \in {"eth_getTransactionCount", "eth_gasPrice"} \/ InFlight(d)'
                 PROVE  NothingSent(op[d].call)' /\ op'[d] = op[d]
      BY DEF BeforeSent
    <2>1. d # c /\ op'[d] = op[d] /\ op[d] \in Ops
      BY <1>3, <1>4 DEF InFlight, IInv, CallsOK, Busy, GuardedMethods
    <2>2. NothingSent(op[d].call)
      BY <1>3, <2>1 DEF RecordsOK, BeforeSent, InFlight
    <2>3. op[c] \in Ops => op[d].call # op[c].call
      BY <2>1 DEF RecordsOK, CallUnique
    <2> QED
      BY <1>1, <1>5, <1>6, <2>1, <2>2, <2>3 DEF NothingSent
  <1>13. HashMeansAccepted'
    BY <1>3, <1>4 DEF RecordsOK, HashMeansAccepted
  <1>14. SendResultSound'
    <2> SUFFICES ASSUME NEW k \in Calls, journal'[k].api = "Send", journal'[k].res.why = "value"
                 PROVE  \E q \in accepted : q.call = k /\ q.tx.payload = journal[k].payload
      BY JournalAtEnd DEF SendResultSound
    <2>1. CASE k # op[c].call
      BY <2>1, JournalAtEnd DEF RecordsOK, SendResultSound
    <2>2. CASE k = op[c].call
      <3>1. res.why = "value" /\ op[c].api = "Send"
        BY <2>2, JournalAtEnd DEF RecordsOK, EntryFits
      <3> QED
        BY <2>2, <3>1 DEF RecordsOK, RequestsFit, Sent
    <2> QED
      BY <2>1, <2>2
  <1>15. EarlyErrorMeansNotSent'
    <2> SUFFICES ASSUME NEW k \in Calls, journal'[k].res.why \in {"nonce", "gasPrice", "threw"}
                 PROVE  ~InDoubt(k)'
      BY DEF EarlyErrorMeansNotSent
    <2>1. CASE k # op[c].call
      <3>1. ~InDoubt(k)
        BY <2>1, JournalAtEnd DEF RecordsOK, EarlyErrorMeansNotSent
      <3> QED
        BY <1>3, <1>4, <1>5, <1>6, <2>1, <3>1 DEF InDoubt, Sent
    <2>2. CASE k = op[c].call
      <3>1. op[c] \in Ops /\ res.why \in {"nonce", "gasPrice", "threw"}
        BY <2>2, JournalAtEnd
      <3>2. NothingSent(k) /\ pc[c] # "eth_sendRawTransaction" /\ stray' = stray
        BY <2>2, <3>1 DEF InFlight
      <3>3. \A d \in Clients : pc'[d] = "eth_sendRawTransaction" => op'[d].call # k
        BY <1>3, <1>4, <2>2, <3>1 DEF IInv, CallsOK, Busy, GuardedMethods, RecordsOK, CallUnique
      <3> QED
        BY <3>2, <3>3 DEF InDoubt, NothingSent, Sent
    <2> QED
      BY <2>1, <2>2
  <1> QED
    BY <1>7, <1>f, <1>9, <1>10, <1>11, <1>12, <1>13, <1>14, <1>15 DEF RecordsOK

(* An answer arrives, and the node may have taken the request for it.      *)
LEMMA AnswerStep ==
  ASSUME IInv, RecordsOK, NEW c \in Clients, NEW r, Deliver(c, r), Open(c),
         UNCHANGED <<pc, callVars>>,
         \/ UNCHANGED <<stray, accepted>>
         \/ /\ InFlight(c) /\ accepted' = accepted
            /\ stray' = stray \cup {Request(c, op[c])}
         \/ /\ InFlight(c) /\ stray' = stray
            /\ accepted' = accepted \cup {Request(c, op[c])},
         r # NoReply,
         pc[c] = "eth_sendRawTransaction" /\ r.body = "string" =>
           Request(c, op[c]) \in accepted'
  PROVE  RecordsOK'
  <1> DEFINE q0 == Request(c, op[c])
  <1>1. UNCHANGED <<op, calls, journal, pc>> /\ reply' = [reply EXCEPT ![c] = r]
    BY DEF callVars, Deliver
  <1>2. Sent' = Sent \/ (Sent' = Sent \cup {q0} /\ InFlight(c))
    BY DEF Sent
  <1>3. InFlight(c) => /\ op[c] \in Ops /\ op[c].api = "Send"
                      /\ q0.call = op[c].call /\ q0.tx.payload = op[c].payload
    BY DEF InFlight, IInv, CallsOK, Busy, GuardedMethods, Request, RecordsOK, MethodFits
  <1>4. accepted \subseteq accepted'
    OBVIOUS
  <1>5. \A d \in Clients : d # c => reply'[d] = reply[d]
    BY <1>1 DEF IInv, CallsOK
  <1>6. reply'[c] = r /\ q0.call = op[c].call
    BY <1>1 DEF IInv, CallsOK, Request
  <1>7. CallUnique' /\ FutureEmpty' /\ EntryFits' /\ MethodFits' /\ RequestsFit'
    BY <1>1, <1>2, <1>3 DEF RecordsOK, CallUnique, FutureEmpty, EntryFits, MethodFits, RequestsFit
  <1>8. BeforeSent'
    <2> SUFFICES ASSUME NEW d \in Clients,
                        pc[d] \in {"eth_getTransactionCount", "eth_gasPrice"} \/ InFlight(d)'
                 PROVE  NothingSent(op[d].call)'
      BY <1>1 DEF BeforeSent
    <2>1. NothingSent(op[d].call) /\ op[d] \in Ops
      BY <1>1, <1>5, <1>6 DEF InFlight, RecordsOK, BeforeSent, IInv, CallsOK, Busy, GuardedMethods
    <2>2. InFlight(c) => op[d].call # op[c].call
      <3> SUFFICES ASSUME InFlight(c) PROVE d # c
        BY <1>3, <2>1 DEF RecordsOK, CallUnique
      <3> QED
        BY <1>1, <1>6 DEF InFlight
    <2> QED
      BY <1>1, <1>2, <1>3, <2>1, <2>2 DEF NothingSent
  <1>9. HashMeansAccepted'
    BY <1>1, <1>4, <1>5, <1>6 DEF RecordsOK, HashMeansAccepted
  <1>10. SendResultSound'
    BY <1>1, <1>4 DEF RecordsOK, SendResultSound
  <1>11. EarlyErrorMeansNotSent'
    <2> SUFFICES ASSUME NEW k \in Calls, journal[k].res.why \in {"nonce", "gasPrice", "threw"}
                 PROVE  ~InDoubt(k)'
      BY <1>1 DEF EarlyErrorMeansNotSent
    <2>1. ~InDoubt(k)
      BY DEF RecordsOK, EarlyErrorMeansNotSent
    <2>2. InFlight(c) => op[c].call # k
      BY <2>1 DEF InDoubt, InFlight
    <2> QED
      BY <1>1, <1>2, <1>3, <2>1, <2>2 DEF InDoubt, Sent
  <1> QED
    BY <1>7, <1>8, <1>9, <1>10, <1>11 DEF RecordsOK

(* Nothing that the records speak about changes, except that answers may   *)
(* be spoiled and requests may move from `stray' into the node or vanish.  *)
LEMMA QuietStep ==
  ASSUME IInv, RecordsOK, UNCHANGED <<op, calls, journal>>,
         Sent' \subseteq Sent, accepted \subseteq accepted',
         \A d \in Clients :
           \/ pc'[d] = pc[d] /\ reply'[d] = reply[d]
           \/ /\ pc'[d] = pc[d] /\ reply[d] # NoReply
              /\ reply'[d] # NoReply /\ reply'[d].body # "string"
           \/ pc'[d] \in {"idle", "eth_chainId"}
  PROVE  RecordsOK'
  <1>1. CallUnique' /\ FutureEmpty' /\ EntryFits' /\ MethodFits' /\ RequestsFit'
    BY DEF RecordsOK, CallUnique, FutureEmpty, EntryFits, MethodFits, RequestsFit
  <1>2. BeforeSent'
    BY DEF RecordsOK, BeforeSent, InFlight, NothingSent
  <1>3. HashMeansAccepted' /\ SendResultSound'
    BY DEF RecordsOK, HashMeansAccepted, SendResultSound
  <1>4. EarlyErrorMeansNotSent'
    BY DEF RecordsOK, EarlyErrorMeansNotSent, InDoubt, Sent
  <1> QED
    BY <1>1, <1>2, <1>3, <1>4 DEF RecordsOK

(* A call goes on to its next exchange with the same number and payload.   *)
LEMMA GoOnStep ==
  ASSUME IInv, RecordsOK, NEW c \in Clients,
         pc[c] \in {"eth_getTransactionCount", "eth_gasPrice"},
         NEW o \in Ops, op' = [op EXCEPT ![c] = o],
         o.call = op[c].call, o.api = op[c].api, o.payload = op[c].payload,
         NEW method \in {"eth_gasPrice", LastMethod(op[c].api)}, Issue(c, method),
         UNCHANGED <<calls, journal, stray, accepted>>
  PROVE  RecordsOK'
  <1>1. /\ \A d \in Clients : d # c => op'[d] = op[d] /\ pc'[d] = pc[d] /\ reply'[d] = reply[d]
        /\ op'[c] = o /\ pc'[c] = method /\ reply'[c] = NoReply /\ Sent' = Sent
    BY DEF IInv, CallsOK, Issue, Sent
  <1>2. op[c] \in Ops /\ op[c].api \in Apis /\ NothingSent(op[c].call)
    BY DEF IInv, CallsOK, Busy, GuardedMethods, Ops, RecordsOK, BeforeSent
  <1>3. CallUnique' /\ FutureEmpty' /\ EntryFits' /\ RequestsFit'
    BY <1>1, <1>2 DEF RecordsOK, CallUnique, FutureEmpty, EntryFits, RequestsFit
  <1>4. MethodFits'
    BY <1>1, <1>2 DEF RecordsOK, MethodFits, LastMethod, Apis
  <1>5. BeforeSent'
    BY <1>1, <1>2 DEF RecordsOK, BeforeSent, InFlight, NothingSent
  <1>6. HashMeansAccepted' /\ SendResultSound'
    BY <1>1 DEF RecordsOK, HashMeansAccepted, SendResultSound
  <1>7. EarlyErrorMeansNotSent'
    <2> SUFFICES ASSUME NEW k \in Calls, journal[k].res.why \in {"nonce", "gasPrice", "threw"}
                 PROVE  ~InDoubt(k)'
      BY DEF EarlyErrorMeansNotSent
    <2>1. ~InDoubt(k) /\ k # op[c].call
      BY <1>2 DEF RecordsOK, EarlyErrorMeansNotSent, EntryFits
    <2> QED
      BY <1>1, <2>1 DEF InDoubt
  <1> QED
    BY <1>3, <1>4, <1>5, <1>6, <1>7 DEF RecordsOK

(* A new call has a number of its own.                                     *)
LEMMA BeginStep ==
  ASSUME IInv, RecordsOK, NEW c \in Clients, NEW api \in Apis, NEW payload \in Payloads,
         NEW price \in GasPrices \cup {NoPrice}, BeginTx(c, api, payload, price)
  PROVE  RecordsOK'
  <1> DEFINE n == calls + 1
             Entry(why) == [api |-> api, payload |-> payload, res |-> Mark(why)]
             o == [api |-> api, call |-> n, payload |-> payload, price |-> price, nonce |-> 0]
  <1>a. n \in Calls /\ calls' = n /\ calls \in Nat
    BY DEF BeginTx, Calls, IInv, CallsOK
  <1>b. pc[c] = "idle" /\ op[c] \notin Ops
    BY DEF BeginTx, Quiet, IInv, CallsOK, Busy, GuardedMethods
  <1>c. UNCHANGED <<stray, accepted>> /\ Sent' = Sent
    BY DEF BeginTx, Sent
  <1>1. /\ n \in Calls /\ calls' = n /\ calls \in Nat /\ pc[c] = "idle"
        /\ op[c] \notin Ops /\ UNCHANGED <<stray, accepted>> /\ Sent' = Sent
    BY <1>a, <1>b, <1>c
  <1>2. \A q \in Sent : q.call # n /\ q.call \in Calls
    BY <1>1, CallNumbers DEF RecordsOK, CallUnique
  <1>3. \A d \in Clients : op[d] \in Ops => op[d].call # n /\ op[d].call \in Calls /\ op[d].call <= n
    BY <1>1, CallNumbers DEF RecordsOK, CallUnique, Calls
  <1>4. \E why \in {"running", "threw"} : journal' = [journal EXCEPT ![n] = Entry(why)]
    BY DEF BeginTx
  <1>5. \A k \in Calls : /\ k # n => journal'[k] = journal[k]
                         /\ k = n => journal'[k] \in {Entry("running"), Entry("threw")}
    BY <1>4 DEF IInv, CallsOK
  <1>6. \A d \in Clients : d # c => op'[d] = op[d] /\ pc'[d] = pc[d] /\ reply'[d] = reply[d]
    BY DEF BeginTx, Issue, IInv, CallsOK
  <1>7. \/ /\ op'[c] = o /\ pc'[c] = "eth_getTransactionCount"
           /\ journal'[n] = Entry("running")
        \/ op'[c] = op[c] /\ pc'[c] = "idle"
    BY <1>1 DEF BeginTx, Issue, IInv, CallsOK
  <1>8. CallUnique'
    <2>1. \A q \in Sent : q.call <= n
      BY <1>1, <1>2 DEF Calls, RecordsOK, CallUnique
    <2>2. \A d \in Clients : op'[d] \in Ops => \/ op'[d] = op[d] /\ op[d] \in Ops
                                               \/ d = c /\ op'[d].call = n
      BY <1>6, <1>7
    <2> QED
      BY <1>1, <1>3, <2>1, <2>2 DEF RecordsOK, CallUnique
  <1>f. FutureEmpty'
    BY <1>1, <1>5 DEF RecordsOK, FutureEmpty, Calls
  <1>9. EntryFits'
    BY <1>1, <1>3, <1>5, <1>6, <1>7 DEF RecordsOK, EntryFits, Mark
  <1>10. MethodFits'
    BY <1>6, <1>7 DEF RecordsOK, MethodFits
  <1>11. RequestsFit'
    BY <1>1, <1>2, <1>5 DEF RecordsOK, RequestsFit
  <1>12. BeforeSent'
    <2> SUFFICES ASSUME NEW d \in Clients,
                        pc'[d] \in {"eth_getTransactionCount", "eth_gasPrice"} \/ InFlight(d)'
                 PROVE  NothingSent(op[d].call)'
      BY DEF BeforeSent
    <2>1. CASE d = c
      BY <1>1, <1>2, <1>7, <2>1 DEF InFlight, NothingSent
    <2>2. CASE d # c
      BY <1>1, <1>6, <2>2 DEF RecordsOK, BeforeSent, InFlight, NothingSent
    <2> QED
      BY <2>1, <2>2
  <1>13. HashMeansAccepted'
    BY <1>1, <1>6, <1>7 DEF RecordsOK, HashMeansAccepted
  <1>14. SendResultSound'
    BY <1>1, <1>5 DEF RecordsOK, SendResultSound, Mark
  <1>15. EarlyErrorMeansNotSent'
    <2> SUFFICES ASSUME NEW k \in Calls, journal'[k].res.why \in {"nonce", "gasPrice", "threw"}
                 PROVE  ~InDoubt(k)'
      BY DEF EarlyErrorMeansNotSent
    <2>1. CASE k # n
      BY <1>1, <1>5, <1>6, <1>7, <2>1 DEF RecordsOK, EarlyErrorMeansNotSent, InDoubt
    <2>2. CASE k = n
      <3>1. \A d \in Clients : pc'[d] = "eth_sendRawTransaction" => op'[d].call # n
        BY <1>3, <1>6, <1>7 DEF IInv, CallsOK, Busy, GuardedMethods
      <3> QED
        BY <1>1, <1>2, <2>2, <3>1 DEF InDoubt, Sent
    <2> QED
      BY <2>1, <2>2
  <1> QED
    BY <1>8, <1>f, <1>9, <1>10, <1>11, <1>12, <1>13, <1>14, <1>15 DEF RecordsOK

-------------------------------------------------------------------------------
(* RecordsOK is inductive relative to IInv                                 *)

LEMMA InitRecords == Init => RecordsOK
  <1> SUFFICES ASSUME Init PROVE RecordsOK
    OBVIOUS
  <1>1. Sent = {} /\ \A c \in Clients : op[c] \notin Ops /\ pc[c] = "idle"
    BY NoOpNotInOps DEF Init, Sent
  <1>2. \A k \in Calls : journal[k].api = "none" /\ journal[k].res.why = "unused"
    BY DEF Init, Mark
  <1> QED
    BY <1>1, <1>2 DEF RecordsOK, CallUnique, FutureEmpty, EntryFits, MethodFits,
                      RequestsFit, BeforeSent, InFlight, HashMeansAccepted, SendResultSound,
                      EarlyErrorMeansNotSent

LEMMA StepRecords ==
  ASSUME IInv, RecordsOK, [Next]_vars
  PROVE  RecordsOK'
  <1>1. CASE UNCHANGED vars
    BY <1>1, QuietStep DEF vars, fieldVars, callVars, Sent
  <1>2. ASSUME NEW c \in Clients, Application(c)
        PROVE  RecordsOK'
    <2>1. CASE StartKnown(c)
      BY <2>1, QuietStep DEF StartKnown, callVars, Sent
    <2>2. CASE StartLoad(c)
      BY <2>2, QuietStep DEF StartLoad, Issue, callVars, Sent, IInv, CallsOK
    <2> QED
      BY <1>2, <2>1, <2>2, BeginStep DEF Application
  <1>3. ASSUME NEW c \in Clients, Continue(c)
        PROVE  RecordsOK'
    <2>a. \A d \in Clients : d # c => (pc' = [pc EXCEPT ![c] = "idle"] => pc'[d] = pc[d])
                             /\ (reply' = [reply EXCEPT ![c] = NoReply] => reply'[d] = reply[d])
      BY DEF IInv, CallsOK
    <2>b. pc' = [pc EXCEPT ![c] = "idle"] => pc'[c] = "idle"
      BY DEF IInv, CallsOK
    <2>1. CASE StartLoaded(c)
      BY <2>1, <2>a, <2>b, QuietStep DEF StartLoaded, callVars, Sent
    <2>2. CASE StartFailed(c)
      BY <2>2, <2>a, <2>b, QuietStep DEF StartFailed, callVars, Sent
    <2>3. CASE CountReply(c)
      <3> DEFINE res == Got(c)
                 method == IF op[c].price = NoPrice THEN "eth_gasPrice" ELSE LastMethod(op[c].api)
                 o == [op[c] EXCEPT !.nonce = NonceOf(res)]
      <3>1. pc[c] = "eth_getTransactionCount" /\ NothingSent(op[c].call) /\ op[c] \in Ops
            /\ UNCHANGED <<stray, accepted>>
        BY <2>3 DEF CountReply, Received, RecordsOK, BeforeSent, IInv, CallsOK, Busy, GuardedMethods
      <3>2. CASE Close(c, Err(-1, "nonce"))
        BY <3>1, <3>2, EndStep DEF Close, Err
      <3>3. CASE /\ res.why = "value" /\ op' = [op EXCEPT ![c].nonce = NonceOf(res)]
                 /\ Issue(c, method) /\ UNCHANGED <<calls, journal>>
        <4>1. res.val \in Nat
          BY <2>3, <3>3, GotFits DEF CountReply, Received, IInv
        <4>2. o \in Ops /\ o.call = op[c].call /\ o.api = op[c].api /\ o.payload = op[c].payload
          BY <3>1, <4>1 DEF Ops, NonceOf
        <4>3. op' = [op EXCEPT ![c] = o]
          BY <3>3
        <4> QED
          BY <3>1, <3>3, <4>2, <4>3, GoOnStep
      <3> QED
        BY <2>3, <3>2, <3>3 DEF CountReply
    <2>4. CASE GasPriceReply(c)
      <3> DEFINE res == Got(c)
                 o == [op[c] EXCEPT !.price = res.val]
      <3>1. pc[c] = "eth_gasPrice" /\ NothingSent(op[c].call) /\ op[c] \in Ops
            /\ UNCHANGED <<stray, accepted>>
        BY <2>4 DEF GasPriceReply, Received, RecordsOK, BeforeSent, IInv, CallsOK, Busy,
                    GuardedMethods
      <3>2. CASE Close(c, Err(-41, "gasPrice"))
        BY <3>1, <3>2, EndStep DEF Close, Err
      <3>3. CASE /\ res.why = "value" /\ op' = [op EXCEPT ![c].price = res.val]
                 /\ Issue(c, LastMethod(op[c].api)) /\ UNCHANGED <<calls, journal>>
        <4>1. res.val \in GasPrices
          BY <2>4, <3>1, <3>3, GotFits DEF GasPriceReply, Received, IInv
        <4>2. o \in Ops /\ o.call = op[c].call /\ o.api = op[c].api /\ o.payload = op[c].payload
          BY <3>1, <4>1 DEF Ops
        <4>3. op' = [op EXCEPT ![c] = o]
          BY <3>3
        <4> QED
          BY <3>1, <3>3, <4>2, <4>3, GoOnStep
      <3> QED
        BY <2>4, <3>2, <3>3 DEF GasPriceReply
    <2>e. reply[c] # NoReply => Got(c).why \notin {"nonce", "gasPrice", "threw"}
      BY DEF Got, DoRequestYo, Err, Value, NullValue
    <2>v. reply[c] # NoReply /\ Got(c).why = "value" => reply[c].body = "string"
      BY ResultsTyped DEF Got, IInv, CallsOK
    <2>5. CASE RawReply(c)
      <3>1. Got(c).why = "value" => \E q \in accepted : q.call = op[c].call
        BY <2>5, <2>v DEF RawReply, Received, RecordsOK, HashMeansAccepted
      <3>2. Close(c, Got(c)) /\ UNCHANGED <<stray, accepted>> /\ reply[c] # NoReply
        BY <2>5 DEF RawReply, Received
      <3> QED
        BY <2>e, <3>1, <3>2, EndStep DEF Close
    <2>6. CASE EstimateReply(c)
      <3>1. op[c].api # "Send"
        BY <2>6 DEF EstimateReply, Received, RecordsOK, MethodFits
      <3>2. Close(c, Got(c)) /\ UNCHANGED <<stray, accepted>> /\ reply[c] # NoReply
        BY <2>6 DEF EstimateReply, Received
      <3> QED
        BY <2>e, <3>1, <3>2, EndStep DEF Close
    <2>7. CASE Fault(c)
      BY <2>7, EndStep DEF Fault, Mark
    <2> QED
      BY <1>3, <2>1, <2>2, <2>3, <2>4, <2>5, <2>6, <2>7 DEF Continue
  <1>4. ASSUME NEW c \in Clients, World(c)
        PROVE  RecordsOK'
    <2>t. /\ \A v \in Nat : Answer(v) # NoReply
          /\ \A r \in {NodeError, NullAnswer, Refused, TimedOut} \cup Spoiled :
               r # NoReply /\ r.body # "string"
      BY RepliesTyped
    <2>1. CASE ServeRead(c)
      <3>1. PICK v \in ReadAnswers(c) : Deliver(c, Answer(v))
        BY <2>1 DEF ServeRead
      <3>2. v \in Nat
        BY <3>1 DEF ReadAnswers, TransactionCount, CountTag, IInv, NodeOK
      <3>3. UNCHANGED <<pc, callVars, stray, accepted>> /\ Open(c)
            /\ pc[c] # "eth_sendRawTransaction"
        BY <2>1 DEF ServeRead
      <3> QED
        BY <2>t, <3>1, <3>2, <3>3, AnswerStep
    <2>2. CASE ServeRaw(c)
      <3>1. InFlight(c) /\ Open(c) /\ UNCHANGED <<pc, callVars, stray>>
        BY <2>2 DEF ServeRaw, InFlight, Open, Methods, GuardedMethods
      <3>2. CASE Accept(Request(c, op[c])) /\ Deliver(c, Answer(0))
        BY <2>t, <3>1, <3>2, AnswerStep DEF Accept
      <3>3. CASE Deliver(c, NodeError) /\ UNCHANGED accepted
        BY <2>t, <3>1, <3>3, AnswerStep
      <3> QED
        BY <2>2, <3>2, <3>3 DEF ServeRaw
    <2>3. CASE NodeFails(c)
      BY <2>3, <2>t, AnswerStep DEF NodeFails
    <2>4. CASE Refuse(c)
      BY <2>4, <2>t, AnswerStep DEF Refuse
    <2>5. CASE TimeOut(c)
      BY <2>5, <2>t, AnswerStep DEF TimeOut
    <2>6. CASE Spoil(c)
      <3>1. PICK r \in Spoiled : Deliver(c, r)
        BY <2>6 DEF Spoil
      <3>2. reply[c] # NoReply /\ UNCHANGED <<op, calls, journal, pc, stray, accepted>>
        BY <2>6 DEF Spoil, callVars
      <3>3. reply'[c] = r /\ \A d \in Clients : d # c => reply'[d] = reply[d]
        BY <3>1 DEF Deliver, IInv, CallsOK
      <3> QED
        BY <2>t, <3>1, <3>2, <3>3, QuietStep DEF Sent
    <2>7. CASE PowerLoss(c)
      BY <2>7, EndStep DEF PowerLoss, Restart, Close, Mark
    <2> QED
      BY <1>4, <2>1, <2>2, <2>3, <2>4, <2>5, <2>6, <2>7 DEF World
  <1>5. ASSUME NEW q \in stray, StrayArrives(q) \/ StrayLost(q)
        PROVE  RecordsOK'
    BY <1>5, QuietStep DEF StrayArrives, StrayLost, Accept, callVars, Sent
  <1>6. ASSUME NEW t \in pool, MineBlock(t)
        PROVE  RecordsOK'
    BY <1>6, QuietStep DEF MineBlock, callVars, Sent
  <1> QED
    BY <1>1, <1>2, <1>3, <1>4, <1>5, <1>6 DEF Next

THEOREM RecordsInductive == Spec => [](IInv /\ RecordsOK)
  <1>1. IInv /\ RecordsOK /\ [Next]_vars => RecordsOK'
    BY StepRecords
  <1> QED
    BY <1>1, InitRecords, Inductive, PTL DEF Spec

(* Chain.cpp:184-187: for any number of devices, whatever is lost or late, *)
(* a Result with a hash means that the node has the transaction.           *)
THEOREM HashesAreTrue == Spec => []SendResultSound
  BY RecordsInductive, PTL DEF RecordsOK

(* Chain.cpp:160-163, 172-175, 274-280: an early error means that the      *)
(* payment has not been made and cannot be made any more.                  *)
THEOREM EarlyErrorsAreFinal == Spec => []EarlyErrorMeansNotSent
  BY RecordsInductive, PTL DEF RecordsOK

(* Chain.cpp:217: what EstimateGas signs never reaches the pool.           *)
THEOREM EstimatesAreFree == Spec => []EstimateNeverSubmits
  <1>1. RecordsOK => EstimateNeverSubmits
    BY DEF RecordsOK, RequestsFit, Sent, EstimateNeverSubmits
  <1> QED
    BY <1>1, RecordsInductive, PTL
-----------------------------------------------------------------------------
(* Repeating a payment only after results that say it was not made never    *)
(* pays twice, for any number of devices, accounts and attempts.             *)
(*                                                                           *)
(* A result that says "not made" is final: nothing of its call is with the   *)
(* node or under way.  Of the attempts at a payment all but one have such a  *)
(* result; the other one signed at most one transaction; and a nonce is      *)
(* spent at most once.                                                       *)

(* The facade keeps -1 for requests that were not sent, as ESPNetwork does. *)
RefusalIsDistinct == RefusedStatus = -1 /\ TimeoutStatus # -1

NotMadeIsFinal == \A k \in Calls : NotMade(journal[k].res) => NothingSent(k)

MinusOneIsNotMade ==
  \A k \in Calls : journal[k].res.code = -1 => NotMade(journal[k].res)

(* The same of an answer that Send has not looked at yet.                  *)
RefusalsAreTrue ==
  \A c \in Clients :
    pc[c] = "eth_sendRawTransaction" /\ reply[c] # NoReply /\ NotMade(Got(c)) =>
      NothingSent(op[c].call)

OneRequestPerCall == \A q, r \in Sent : q.call = r.call => q = r

OneLiveAttempt ==
  SafeRetry =>
    \A j, k \in Calls :
      /\ j # k
      /\ journal[j].api = "Send" /\ journal[k].api = "Send"
      /\ journal[j].payload = journal[k].payload
      => NotMade(journal[j].res) \/ NotMade(journal[k].res)

AttemptsOK ==
  NotMadeIsFinal /\ MinusOneIsNotMade /\ RefusalsAreTrue
    /\ OneRequestPerCall /\ OneLiveAttempt

(* What the node has, it was sent, and a nonce is the place in the chain.  *)
LedgerOK ==
  /\ \A t \in pool : \E q \in accepted : q.tx = t
  /\ \A a \in Accounts : \A i \in DOMAIN mined[a] :
       /\ mined[a][i].from = a /\ mined[a][i].nonce = i - 1
       /\ \E q \in accepted : q.tx = mined[a][i]

-------------------------------------------------------------------------------
(* Building blocks                                                         *)

(* A running call has not been given up on.                                *)
LEMMA RunningIsLive ==
  ASSUME IInv, RecordsOK, NEW c \in Clients, op[c] \in Ops
  PROVE  op[c].call \in Calls /\ ~NotMade(journal[op[c].call].res)
  BY CallNumbers DEF RecordsOK, EntryFits, NotMade

(* The requests, where they were and one more that is being made.          *)
LEMMA OneMoreRequest ==
  ASSUME IInv, RecordsOK, AttemptsOK, NEW c \in Clients,
         Sent' = Sent \/ (InFlight(c) /\ Sent' = Sent \cup {Request(c, op[c])})
  PROVE  /\ OneRequestPerCall'
         /\ \A k \in Calls : NothingSent(k) /\ k # op[c].call => NothingSent(k)'
         /\ \A k \in Calls : NotMade(journal[k].res) => NothingSent(k)'
  <1>1. Request(c, op[c]).call = op[c].call
    BY DEF Request
  <1>2. InFlight(c) => NothingSent(op[c].call) /\ op[c] \in Ops
    BY DEF InFlight, RecordsOK, BeforeSent, IInv, CallsOK, Busy, GuardedMethods
  <1>3. OneRequestPerCall'
    BY <1>1, <1>2 DEF AttemptsOK, OneRequestPerCall, NothingSent
  <1>4. \A k \in Calls : NothingSent(k) /\ k # op[c].call => NothingSent(k)'
    BY <1>1 DEF NothingSent
  <1>5. \A k \in Calls : NotMade(journal[k].res) => NothingSent(k)'
    BY <1>1, <1>2, RunningIsLive DEF AttemptsOK, NotMadeIsFinal, NothingSent
  <1> QED
    BY <1>3, <1>4, <1>5

(* A call ends, and if its result says "not made" then it sent nothing.    *)
LEMMA AttemptEnds ==
  ASSUME IInv, RecordsOK, AttemptsOK, NEW c \in Clients, NEW res,
         NEW after \in {"idle", "crashed"}, End(c, res, after),
         accepted' = accepted,
         \/ stray' = stray
         \/ InFlight(c) /\ stray' = stray \cup {Request(c, op[c])},
         res.code = -1 => NotMade(res),
         NotMade(res) => stray' = stray /\ NothingSent(op[c].call)
  PROVE  AttemptsOK'
  <1>1. Sent' = Sent \/ (InFlight(c) /\ Sent' = Sent \cup {Request(c, op[c])})
    BY DEF Sent
  <1>2. stray' = stray => Sent' = Sent
    BY DEF Sent
  <1>3. NotMadeIsFinal'
    <2> SUFFICES ASSUME NEW k \in Calls, NotMade(journal'[k].res) PROVE NothingSent(k)'
      BY DEF NotMadeIsFinal
    <2>1. CASE k # op[c].call
      BY <1>1, <2>1, JournalAtEnd, OneMoreRequest
    <2>2. CASE k = op[c].call
      BY <1>2, <2>2, JournalAtEnd DEF NothingSent
    <2> QED
      BY <2>1, <2>2
  <1>4. MinusOneIsNotMade'
    <2> SUFFICES ASSUME NEW k \in Calls, journal'[k].res.code = -1
                 PROVE  NotMade(journal'[k].res)
      BY DEF MinusOneIsNotMade
    <2> QED
      BY JournalAtEnd DEF AttemptsOK, MinusOneIsNotMade
  <1>5. RefusalsAreTrue'
    <2> SUFFICES ASSUME NEW d \in Clients, pc'[d] = "eth_sendRawTransaction",
                        reply'[d] # NoReply, NotMade(DoRequestYo(reply'[d]))
                 PROVE  NothingSent(op[d].call)'
      BY DEF RefusalsAreTrue, Got
    <2>1. d # c /\ pc'[d] = pc[d] /\ reply'[d] = reply[d] /\ op'[d] = op[d]
      BY DEF End, IInv, CallsOK
    <2>2. op[d] \in Ops /\ op[d].call \in Calls /\ NothingSent(op[d].call)
      BY <2>1, RunningIsLive DEF IInv, CallsOK, Busy, GuardedMethods, AttemptsOK,
                                 RefusalsAreTrue, Got
    <2>3. InFlight(c) => op[d].call # op[c].call
      BY <2>1, <2>2 DEF InFlight, IInv, CallsOK, Busy, GuardedMethods, RecordsOK, CallUnique
    <2> QED
      BY <1>1, <2>1, <2>2, <2>3, OneMoreRequest DEF NothingSent
  <1>6. OneLiveAttempt'
    <2>1. \A k \in Calls : NotMade(journal[k].res) => journal'[k] = journal[k]
      BY JournalAtEnd, RunningIsLive
    <2> QED
      BY <2>1, JournalAtEnd DEF AttemptsOK, OneLiveAttempt
  <1> QED
    BY <1>1, <1>3, <1>4, <1>5, <1>6, OneMoreRequest DEF AttemptsOK

(* An answer arrives; a refusal comes without the request being sent.      *)
LEMMA AttemptAnswered ==
  ASSUME IInv, RecordsOK, AttemptsOK, NEW c \in Clients, NEW r, Deliver(c, r), Open(c),
         UNCHANGED <<pc, callVars>>,
         Sent' = Sent \/ (InFlight(c) /\ Sent' = Sent \cup {Request(c, op[c])}),
         NotMade(DoRequestYo(r)) => Sent' = Sent
  PROVE  AttemptsOK'
  <1>1. UNCHANGED <<op, calls, journal, pc>>
    BY DEF callVars
  <1>2. NotMadeIsFinal' /\ MinusOneIsNotMade' /\ OneLiveAttempt' /\ OneRequestPerCall'
    BY <1>1, OneMoreRequest DEF AttemptsOK, NotMadeIsFinal, MinusOneIsNotMade, OneLiveAttempt
  <1>3. RefusalsAreTrue'
    <2> SUFFICES ASSUME NEW d \in Clients, pc[d] = "eth_sendRawTransaction",
                        reply'[d] # NoReply, NotMade(DoRequestYo(reply'[d]))
                 PROVE  NothingSent(op[d].call)'
      BY <1>1 DEF RefusalsAreTrue, Got
    <2>0. op[d] \in Ops /\ op[d].call \in Calls
      BY RunningIsLive DEF IInv, CallsOK, Busy, GuardedMethods
    <2>1. CASE d = c
      <3>1. reply'[c] = r /\ InFlight(c)
        BY <2>1 DEF Deliver, Open, InFlight, IInv, CallsOK
      <3>2. NothingSent(op[c].call) /\ Sent' = Sent
        BY <2>1, <3>1 DEF RecordsOK, BeforeSent
      <3> QED
        BY <1>1, <2>1, <3>2 DEF NothingSent
    <2>2. CASE d # c
      <3>1. reply'[d] = reply[d]
        BY <2>2 DEF Deliver, IInv, CallsOK
      <3>2. NothingSent(op[d].call)
        BY <3>1 DEF AttemptsOK, RefusalsAreTrue, Got
      <3>3. InFlight(c) => op[d].call # op[c].call
        BY <2>0, <2>2 DEF InFlight, IInv, CallsOK, Busy, GuardedMethods, RecordsOK, CallUnique
      <3> QED
        BY <1>1, <2>0, <3>2, <3>3, OneMoreRequest DEF NothingSent
    <2> QED
      BY <2>1, <2>2
  <1> QED
    BY <1>2, <1>3 DEF AttemptsOK

(* Answers may be spoiled, and requests may reach the node or vanish.      *)
LEMMA AttemptUntouched ==
  ASSUME IInv, RecordsOK, AttemptsOK, UNCHANGED <<op, calls, journal>>,
         Sent' \subseteq Sent,
         \A d \in Clients :
           \/ pc'[d] = pc[d] /\ reply'[d] = reply[d]
           \/ ~NotMade(DoRequestYo(reply'[d]))
           \/ pc'[d] \in {"idle", "eth_chainId"}
  PROVE  AttemptsOK'
  <1>1. \A k : NothingSent(k) => NothingSent(k)'
    BY DEF NothingSent
  <1>2. NotMadeIsFinal' /\ MinusOneIsNotMade' /\ OneLiveAttempt' /\ OneRequestPerCall'
    BY <1>1 DEF AttemptsOK, NotMadeIsFinal, MinusOneIsNotMade, OneLiveAttempt, OneRequestPerCall
  <1>3. RefusalsAreTrue'
    BY <1>1 DEF AttemptsOK, RefusalsAreTrue, Got, NothingSent
  <1> QED
    BY <1>2, <1>3 DEF AttemptsOK

LEMMA AttemptGoesOn ==
  ASSUME IInv, RecordsOK, AttemptsOK, NEW c \in Clients, NEW o, NEW method,
         op' = [op EXCEPT ![c] = o], Issue(c, method),
         UNCHANGED <<calls, journal, stray, accepted>>
  PROVE  AttemptsOK'
  <1>1. /\ \A d \in Clients : d # c => op'[d] = op[d] /\ pc'[d] = pc[d] /\ reply'[d] = reply[d]
        /\ reply'[c] = NoReply /\ Sent' = Sent
    BY DEF IInv, CallsOK, Issue, Sent
  <1>2. NotMadeIsFinal' /\ MinusOneIsNotMade' /\ OneLiveAttempt' /\ OneRequestPerCall'
    BY <1>1 DEF AttemptsOK, NotMadeIsFinal, MinusOneIsNotMade, OneLiveAttempt,
                OneRequestPerCall, NothingSent
  <1>3. RefusalsAreTrue'
    BY <1>1 DEF AttemptsOK, RefusalsAreTrue, Got, NothingSent
  <1> QED
    BY <1>2, <1>3 DEF AttemptsOK

(* A new attempt is made only when the earlier ones were not.              *)
LEMMA AttemptBegins ==
  ASSUME IInv, RecordsOK, AttemptsOK, NEW c \in Clients, NEW api \in Apis,
         NEW payload \in Payloads, NEW price \in GasPrices \cup {NoPrice},
         BeginTx(c, api, payload, price)
  PROVE  AttemptsOK'
  <1> DEFINE n == calls + 1
             Entry(why) == [api |-> api, payload |-> payload, res |-> Mark(why)]
  <1>1. n \in Calls /\ n > calls /\ calls \in Nat /\ Sent' = Sent
    BY DEF BeginTx, Calls, IInv, CallsOK, Sent
  <1>2. \E why \in {"running", "threw"} : journal' = [journal EXCEPT ![n] = Entry(why)]
    BY DEF BeginTx
  <1>3. /\ journal'[n] \in {Entry("running"), Entry("threw")}
        /\ \A k \in Calls : k # n => journal'[k] = journal[k]
    BY <1>1, <1>2 DEF IInv, CallsOK
  <1>4. NothingSent(n)
    BY <1>1, CallNumbers DEF RecordsOK, CallUnique, NothingSent, Calls
  <1>5. \A d \in Clients : d # c => op'[d] = op[d] /\ pc'[d] = pc[d] /\ reply'[d] = reply[d]
    BY DEF BeginTx, Issue, IInv, CallsOK
  <1>6. pc'[c] \in {"eth_getTransactionCount", "idle"}
    BY DEF BeginTx, Issue, Quiet, IInv, CallsOK
  <1>7. NotMadeIsFinal' /\ OneRequestPerCall'
    BY <1>1, <1>3, <1>4 DEF AttemptsOK, NotMadeIsFinal, OneRequestPerCall, NothingSent
  <1>8. MinusOneIsNotMade'
    BY <1>3 DEF AttemptsOK, MinusOneIsNotMade, Mark
  <1>9. RefusalsAreTrue'
    BY <1>1, <1>5, <1>6 DEF AttemptsOK, RefusalsAreTrue, Got, NothingSent
  <1>10. OneLiveAttempt'
    <2> SUFFICES ASSUME SafeRetry, NEW j \in Calls, NEW k \in Calls, j # k,
                        journal'[j].api = "Send", journal'[k].api = "Send",
                        journal'[j].payload = journal'[k].payload
                 PROVE  NotMade(journal'[j].res) \/ NotMade(journal'[k].res)
      BY DEF OneLiveAttempt
    <2>1. \A m \in Calls : m # n /\ journal'[n].api = "Send" /\ journal'[m].api = "Send"
                             /\ journal'[m].payload = journal'[n].payload
                             => NotMade(journal[m].res)
      BY <1>3 DEF BeginTx, MayAttempt, AttemptsAt
    <2>2. CASE j # n /\ k # n
      BY <1>3, <2>2 DEF AttemptsOK, OneLiveAttempt
    <2>3. CASE j = n \/ k = n
      BY <1>3, <2>1, <2>3
    <2> QED
      BY <2>2, <2>3
  <1> QED
    BY <1>7, <1>8, <1>9, <1>10 DEF AttemptsOK

-------------------------------------------------------------------------------
(* Which answers say "not made"                                            *)

LEMMA CodesSpeakTrue ==
  \A r \in Replies : DoRequestYo(r).code = -1 => NotMade(DoRequestYo(r))
  BY DEF DoRequestYo, NotMade, Err, Value, NullValue, NodeErrorCode

LEMMA DoubtfulAnswers ==
  ASSUME RefusalIsDistinct
  PROVE  /\ \A v \in Nat : ~NotMade(DoRequestYo(Answer(v)))
         /\ ~NotMade(DoRequestYo(TimedOut))
         /\ \A r \in Spoiled : ~NotMade(DoRequestYo(r))
  BY DEF RefusalIsDistinct, DoRequestYo, NotMade, Err, Value, NullValue, NodeErrorCode,
         Answer, TimedOut, Spoiled, Reply, HTTP_OK, GatewayStatus

(* What the code of a device does keeps AttemptsOK.                        *)
LEMMA ContinueAttempts ==
  ASSUME IInv, RecordsOK, AttemptsOK, NEW c \in Clients, Continue(c)
  PROVE  AttemptsOK'
  <1>a. \A d \in Clients : d # c => (pc' = [pc EXCEPT ![c] = "idle"] => pc'[d] = pc[d])
                           /\ (reply' = [reply EXCEPT ![c] = NoReply] => reply'[d] = reply[d])
    BY DEF IInv, CallsOK
  <1>b. pc' = [pc EXCEPT ![c] = "idle"] => pc'[c] = "idle"
    BY DEF IInv, CallsOK
  <1>c. pc[c] \in {"eth_getTransactionCount", "eth_gasPrice"} => NothingSent(op[c].call)
    BY DEF RecordsOK, BeforeSent
  <1>g. reply[c] # NoReply => (Got(c).code = -1 => NotMade(Got(c)))
    BY CodesSpeakTrue DEF Got, IInv, CallsOK
  <1>1. CASE StartLoaded(c)
    BY <1>1, <1>a, <1>b, AttemptUntouched DEF StartLoaded, callVars, Sent
  <1>2. CASE StartFailed(c)
    BY <1>2, <1>a, <1>b, AttemptUntouched DEF StartFailed, callVars, Sent
  <1>3. CASE CountReply(c)
    <2>1. NothingSent(op[c].call) /\ UNCHANGED <<stray, accepted>>
      BY <1>3, <1>c DEF CountReply, Received
    <2>2. CASE Close(c, Err(-1, "nonce"))
      BY <2>1, <2>2, AttemptEnds DEF Close, Err, NotMade
    <2>3. CASE /\ op' = [op EXCEPT ![c].nonce = NonceOf(Got(c))] /\ UNCHANGED <<calls, journal>>
               /\ Issue(c, IF op[c].price = NoPrice THEN "eth_gasPrice"
                           ELSE LastMethod(op[c].api))
      <3>1. op' = [op EXCEPT ![c] = [op[c] EXCEPT !.nonce = NonceOf(Got(c))]]
        BY <2>3
      <3> QED
        BY <2>1, <2>3, <3>1, AttemptGoesOn
    <2> QED
      BY <1>3, <2>2, <2>3 DEF CountReply
  <1>4. CASE GasPriceReply(c)
    <2>1. NothingSent(op[c].call) /\ UNCHANGED <<stray, accepted>>
      BY <1>4, <1>c DEF GasPriceReply, Received
    <2>2. CASE Close(c, Err(-41, "gasPrice"))
      BY <2>1, <2>2, AttemptEnds DEF Close, Err, NotMade
    <2>3. CASE /\ op' = [op EXCEPT ![c].price = Got(c).val] /\ UNCHANGED <<calls, journal>>
               /\ Issue(c, LastMethod(op[c].api))
      <3>1. op' = [op EXCEPT ![c] = [op[c] EXCEPT !.price = Got(c).val]]
        BY <2>3
      <3> QED
        BY <2>1, <2>3, <3>1, AttemptGoesOn
    <2> QED
      BY <1>4, <2>2, <2>3 DEF GasPriceReply
  <1>5. CASE RawReply(c)
    <2>1. NotMade(Got(c)) => NothingSent(op[c].call)
      BY <1>5 DEF RawReply, Received, AttemptsOK, RefusalsAreTrue
    <2>2. Close(c, Got(c)) /\ reply[c] # NoReply /\ UNCHANGED <<stray, accepted>>
      BY <1>5 DEF RawReply, Received
    <2> QED
      BY <1>g, <2>1, <2>2, AttemptEnds DEF Close
  <1>6. CASE EstimateReply(c)
    <2>1. Close(c, Got(c)) /\ reply[c] # NoReply /\ UNCHANGED <<stray, accepted>>
      BY <1>6 DEF EstimateReply, Received
    <2>2. op[c] \in Ops /\ op[c].api = "EstimateGas"
      BY <1>6 DEF EstimateReply, Received, IInv, CallsOK, Busy, GuardedMethods, RecordsOK,
                  MethodFits
    <2>3. NothingSent(op[c].call)
      BY <2>2 DEF NothingSent, RecordsOK, RequestsFit, EntryFits
    <2> QED
      BY <1>g, <2>1, <2>3, AttemptEnds DEF Close
  <1>7. CASE Fault(c)
    BY <1>7, AttemptEnds DEF Fault, Mark, NotMade
  <1> QED
    BY <1>1, <1>2, <1>3, <1>4, <1>5, <1>6, <1>7 DEF Continue

(* So does what the network, the node and the power supply do to it.       *)
LEMMA WorldAttempts ==
  ASSUME RefusalIsDistinct, IInv, RecordsOK, AttemptsOK, NEW c \in Clients, World(c)
  PROVE  AttemptsOK'
  <1>1. CASE ServeRead(c)
    <2>1. PICK v \in ReadAnswers(c) : Deliver(c, Answer(v))
      BY <1>1 DEF ServeRead
    <2>2. v \in Nat
      BY <2>1 DEF ReadAnswers, TransactionCount, CountTag, IInv, NodeOK
    <2> QED
      BY <1>1, <2>1, <2>2, DoubtfulAnswers, AttemptAnswered DEF ServeRead, Sent
  <1>2. CASE ServeRaw(c)
    <2>1. InFlight(c) /\ Open(c) /\ UNCHANGED <<pc, callVars, stray>>
      BY <1>2 DEF ServeRaw, InFlight, Open, Methods, GuardedMethods
    <2>2. CASE Accept(Request(c, op[c])) /\ Deliver(c, Answer(0))
      <3>1. Sent' = Sent \cup {Request(c, op[c])}
        BY <2>1, <2>2 DEF Accept, Sent
      <3> QED
        BY <2>1, <2>2, <3>1, DoubtfulAnswers, AttemptAnswered
    <2>3. CASE Deliver(c, NodeError) /\ UNCHANGED accepted
      BY <2>1, <2>3, AttemptAnswered DEF Sent
    <2> QED
      BY <1>2, <2>2, <2>3 DEF ServeRaw
  <1>3. CASE NodeFails(c)
    BY <1>3, AttemptAnswered DEF NodeFails, Sent
  <1>4. CASE Refuse(c)
    BY <1>4, AttemptAnswered DEF Refuse, Sent
  <1>5. CASE TimeOut(c)
    <2>1. Sent' = Sent \/ (InFlight(c) /\ Sent' = Sent \cup {Request(c, op[c])})
      BY <1>5 DEF TimeOut, Sent
    <2> QED
      BY <1>5, <2>1, DoubtfulAnswers, AttemptAnswered DEF TimeOut
  <1>6. CASE Spoil(c)
    <2>1. PICK r \in Spoiled : Deliver(c, r)
      BY <1>6 DEF Spoil
    <2>2. reply'[c] = r /\ \A d \in Clients : d # c => reply'[d] = reply[d]
      BY <2>1 DEF Deliver, IInv, CallsOK
    <2> QED
      BY <1>6, <2>1, <2>2, DoubtfulAnswers, AttemptUntouched DEF Spoil, callVars, Sent
  <1>7. CASE PowerLoss(c)
    BY <1>7, AttemptEnds DEF PowerLoss, Restart, Close, Mark, NotMade
  <1> QED
    BY <1>1, <1>2, <1>3, <1>4, <1>5, <1>6, <1>7 DEF World

LEMMA StepAttempts ==
  ASSUME RefusalIsDistinct, IInv, RecordsOK, AttemptsOK, [Next]_vars
  PROVE  AttemptsOK'
  <1>1. CASE UNCHANGED vars
    BY <1>1, AttemptUntouched DEF vars, callVars, Sent
  <1>2. ASSUME NEW c \in Clients, Application(c)
        PROVE  AttemptsOK'
    <2>1. CASE StartKnown(c)
      BY <2>1, AttemptUntouched DEF StartKnown, callVars, Sent
    <2>2. CASE StartLoad(c)
      BY <2>2, AttemptUntouched DEF StartLoad, Issue, callVars, Sent, IInv, CallsOK
    <2> QED
      BY <1>2, <2>1, <2>2, AttemptBegins DEF Application
  <1>3. ASSUME NEW q \in stray, StrayArrives(q) \/ StrayLost(q)
        PROVE  AttemptsOK'
    BY <1>3, AttemptUntouched DEF StrayArrives, StrayLost, Accept, callVars, Sent
  <1>4. ASSUME NEW t \in pool, MineBlock(t)
        PROVE  AttemptsOK'
    BY <1>4, AttemptUntouched DEF MineBlock, callVars, Sent
  <1> QED
    BY <1>1, <1>2, <1>3, <1>4, ContinueAttempts, WorldAttempts DEF Next

-------------------------------------------------------------------------------
(* What the node has                                                       *)

LEMMA LedgerAccepts ==
  ASSUME LedgerOK, NEW q, Accept(q)
  PROVE  LedgerOK'
  <1>1. accepted' = accepted \cup {q} /\ mined' = mined /\ pool' \subseteq pool \cup {q.tx}
    BY DEF Accept, PoolWith
  <1> QED
    BY <1>1 DEF LedgerOK

LEMMA LedgerMines ==
  ASSUME IInv, LedgerOK, NEW t \in pool, Mine(t), UNCHANGED accepted
  PROVE  LedgerOK'
  <1>1. t.from \in Accounts /\ t \in Transactions /\ t.nonce = Len(mined[t.from])
    BY DEF Mine, IInv, NodeOK, Transactions
  <1>2. \A a \in Accounts : mined[a] \in Seq(Transactions)
    BY DEF IInv, NodeOK
  <1>3. \A a \in Accounts : mined'[a] = IF a = t.from THEN Append(mined[a], t) ELSE mined[a]
    BY <1>1 DEF Mine, IInv, NodeOK
  <1>4. pool' \subseteq pool
    BY DEF Mine
  <1>5. ASSUME NEW a \in Accounts, NEW i \in DOMAIN mined'[a]
        PROVE  /\ mined'[a][i].from = a /\ mined'[a][i].nonce = i - 1
               /\ \E q \in accepted : q.tx = mined'[a][i]
    <2>1. CASE a # t.from
      BY <1>3, <1>5, <2>1 DEF LedgerOK
    <2>2. CASE a = t.from
      <3>0. Len(mined[a]) \in Nat
        BY <1>2
      <3>1. mined'[a] = Append(mined[a], t) /\ Len(mined[a]) \in Nat
        BY <1>3, <2>2, <3>0
      <3>2. i \in 1..(Len(mined[a]) + 1)
        BY <1>1, <1>2, <1>5, <3>1
      <3>3. CASE i = Len(mined[a]) + 1
        <4>1. mined'[a][i] = t
          BY <1>1, <1>2, <3>1, <3>3
        <4> QED
          BY <1>1, <2>2, <3>1, <3>3, <4>1 DEF LedgerOK
      <3>4. CASE i # Len(mined[a]) + 1
        <4>1. i \in DOMAIN mined[a] /\ mined'[a][i] = mined[a][i]
          BY <1>1, <1>2, <3>1, <3>2, <3>4
        <4> QED
          BY <4>1 DEF LedgerOK
      <3> QED
        BY <3>3, <3>4
    <2> QED
      BY <2>1, <2>2
  <1> QED
    BY <1>4, <1>5 DEF LedgerOK

LEMMA StepLedger ==
  ASSUME IInv, LedgerOK, [Next]_vars
  PROVE  LedgerOK'
  <1>1. UNCHANGED <<accepted, nodeVars>> => LedgerOK'
    BY DEF LedgerOK, nodeVars
  <1>2. CASE UNCHANGED vars
    BY <1>1, <1>2 DEF vars
  <1>3. ASSUME NEW c \in Clients, Application(c)
        PROVE  LedgerOK'
    BY <1>1, <1>3 DEF Application, StartKnown, StartLoad, BeginTx
  <1>4. ASSUME NEW c \in Clients, Continue(c)
        PROVE  LedgerOK'
    BY <1>1, <1>4 DEF Continue, StartLoaded, StartFailed, CountReply, GasPriceReply,
                      RawReply, EstimateReply, Fault
  <1>5. ASSUME NEW c \in Clients, World(c)
        PROVE  LedgerOK'
    BY <1>1, <1>5, LedgerAccepts DEF World, ServeRead, ServeRaw, NodeFails, Refuse,
                                     TimeOut, Spoil, PowerLoss, Restart
  <1>6. ASSUME NEW q \in stray, StrayArrives(q) \/ StrayLost(q)
        PROVE  LedgerOK'
    BY <1>1, <1>6, LedgerAccepts DEF StrayArrives, StrayLost
  <1>7. ASSUME NEW t \in pool, MineBlock(t)
        PROVE  LedgerOK'
    BY <1>7, LedgerMines DEF MineBlock
  <1> QED
    BY <1>2, <1>3, <1>4, <1>5, <1>6, <1>7 DEF Next

LEMMA InitPayments == Init => AttemptsOK /\ LedgerOK
  <1> SUFFICES ASSUME Init PROVE AttemptsOK /\ LedgerOK
    OBVIOUS
  <1>1. Sent = {} /\ pool = {} /\ \A c \in Clients : pc[c] = "idle"
    BY DEF Init, NodeInit, Sent
  <1>2. \A a \in Accounts : mined[a] = <<>>
    BY DEF Init, NodeInit
  <1>3. \A k \in Calls : journal[k].api = "none" /\ journal[k].res = Mark("unused")
    BY DEF Init
  <1> QED
    BY <1>1, <1>2, <1>3 DEF AttemptsOK, LedgerOK, NotMadeIsFinal, MinusOneIsNotMade,
         RefusalsAreTrue, OneRequestPerCall, OneLiveAttempt, NothingSent, NotMade, Mark

-------------------------------------------------------------------------------
(* The theorems                                                            *)

(* Mined transactions with one payload stem from one request.              *)
LEMMA PaysOnce ==
  ASSUME IInv, RecordsOK, AttemptsOK, LedgerOK
  PROVE  PaidAtMostOnce
  <1> SUFFICES ASSUME SafeRetry, NEW a \in Accounts, NEW b \in Accounts,
                      NEW i \in DOMAIN mined[a], NEW j \in DOMAIN mined[b],
                      mined[a][i].payload = mined[b][j].payload
               PROVE  a = b /\ i = j
    BY DEF PaidAtMostOnce
  <1>1. PICK q \in accepted : q.tx = mined[a][i]
    BY DEF LedgerOK
  <1>2. PICK r \in accepted : r.tx = mined[b][j]
    BY DEF LedgerOK
  <1>3. /\ q \in Sent /\ r \in Sent /\ q.call \in Calls /\ r.call \in Calls
        /\ journal[q.call].api = "Send" /\ journal[r.call].api = "Send"
        /\ journal[q.call].payload = journal[r.call].payload
    BY <1>1, <1>2, CallNumbers DEF Sent, RecordsOK, RequestsFit
  <1>4. q.call = r.call
    BY <1>3 DEF AttemptsOK, OneLiveAttempt, NotMadeIsFinal, NothingSent
  <1>5. mined[a][i] = mined[b][j]
    BY <1>1, <1>2, <1>3, <1>4 DEF AttemptsOK, OneRequestPerCall
  <1>6. i \in Nat /\ j \in Nat
    BY DEF IInv, NodeOK
  <1> QED
    BY <1>5, <1>6 DEF LedgerOK

THEOREM PaymentsInductive ==
  ASSUME RefusalIsDistinct
  PROVE  Spec => [](IInv /\ RecordsOK /\ AttemptsOK /\ LedgerOK)
  <1>1. IInv /\ RecordsOK /\ AttemptsOK /\ LedgerOK /\ [Next]_vars => AttemptsOK' /\ LedgerOK'
    BY StepAttempts, StepLedger
  <1> QED
    BY <1>1, InitPayments, RecordsInductive, PTL DEF Spec

(* Chain.cpp:154-189: whatever is lost, late or restarted, an application  *)
(* that repeats a payment only after a result that says it was not made    *)
(* pays at most once, provided that the facade's -1 means "not sent".      *)
THEOREM SafeRetryPaysOnce ==
  ASSUME RefusalIsDistinct
  PROVE  Spec => []PaidAtMostOnce
  BY PaymentsInductive, PaysOnce, PTL

(* Chain.cpp:162 and ESPNetwork.cpp:117-121: the code -1 never stands for  *)
(* a payment that was, or still may be, made.                              *)
THEOREM MinusOneIsFinal ==
  ASSUME RefusalIsDistinct
  PROVE  Spec => []MinusOneMeansNotSent
  <1>1. ASSUME IInv, RecordsOK, AttemptsOK
        PROVE  MinusOneMeansNotSent
    <2> SUFFICES ASSUME NEW k \in Calls, journal[k].res.code = -1
                 PROVE  ~InDoubt(k)
      BY DEF MinusOneMeansNotSent
    <2>1. NotMade(journal[k].res) /\ NothingSent(k)
      BY <1>1 DEF AttemptsOK, MinusOneIsNotMade, NotMadeIsFinal
    <2>2. \A c \in Clients : pc[c] = "eth_sendRawTransaction" => op[c].call # k
      BY <1>1, <2>1, RunningIsLive DEF IInv, CallsOK, Busy, GuardedMethods
    <2> QED
      BY <2>1, <2>2 DEF InDoubt, NothingSent, Sent
  <1> QED
    BY <1>1, PaymentsInductive, PTL

-------------------------------------------------------------------------------
(***************************************************************************)
(* ChainSession implements NonceLedger: every step of the devices, the     *)
(* network and the node is an order, a submission, a confirmation, or      *)
(* invisible.                                                              *)
(***************************************************************************)

SendCalls == {k \in Calls : journal[k].api = "Send"}

LEMMA OrderedIs == Ordered = {journal[k].payload : k \in SendCalls}
  BY DEF Ordered, SendCalls

(* The end of a call orders nothing.                                       *)
LEMMA EndOrdersNothing ==
  ASSUME IInv, NEW c \in Clients, NEW res, NEW after, End(c, res, after)
  PROVE  Ordered' = Ordered
  <1>1. \A k \in Calls : journal'[k].api = journal[k].api /\ journal'[k].payload = journal[k].payload
    BY JournalAtEnd
  <1>2. SendCalls' = SendCalls
    BY <1>1 DEF SendCalls
  <1>3. {journal'[k].payload : k \in SendCalls} = {journal[k].payload : k \in SendCalls}
    BY <1>1 DEF SendCalls
  <1> QED
    BY <1>2, <1>3 DEF Ordered, SendCalls

(* A request the node takes is a submission of its account.                *)
LEMMA AcceptIsSubmit ==
  ASSUME IInv, NEW q \in Requests, Accept(q), q.tx.nonce <= Len(mined[q.tx.from]),
         q.tx.payload \in Ordered, Ordered' = Ordered
  PROVE  Ledger!LedgerNext
  <1> DEFINE t == q.tx
  <1>1. t \in Transactions /\ t.nonce = Len(mined[t.from])
    BY DEF Accept, Acceptable, Requests, Transactions, IInv, NodeOK
  <1>2. \A u \in pool : u.from = t.from <=> SameSlot(u, t)
    BY <1>1 DEF IInv, PoolOK, NoNonceGap, SameSlot
  <1>3. pool' = {u \in pool : u.from # t.from} \cup {t} /\ t \in pool'
    BY <1>2 DEF Accept, PoolWith, SameSlot
  <1>4. \A u \in pool : u.from = t.from => u.price < t.price
    <2> SUFFICES ASSUME NEW u \in pool, u.from = t.from PROVE u.price < t.price
      OBVIOUS
    <2>1. t.price > u.price
      BY <1>2 DEF Accept, Acceptable, SameSlot
    <2>2. u \in Transactions
      BY DEF IInv, NodeOK
    <2>3. t.price \in Nat /\ u.price \in Nat
      BY <1>1, <2>2 DEF Transactions
    <2> QED
      BY <2>1, <2>3
  <1>5. UNCHANGED mined
    BY DEF Accept
  <1> QED
    BY <1>1, <1>3, <1>4, <1>5 DEF Ledger!LedgerNext, Ledger!Submit

LEMMA RequestsAreOrdered ==
  ASSUME IInv, RecordsOK
  PROVE  /\ \A q \in stray : q.tx.payload \in Ordered
         /\ \A c \in Clients : InFlight(c) => Request(c, op[c]).tx.payload \in Ordered
  <1>1. ASSUME NEW q \in stray PROVE q.tx.payload \in Ordered
    <2>1. q.call \in Calls /\ journal[q.call].api = "Send" /\ journal[q.call].payload = q.tx.payload
      BY CallNumbers DEF RecordsOK, RequestsFit, Sent
    <2> QED
      BY <2>1 DEF Ordered
  <1>2. ASSUME NEW c \in Clients, InFlight(c) PROVE Request(c, op[c]).tx.payload \in Ordered
    <2>1. op[c] \in Ops /\ op[c].call \in Calls /\ op[c].api = "Send"
      BY <1>2, CallNumbers DEF InFlight, IInv, CallsOK, Busy, GuardedMethods, RecordsOK, MethodFits
    <2>2. journal[op[c].call].api = "Send" /\ journal[op[c].call].payload = op[c].payload
      BY <2>1 DEF RecordsOK, EntryFits
    <2> QED
      BY <2>1, <2>2 DEF Ordered, Request
  <1> QED
    BY <1>1, <1>2

(* A new call of Send orders its payload; one of EstimateGas, nothing.     *)
LEMMA BeginOrders ==
  ASSUME IInv, RecordsOK, NEW c \in Clients, NEW api \in Apis, NEW payload \in Payloads,
         NEW price \in GasPrices \cup {NoPrice}, BeginTx(c, api, payload, price)
  PROVE  UNCHANGED <<pool, mined>> /\ (Ordered' = Ordered \/ Ledger!Order)
  <1> DEFINE n == calls + 1
             Entry(why) == [api |-> api, payload |-> payload, res |-> Mark(why)]
  <1>1. n \in Calls /\ n > calls /\ UNCHANGED <<pool, mined>>
    BY DEF BeginTx, Calls, IInv, CallsOK, nodeVars
  <1>2. \E why \in {"running", "threw"} : journal' = [journal EXCEPT ![n] = Entry(why)]
    BY DEF BeginTx
  <1>3. /\ journal'[n].api = api /\ journal'[n].payload = payload
        /\ \A k \in Calls : k # n => journal'[k] = journal[k]
    BY <1>1, <1>2 DEF IInv, CallsOK
  <1>4. n \notin SendCalls
    BY <1>1 DEF SendCalls, RecordsOK, FutureEmpty
  <1>5. CASE api = "EstimateGas"
    <2>1. SendCalls' = SendCalls
      BY <1>3, <1>4, <1>5 DEF SendCalls
    <2>2. \A k \in SendCalls : journal'[k].payload = journal[k].payload
      BY <1>3, <1>4 DEF SendCalls
    <2>3. {journal'[k].payload : k \in SendCalls} = {journal[k].payload : k \in SendCalls}
      BY <2>2
    <2> QED
      BY <1>1, <2>1, <2>3 DEF Ordered, SendCalls
  <1>6. CASE api = "Send"
    <2>1. SendCalls' = SendCalls \cup {n}
      BY <1>1, <1>3, <1>4, <1>6 DEF SendCalls
    <2>2. \A k \in SendCalls : journal'[k].payload = journal[k].payload
      BY <1>3, <1>4 DEF SendCalls
    <2>3. {journal'[k].payload : k \in SendCalls \cup {n}}
            = {journal[k].payload : k \in SendCalls} \cup {payload}
      BY <1>3, <2>2
    <2>4. Ordered' = Ordered \cup {payload}
      BY <2>1, <2>3 DEF Ordered, SendCalls
    <2> QED
      BY <1>1, <2>4 DEF Ledger!Order
  <1> QED
    BY <1>1, <1>5, <1>6 DEF Apis

LEMMA StepRefines ==
  ASSUME IInv, RecordsOK, [Next]_vars
  PROVE  [Ledger!LedgerNext]_(Ledger!ledgerVars)
  <1> DEFINE Same == UNCHANGED <<Ordered, pool, mined>>
             Goal == [Ledger!LedgerNext]_(Ledger!ledgerVars)
  <1>0. Same => Goal
    BY DEF Ledger!ledgerVars
  <1>j. UNCHANGED journal => Ordered' = Ordered
    BY DEF Ordered
  <1>k. UNCHANGED <<journal, nodeVars>> => Same
    BY <1>j DEF nodeVars
  <1>c. ASSUME NEW c \in Clients, NEW res, NEW after, End(c, res, after), UNCHANGED nodeVars
        PROVE  Same
    BY <1>c, EndOrdersNothing DEF nodeVars
  <1> HIDE DEF Same, Goal
  <1>1. UNCHANGED vars => Goal
    BY <1>0, <1>k DEF vars, callVars
  <1>2. ASSUME NEW c \in Clients, Application(c)
        PROVE  Goal
    <2>1. CASE StartKnown(c) \/ StartLoad(c)
      BY <2>1, <1>0, <1>k DEF StartKnown, StartLoad, callVars
    <2>2. ASSUME NEW api \in Apis, NEW payload \in Payloads,
                 NEW price \in GasPrices \cup {NoPrice}, BeginTx(c, api, payload, price)
          PROVE  Goal
      BY <2>2, <1>0, BeginOrders DEF Same, Goal, Ledger!LedgerNext
    <2> QED
      BY <1>2, <2>1, <2>2 DEF Application
  <1>3. ASSUME NEW c \in Clients, Continue(c)
        PROVE  Goal
    <2>1. CASE StartLoaded(c) \/ StartFailed(c)
      BY <2>1, <1>0, <1>k DEF StartLoaded, StartFailed, callVars
    <2>2. CASE CountReply(c)
      BY <2>2, <1>0, <1>c, <1>k DEF CountReply, Close
    <2>3. CASE GasPriceReply(c)
      BY <2>3, <1>0, <1>c, <1>k DEF GasPriceReply, Close
    <2>4. CASE RawReply(c) \/ EstimateReply(c)
      BY <2>4, <1>0, <1>c DEF RawReply, EstimateReply, Close
    <2>5. CASE Fault(c)
      BY <2>5, <1>0, <1>c DEF Fault
    <2> QED
      BY <1>3, <2>1, <2>2, <2>3, <2>4, <2>5 DEF Continue
  <1>4. ASSUME NEW c \in Clients, World(c)
        PROVE  Goal
    <2>1. CASE ServeRead(c) \/ NodeFails(c) \/ Refuse(c) \/ TimeOut(c) \/ Spoil(c)
      BY <2>1, <1>0, <1>k DEF ServeRead, NodeFails, Refuse, TimeOut, Spoil, callVars
    <2>2. CASE ServeRaw(c)
      <3> DEFINE q == Request(c, op[c])
      <3>1. InFlight(c) /\ UNCHANGED journal /\ (Accept(q) \/ UNCHANGED nodeVars)
        BY <2>2 DEF ServeRaw, callVars
      <3>2. q \in Requests /\ q.tx.nonce <= Len(mined[q.tx.from])
        BY <3>1, RequestTyped DEF InFlight, IInv, SessionOK, NoncesPast, Request
      <3>3. q.tx.payload \in Ordered /\ Ordered' = Ordered
        BY <3>1, <1>j, RequestsAreOrdered
      <3>4. Accept(q) => Ledger!LedgerNext
        BY <3>2, <3>3, AcceptIsSubmit
      <3> QED
        BY <3>1, <3>4, <1>0, <1>k DEF Goal
    <2>3. CASE PowerLoss(c)
      BY <2>3, <1>0, <1>c DEF PowerLoss, Restart, Close
    <2> QED
      BY <1>4, <2>1, <2>2, <2>3 DEF World
  <1>5. ASSUME NEW q \in stray, StrayArrives(q) \/ StrayLost(q)
        PROVE  Goal
    <2>1. UNCHANGED journal /\ (Accept(q) \/ UNCHANGED nodeVars)
      BY <1>5 DEF StrayArrives, StrayLost, callVars
    <2>2. q \in Requests /\ q.tx.nonce <= Len(mined[q.tx.from])
      BY DEF IInv, NodeOK, StraysPast
    <2>3. Accept(q) => Ledger!LedgerNext
      BY <1>j, <2>1, <2>2, RequestsAreOrdered, AcceptIsSubmit
    <2> QED
      BY <2>1, <2>3, <1>0, <1>k DEF Goal
  <1>6. ASSUME NEW t \in pool, MineBlock(t)
        PROVE  Goal
    <2>1. Ledger!Confirm(t)
      BY <1>6, <1>j DEF MineBlock, Mine, callVars, Ledger!Confirm
    <2> QED
      BY <2>1 DEF Goal, Ledger!LedgerNext
  <1> QED
    BY <1>1, <1>2, <1>3, <1>4, <1>5, <1>6 DEF Next, Goal

LEMMA InitRefines == Init => Ledger!LedgerInit
  <1> SUFFICES ASSUME Init PROVE Ledger!LedgerInit
    OBVIOUS
  <1>1. SendCalls = {}
    BY DEF Init, SendCalls
  <1>2. Ordered = {}
    BY <1>1 DEF Ordered, SendCalls
  <1> QED
    BY <1>2 DEF Init, NodeInit, Ledger!LedgerInit

(* Chain.cpp:154-189: for any number of devices and accounts, whatever is  *)
(* lost, late or restarted, Send keeps what NonceLedger promises.          *)
THEOREM KeepsThePromise == Spec => KeepsLedger
  <1>1. IInv /\ RecordsOK /\ [Next]_vars => [Ledger!LedgerNext]_(Ledger!ledgerVars)
    BY StepRefines
  <1> QED
    BY <1>1, InitRefines, RecordsInductive, PTL DEF Spec, KeepsLedger, Ledger!LedgerSpec
===============================================================================
