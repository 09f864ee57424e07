----------------------------- MODULE ChainSession -----------------------------
(***************************************************************************)
(* Chain objects (Blockchain/Chain.cpp) on devices that share accounts,    *)
(* talking to one node over a network that refuses connections, times out, *)
(* loses or spoils answers and delivers abandoned requests late, while     *)
(* blocks are mined and devices restart at any moment.                     *)
(*                                                                         *)
(* Every call of Chain is a sequence of blocking HTTP exchanges, so a      *)
(* device has at most one exchange open: pc names its method.  One action  *)
(* is the code between two exchanges.                                      *)
(***************************************************************************)
EXTENDS EthRequest, EthNode

CONSTANTS
  Clients,       (* the Chain objects, each on a device of its own          *)
  AccountOf,     (* client -> the account its Account argument holds        *)
  ConfiguredId,  (* client -> chain id given to the constructor, or 0       *)
  StartedInit,   (* what `started' may hold after construction, which does  *)
                 (* not assign it: {FALSE} for an object of static storage, *)
                 (* BOOLEAN for one on the stack or the heap                *)
  SafeRetry,     (* TRUE: the application repeats a payment only after a    *)
                 (* result that says it was not made                        *)
  MaxCalls,      (* bound on the number of Send and EstimateGas calls       *)
  NoReply        (* the exchange is still open                              *)

ASSUME SessionAssumption ==
  /\ AccountOf \in [Clients -> Accounts]
  /\ ConfiguredId \in [Clients -> {0, NodeChainId}]
  /\ StartedInit # {} /\ StartedInit \subseteq BOOLEAN
  /\ SafeRetry \in BOOLEAN
  /\ MaxCalls \in Nat
  /\ NoReply \notin Replies

Calls == 1..MaxCalls
NoPrice == 0                                   (* gasPrice == nullptr       *)
Apis == {"Send", "EstimateGas"}

(* Methods that pass AssertStarted, and all values of pc.                  *)
GuardedMethods == {"eth_getTransactionCount", "eth_gasPrice",
                   "eth_sendRawTransaction", "eth_estimateGas"}
Methods == GuardedMethods \cup {"eth_chainId"}

(* The local variables of the running Send or EstimateGas.                 *)
Ops == [api : Apis, call : Calls, payload : Payloads,
        price : GasPrices \cup {NoPrice}, nonce : Nat]
NoOp == [api |-> "none", call |-> 0]

(* What the application knows of a call: running, thrown out of, forgotten *)
(* in a restart, or the Result it returned.                                *)
Mark(why) == [why |-> why, code |-> 0, val |-> 0]
Outcomes == Results \cup {Mark("unused"), Mark("running"), Mark("threw"), Mark("lost")}
Requests == [call : Calls, tx : Transactions]

VARIABLES
  started, id,   (* the fields of the Chain objects                         *)
  pc,            (* method of the open exchange, "idle", or "crashed" when  *)
                 (* the program died in a call                              *)
  op,            (* locals of the running call                              *)
  reply,         (* what the facade will return for the open exchange       *)
  stray,         (* raw transactions still under way to the node after the  *)
                 (* device gave up on their exchange                        *)
  calls,         (* number of calls made                                    *)
  journal,       (* call -> what it was asked to do and how it ended        *)
  accepted,      (* history: the requests the node took into its pool       *)
  startReturned  (* history: Start() returned true since the last restart   *)

fieldVars == <<started, id, startReturned>>
callVars == <<op, calls, journal>>
vars == <<fieldVars, callVars, pc, reply, stray, accepted, nodeVars>>

Init ==
  /\ NodeInit
  /\ started \in [Clients -> StartedInit]
  /\ id = ConfiguredId
  /\ startReturned = [c \in Clients |-> FALSE]
  /\ pc = [c \in Clients |-> "idle"]
  /\ op = [c \in Clients |-> NoOp]
  /\ reply = [c \in Clients |-> NoReply]
  /\ stray = {}
  /\ calls = 0
  /\ journal = [k \in Calls |-> [api |-> "none", res |-> Mark("unused")]]
  /\ accepted = {}

-------------------------------------------------------------------------------
(* Exchanges                                                               *)

Request(c, o) ==
  [call |-> o.call,
   tx |-> [from |-> AccountOf[c], nonce |-> o.nonce, price |-> o.price,
           payload |-> o.payload, chainId |-> id[c]]]

(* MakeRequst up to the blocking SendRequest.                              *)
Issue(c, method) ==
  /\ pc' = [pc EXCEPT ![c] = method]
  /\ reply' = [reply EXCEPT ![c] = NoReply]

Received(c, method) == pc[c] = method /\ reply[c] # NoReply
Got(c) == DoRequestYo(reply[c])
Quiet(c) == pc[c] = "idle"
InFlight(c) == pc[c] = "eth_sendRawTransaction" /\ reply[c] = NoReply

\* A broken twin of the next definition.
EndKeepsLocals(c, res, after) ==
  /\ pc' = [pc EXCEPT ![c] = after]
  /\ reply' = [reply EXCEPT ![c] = NoReply]
  /\ journal' = [k \in Calls |-> IF k = op[c].call
                                 THEN [journal[k] EXCEPT !.res = res]
                                 ELSE journal[k]]
  /\ UNCHANGED <<op, calls>>

(* The running call, if there is one, ends with the outcome res and leaves *)
(* the program in the state after.                                         *)
End(c, res, after) ==
  /\ pc' = [pc EXCEPT ![c] = after]
  /\ reply' = [reply EXCEPT ![c] = NoReply]
  /\ op' = [op EXCEPT ![c] = NoOp]
  /\ journal' = [k \in Calls |-> IF k = op[c].call
                                 THEN [journal[k] EXCEPT !.res = res]
                                 ELSE journal[k]]
  /\ UNCHANGED calls

Close(c, res) == End(c, res, "idle")

(* The device starts over, running or crashed: nothing is kept, and a      *)
(* request that left it may still reach the node.                          *)
Restart(c) ==
  /\ \E s \in StartedInit : started' = [started EXCEPT ![c] = s]
  /\ id' = [id EXCEPT ![c] = ConfiguredId[c]]
  /\ startReturned' = [startReturned EXCEPT ![c] = FALSE]
  /\ Close(c, Mark("lost"))
  /\ stray' = IF InFlight(c) THEN stray \cup {Request(c, op[c])} ELSE stray
  /\ UNCHANGED <<accepted, nodeVars>>

-------------------------------------------------------------------------------
(* Start()                                                                 *)

(* The chain id was given to the constructor: no request.                  *)
StartKnown(c) ==
  /\ Quiet(c)
  /\ id[c] # 0
  /\ started' = [started EXCEPT ![c] = TRUE]
  /\ startReturned' = [startReturned EXCEPT ![c] = TRUE]
  /\ UNCHANGED <<id, callVars, pc, reply, stray, accepted, nodeVars>>

StartLoad(c) ==
  /\ Quiet(c)
  /\ id[c] = 0
  /\ Issue(c, "eth_chainId")
  /\ UNCHANGED <<fieldVars, callVars, stray, accepted, nodeVars>>

StartLoaded(c) ==
  /\ Received(c, "eth_chainId")
  /\ Got(c).why = "value"
  /\ id' = [id EXCEPT ![c] = Got(c).val]
  /\ started' = [started EXCEPT ![c] = TRUE]
  /\ startReturned' = [startReturned EXCEPT ![c] = TRUE]
  /\ pc' = [pc EXCEPT ![c] = "idle"]
  /\ reply' = [reply EXCEPT ![c] = NoReply]
  /\ UNCHANGED <<callVars, stray, accepted, nodeVars>>

StartFailed(c) ==
  /\ Received(c, "eth_chainId")
  /\ ~HasValue(Got(c))
  /\ pc' = [pc EXCEPT ![c] = "idle"]
  /\ reply' = [reply EXCEPT ![c] = NoReply]
  /\ UNCHANGED <<fieldVars, callVars, stray, accepted, nodeVars>>

-------------------------------------------------------------------------------
(* Send() and EstimateGas(), which are the same up to the last exchange    *)

(* The application decides to make a payment (again).  With SafeRetry it   *)
(* does so only when every earlier attempt ended with a result that says   *)
(* the payment was not made.                                               *)
NotMade(res) ==
  \/ res.why \in {"nonce", "gasPrice", "node", "threw"}
  \/ res.why = "http" /\ res.code = -1
AttemptsAt(payload) ==
  {k \in Calls : journal[k].api = "Send" /\ journal[k].payload = payload}
MayAttempt(api, payload) ==
  SafeRetry /\ api = "Send" =>
    \A k \in AttemptsAt(payload) : NotMade(journal[k].res)

\* A broken twin of the next definition.
AssertNothing(c) == TRUE
AssertStarted(c) == started[c]

(* GetTransactionCount is the first statement of both; a Chain that is not *)
(* started throws there (on a microcontroller the assert restarts it).     *)
BeginTx(c, api, payload, price) ==
  /\ Quiet(c)
  /\ calls < MaxCalls
  /\ MayAttempt(api, payload)
  /\ calls' = calls + 1
  /\ LET Entry(why) == [api |-> api, payload |-> payload, res |-> Mark(why)]
     IN \/ /\ AssertStarted(c)
           /\ journal' = [journal EXCEPT ![calls + 1] = Entry("running")]
           /\ op' = [op EXCEPT ![c] = [api |-> api, call |-> calls + 1,
                       payload |-> payload, price |-> price, nonce |-> 0]]
           /\ Issue(c, "eth_getTransactionCount")
        \/ /\ ~AssertStarted(c)
           /\ journal' = [journal EXCEPT ![calls + 1] = Entry("threw")]
           /\ UNCHANGED <<op, pc, reply>>
  /\ UNCHANGED <<fieldVars, stray, accepted, nodeVars>>

LastMethod(api) ==
  IF api = "Send" THEN "eth_sendRawTransaction" ELSE "eth_estimateGas"

\* A broken twin of the next definition.
NextNonce(res) == res.val + 1
NonceOf(res) == res.val

CountReply(c) ==
  /\ Received(c, "eth_getTransactionCount")
  /\ LET res == Got(c)
     IN \/ /\ ~HasValue(res)
           /\ Close(c, Err(-1, "nonce"))
        \/ /\ res.why = "value"
           /\ op' = [op EXCEPT ![c].nonce = NonceOf(res)]
           /\ Issue(c, IF op[c].price = NoPrice THEN "eth_gasPrice"
                       ELSE LastMethod(op[c].api))
           /\ UNCHANGED <<calls, journal>>
  /\ UNCHANGED <<fieldVars, stray, accepted, nodeVars>>

\* A broken twin of the next definition.
GasPriceAsksAgain(c) ==
  /\ Received(c, "eth_gasPrice")
  /\ LET res == Got(c)
     IN \/ /\ ~HasValue(res)
           /\ Issue(c, "eth_gasPrice")
           /\ UNCHANGED callVars
        \/ /\ res.why = "value"
           /\ op' = [op EXCEPT ![c].price = res.val]
           /\ Issue(c, LastMethod(op[c].api))
           /\ UNCHANGED <<calls, journal>>
  /\ UNCHANGED <<fieldVars, stray, accepted, nodeVars>>

GasPriceReply(c) ==
  /\ Received(c, "eth_gasPrice")
  /\ LET res == Got(c)
     IN \/ /\ ~HasValue(res)
           /\ Close(c, Err(-41, "gasPrice"))
        \/ /\ res.why = "value"
           /\ op' = [op EXCEPT ![c].price = res.val]
           /\ Issue(c, LastMethod(op[c].api))
           /\ UNCHANGED <<calls, journal>>
  /\ UNCHANGED <<fieldVars, stray, accepted, nodeVars>>

\* A broken twin of the next definition.
RawReplyBlamesNonce(c) ==
  /\ Received(c, "eth_sendRawTransaction")
  /\ Close(c, IF HasValue(Got(c)) THEN Got(c) ELSE Err(-1, "nonce"))
  /\ UNCHANGED <<fieldVars, stray, accepted, nodeVars>>

(* Send hands the result on, a null hash included.                         *)
RawReply(c) ==
  /\ Received(c, "eth_sendRawTransaction")
  /\ Close(c, Got(c))
  /\ UNCHANGED <<fieldVars, stray, accepted, nodeVars>>

EstimateReply(c) ==
  /\ Received(c, "eth_estimateGas")
  /\ Got(c).why # "null"
  /\ Close(c, Got(c))
  /\ UNCHANGED <<fieldVars, stray, accepted, nodeVars>>

(* Everywhere but at the end of Send a null result is dereferenced: the    *)
(* program dies, and its call never returns.  It does nothing more until   *)
(* the device starts over.                                                 *)
Fault(c) ==
  /\ pc[c] # "eth_sendRawTransaction"
  /\ reply[c] # NoReply
  /\ Got(c).why = "null"
  /\ End(c, Mark("lost"), "crashed")
  /\ UNCHANGED <<fieldVars, stray, accepted, nodeVars>>

PowerLoss(c) == Restart(c)

-------------------------------------------------------------------------------
(* The node, the network and the chain of blocks                           *)

Deliver(c, r) == reply' = [reply EXCEPT ![c] = r]
Open(c) == pc[c] \in Methods /\ reply[c] = NoReply

\* A broken twin of the next definition.
PendingTag == "pending"
(* The block at which GetTransactionCount asks for the count.              *)
CountTag == "latest"

ReadAnswers(c) ==
  IF pc[c] = "eth_chainId" THEN {NodeChainId}
  ELSE IF pc[c] = "eth_getTransactionCount"
    THEN {TransactionCount(AccountOf[c], CountTag)}
  ELSE IF pc[c] = "eth_gasPrice" THEN GasPrices
  ELSE {0}

ServeRead(c) ==
  /\ Open(c)
  /\ pc[c] # "eth_sendRawTransaction"
  /\ \E v \in ReadAnswers(c) : Deliver(c, Answer(v))
  /\ UNCHANGED <<fieldVars, callVars, pc, stray, accepted, nodeVars>>

Accept(q) ==
  /\ Acceptable(q.tx)
  /\ pool' = PoolWith(q.tx)
  /\ accepted' = accepted \cup {q}
  /\ UNCHANGED mined

ServeRaw(c) ==
  /\ InFlight(c)
  /\ LET q == Request(c, op[c])
     IN \/ Accept(q) /\ Deliver(c, Answer(0))
        \/ /\ ~Acceptable(q.tx)
           /\ Deliver(c, NodeError)
           /\ UNCHANGED <<accepted, nodeVars>>
  /\ UNCHANGED <<fieldVars, callVars, pc, stray>>

(* The node answers with an error or with a null result, and does nothing. *)
NodeFails(c) ==
  /\ Open(c)
  /\ \E r \in {NodeError, NullAnswer} : Deliver(c, r)
  /\ UNCHANGED <<fieldVars, callVars, pc, stray, accepted, nodeVars>>

Refuse(c) ==
  /\ Open(c)
  /\ Deliver(c, Refused)
  /\ UNCHANGED <<fieldVars, callVars, pc, stray, accepted, nodeVars>>

(* The facade gives up on the exchange; what it sent may still arrive.     *)
TimeOut(c) ==
  /\ Open(c)
  /\ Deliver(c, TimedOut)
  /\ stray' = IF InFlight(c) THEN stray \cup {Request(c, op[c])} ELSE stray
  /\ UNCHANGED <<fieldVars, callVars, pc, accepted, nodeVars>>

(* The answer is lost, or a proxy replaces it, after the node acted on it. *)
Spoil(c) ==
  /\ pc[c] \in Methods /\ reply[c] # NoReply
  /\ reply[c].status = HTTP_OK /\ reply[c].body \in {"string", "null", "error"}
  /\ \E r \in Spoiled : Deliver(c, r)
  /\ UNCHANGED <<fieldVars, callVars, pc, stray, accepted, nodeVars>>

StrayArrives(q) ==
  /\ q \in stray
  /\ stray' = stray \ {q}
  /\ \/ Accept(q)
     \/ ~Acceptable(q.tx) /\ UNCHANGED <<accepted, nodeVars>>
  /\ UNCHANGED <<fieldVars, callVars, pc, reply>>

StrayLost(q) ==
  /\ q \in stray
  /\ stray' = stray \ {q}
  /\ UNCHANGED <<fieldVars, callVars, pc, reply, accepted, nodeVars>>

MineBlock(t) ==
  /\ Mine(t)
  /\ UNCHANGED <<fieldVars, callVars, pc, reply, stray, accepted>>

-------------------------------------------------------------------------------
(* What the code of a device does next once its exchange is answered.      *)
Continue(c) ==
  \/ StartLoaded(c)
  \/ StartFailed(c)
  \/ CountReply(c)
  \/ GasPriceReply(c)
  \/ RawReply(c)
  \/ EstimateReply(c)
  \/ Fault(c)

Application(c) ==
  \/ StartKnown(c)
  \/ StartLoad(c)
  \/ \E api \in Apis, payload \in Payloads, price \in GasPrices \cup {NoPrice} :
       BeginTx(c, api, payload, price)

World(c) ==
  \/ ServeRead(c)
  \/ ServeRaw(c)
  \/ NodeFails(c)
  \/ Refuse(c)
  \/ TimeOut(c)
  \/ Spoil(c)
  \/ PowerLoss(c)

Next ==
  \/ \E c \in Clients : Application(c) \/ Continue(c) \/ World(c)
  \/ \E q \in stray : StrayArrives(q) \/ StrayLost(q)
  \/ \E t \in pool : MineBlock(t)

Spec == Init /\ [][Next]_vars

(* The code between two exchanges runs to the next one, and the facade of  *)
(* the microcontrollers gives up on an exchange after its time-out.  The   *)
(* node, the miners and the application promise nothing.                   *)
Fairness == \A c \in Clients : WF_vars(Continue(c)) /\ WF_vars(TimeOut(c))
FairSpec == Spec /\ Fairness

-------------------------------------------------------------------------------
(* Properties                                                              *)

Busy(c) == pc[c] \in GuardedMethods
Entries == [api : Apis, payload : Payloads, res : Outcomes]
             \cup {[api |-> "none", res |-> Mark("unused")]}

(* Every variable has its type, and a device has the locals of a call      *)
(* exactly while Send or EstimateGas runs on it.                           *)
TypeOK ==
  /\ started \in [Clients -> BOOLEAN]
  /\ startReturned \in [Clients -> BOOLEAN]
  /\ id \in [Clients -> {0, NodeChainId}]
  /\ pc \in [Clients -> Methods \cup {"idle", "crashed"}]
  /\ op \in [Clients -> Ops \cup {NoOp}]
  /\ \A c \in Clients : Busy(c) <=> op[c] \in Ops
  /\ reply \in [Clients -> Replies \cup {NoReply}]
  /\ stray \subseteq Requests
  /\ accepted \subseteq Requests
  /\ calls \in 0..MaxCalls
  /\ journal \in [Calls -> Entries]
  /\ mined \in [Accounts -> Seq(Transactions)]
  /\ pool \subseteq Transactions

(* Chain.cpp:158-165, 179.  However many devices share an account, and     *)
(* however late a request arrives, a transaction the node accepted never   *)
(* waits for another one: its nonce is the next of its account.            *)
NoNonceGap == \A t \in pool : t.nonce = Len(mined[t.from])

(* Chain.cpp:184-187.  A Result with a hash means that the node has the    *)
(* transaction of this very call.                                          *)
SendResultSound ==
  \A k \in Calls :
    journal[k].api = "Send" /\ journal[k].res.why = "value" =>
      \E q \in accepted : q.call = k /\ q.tx.payload = journal[k].payload

(* Requests that the node has, may still get or may have answered.         *)
InDoubt(k) ==
  \/ \E q \in accepted \cup stray : q.call = k
  \/ \E c \in Clients : pc[c] = "eth_sendRawTransaction" /\ op[c].call = k

(* Chain.cpp:160-163, 172-175, 274-280.  When Send fails before it sends,  *)
(* the payment has not been made and cannot be made any more.              *)
EarlyErrorMeansNotSent ==
  \A k \in Calls :
    journal[k].res.why \in {"nonce", "gasPrice", "threw"} => ~InDoubt(k)

(* Chain.cpp:162 and ESPNetwork.cpp:117-121.  The code -1 stands both for  *)
(* a missing nonce and for a refused connection; either way the payment    *)
(* was not made and will not be.                                           *)
MinusOneMeansNotSent ==
  \A k \in Calls : journal[k].res.code = -1 => ~InDoubt(k)

(* Chain.cpp:274-280.  A request that needs a started Chain is only made   *)
(* after Start() returned true, hence with the chain id it signs for.      *)
CallsOnlyAfterStart ==
  \A c \in Clients :
    pc[c] \in GuardedMethods => startReturned[c] /\ id[c] = NodeChainId

(* Chain.cpp:217.  EstimateGas signs the transaction it asks about, but    *)
(* never has it executed.                                                  *)
EstimateNeverSubmits ==
  \A q \in accepted : journal[q.call].api = "Send"

(* Chain.cpp:154-189.  An application that repeats a payment only after a  *)
(* result that says it was not made pays at most once, whatever the        *)
(* network, the node and restarts do.                                      *)
PaidAtMostOnce ==
  SafeRetry =>
    \A a, b \in Accounts : \A i \in DOMAIN mined[a], j \in DOMAIN mined[b] :
      mined[a][i].payload = mined[b][j].payload => a = b /\ i = j

(* Chain.h:65-124.  Every method returns a Result, so every call returns,  *)
(* whatever the node answers.                                              *)
CallsReturn == \A c \in Clients : pc[c] # "idle" ~> pc[c] = "idle"

(* Chain.cpp:154-189, 191-227.  As long as no exchange but the last one of *)
(* Send is answered with null, every call returns: each exchange ends by   *)
(* its time-out, and no reply makes a call start an exchange over.         *)
NullRead(c) ==
  pc[c] # "eth_sendRawTransaction" /\ reply[c] # NoReply /\ Got(c).why = "null"
CallsReturnUnlessNull ==
  \A c \in Clients : []~NullRead(c) => (pc[c] # "idle" ~> pc[c] = "idle")

(* Chain.h:104: GetTransactionCount is "the number of transactions made.   *)
(* Used for calculating nonce."  Then no two transactions the node         *)
(* accepted from different calls of Send have the same nonce.              *)
NonceCountsTransactionsMade ==
  \A q, r \in accepted : q.call # r.call => ~SameSlot(q.tx, r.tx)

(* The devices, the network and the node together keep the promise of      *)
(* NonceLedger: one pending payment per account, ordered, next in turn.    *)
Ordered == {journal[k].payload : k \in {j \in Calls : journal[j].api = "Send"}}
Ledger == INSTANCE NonceLedger WITH ordered <- Ordered, pending <- pool
KeepsLedger == Ledger!LedgerSpec

===============================================================================
