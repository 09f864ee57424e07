------------------------------ MODULE EthRequest ------------------------------
(***************************************************************************)
(* One JSON-RPC exchange of the Chain class: what DoRequestYo              *)
(* (Blockchain/Internal/Chain_ethRequest.cpp) makes of the HttpResponse    *)
(* that the network facade hands back.                                     *)
(*                                                                         *)
(* A response is its HTTP status and the shape of its body.  The payload   *)
(* of a result is a number: a chain id, a transaction count or a price;    *)
(* the hash that answers eth_sendRawTransaction is the number 0.           *)
(***************************************************************************)
EXTENDS Integers

CONSTANTS
  RefusedStatus,  (* facade status when no connection could be opened       *)
  TimeoutStatus   (* facade status when a request got no complete response  *)

ASSUME StatusAssumption ==
  /\ RefusedStatus \in Int /\ RefusedStatus < 100
  /\ TimeoutStatus \in Int /\ TimeoutStatus < 100

HTTP_OK == 200
GatewayStatus == 502        (* any HTTP status other than 200               *)
NodeErrorCode == -32000     (* the code of a JSON-RPC error object          *)

(***************************************************************************)
(* Body shapes: "none" no body, "garbled" not JSON, "string" a result      *)
(* string, "null" a result that is JSON null (with or without an error     *)
(* object beside it), "error" an error object and no result, "neither" a   *)
(* JSON value with neither key.                                            *)
(***************************************************************************)
Bodies == {"none", "garbled", "string", "null", "error", "neither"}
Statuses == {HTTP_OK, GatewayStatus, RefusedStatus, TimeoutStatus}
Replies == [status : Statuses, body : Bodies, val : Nat]

Reply(status, body, val) == [status |-> status, body |-> body, val |-> val]
Answer(v) == Reply(HTTP_OK, "string", v)
NodeError == Reply(HTTP_OK, "error", 0)
NullAnswer == Reply(HTTP_OK, "null", 0)
Refused == Reply(RefusedStatus, "none", 0)
TimedOut == Reply(TimeoutStatus, "none", 0)

(* Answers that no longer carry what the node computed.                    *)
Spoiled == {TimedOut, Reply(GatewayStatus, "garbled", 0),
            Reply(HTTP_OK, "garbled", 0), Reply(HTTP_OK, "neither", 0)}

(***************************************************************************)
(* Result<T>: "value" and "null" have HasValue(), every other `why' is the *)
(* message of an error and `code' its ErrorCode().                         *)
(***************************************************************************)
Whys == {"value", "null", "http", "parse", "invalid", "node",
         "nonce", "gasPrice"}
Results == [why : Whys, code : Int, val : Nat]

Value(v) == [why |-> "value", code |-> 0, val |-> v]
NullValue == [why |-> "null", code |-> 0, val |-> 0]
Err(code, why) == [why |-> why, code |-> code, val |-> 0]
HasValue(res) == res.why \in {"value", "null"}

(* Variants: an error object handed on as if it were a result, and one     *)
(* code for every transport failure (the code CurlNetwork.cpp:80 uses).    *)
ErrorAsResult(r) ==
  IF r.status # HTTP_OK THEN Err(r.status, "http")
  ELSE IF r.body \in {"none", "garbled"} THEN Err(-2, "parse")
  ELSE IF r.body \in {"string", "error"} THEN Value(r.val)
  ELSE IF r.body = "null" THEN NullValue
  ELSE Err(-3, "invalid")
OneTransportCode(r) ==
  IF r.status < 100 THEN Err(-1, "http")
  ELSE IF r.status # HTTP_OK THEN Err(r.status, "http")
  ELSE IF r.body \in {"none", "garbled"} THEN Err(-2, "parse")
  ELSE IF r.body = "string" THEN Value(r.val)
  ELSE IF r.body = "null" THEN NullValue
  ELSE IF r.body = "error" THEN Err(NodeErrorCode, "node")
  ELSE Err(-3, "invalid")

(* The status is looked at before the body, and "result" before "error".   *)
DoRequestYo(r) ==
  IF r.status # HTTP_OK THEN Err(r.status, "http")
  ELSE IF r.body \in {"none", "garbled"} THEN Err(-2, "parse")
  ELSE IF r.body = "string" THEN Value(r.val)
  ELSE IF r.body = "null" THEN NullValue
  ELSE IF r.body = "error" THEN Err(NodeErrorCode, "node")
  ELSE Err(-3, "invalid")

===============================================================================
