------------------------------ MODULE NonceLedger ------------------------------
(***************************************************************************)
(* What Send promises about the accounts of a chain, whatever devices,     *)
(* requests and restarts lie in between: payments are made one at a time   *)
(* per account.  A payment that was ordered may become the account's only  *)
(* pending transaction, in the place of a cheaper one; it carries the      *)
(* account's next nonce, so that a block can always take it.               *)
(***************************************************************************)
EXTENDS Integers, Sequences

CONSTANTS Accounts

VARIABLES
  ordered,    (* payloads the application has asked Send to pay             *)
  pending,    (* transactions waiting for a block                           *)
  mined       (* account -> sequence of its transactions in blocks          *)

ledgerVars == <<ordered, pending, mined>>

LedgerInit ==
  /\ ordered = {}
  /\ pending = {}
  /\ mined = [a \in Accounts |-> <<>>]

Order ==
  /\ \E p \in ordered' : ordered' = ordered \cup {p}
  /\ UNCHANGED <<pending, mined>>

Submit(t) ==
  /\ t.payload \in ordered
  /\ t.nonce = Len(mined[t.from])
  /\ \A u \in pending : u.from = t.from => u.price < t.price
  /\ pending' = {u \in pending : u.from # t.from} \cup {t}
  /\ UNCHANGED <<ordered, mined>>

Confirm(t) ==
  /\ pending' = pending \ {t}
  /\ mined' = [mined EXCEPT ![t.from] = Append(@, t)]
  /\ UNCHANGED ordered

LedgerNext ==
  \/ Order
  \/ \E t \in pending' : Submit(t)
  \/ \E t \in pending : Confirm(t)

LedgerSpec == LedgerInit /\ [][LedgerNext]_ledgerVars

===============================================================================
