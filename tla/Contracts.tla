----------------------------- MODULE Contracts -----------------------------
(***************************************************************************)
(* The two shipped contracts (contracts/issue_refund.yaml and              *)
(* contracts/cancel_order.yaml) and the arguments an intent carries, as    *)
(* far as the contracts, the executor and the downstream system tell       *)
(* arguments apart: the tool, the order it names and the refund's amount.  *)
(***************************************************************************)
EXTENDS Intents, Integers

CONSTANTS
  Order,      \* the orders the downstream store is seeded with
  ToolOf,     \* ToolOf[k]: the tool the intent k names
  OrderOf,    \* OrderOf[k]: its args.order_id
  AmountOf    \* AmountOf[k]: its args.amount; 0 is any amount that
              \* RefundRequest refuses

Tool == {"issue_refund", "cancel_order"}       \* the registry's contracts
UnknownTool == "unregistered"
Missing == "missing"                           \* args has no order_id
Absent == "absent"                             \* no order has that id

ASSUME ToolAssumption == ToolOf \in [Key -> Tool \cup {UnknownTool}]
ASSUME OrderAssumption ==
  /\ OrderOf \in [Key -> Order \cup {Missing, Absent}]
  /\ Missing \notin Order /\ Absent \notin Order
ASSUME AmountAssumption == AmountOf \in [Key -> Nat]

IsRefund(k) == ToolOf[k] = "issue_refund"
IsCancel(k) == ToolOf[k] = "cancel_order"

(* substitute_path raises when the template names an argument that is      *)
(* missing: /refunds names none, /orders/{args.order_id}/cancel names one. *)
ResolvesPath(k) == IsRefund(k) \/ OrderOf[k] # Missing

DefiniteFailureStatuses(k) ==
  IF IsRefund(k) THEN {400, 402, 404, 409, 422} ELSE {400, 404, 409, 422}

(* Mutant of Postcondition: the refund contract without its count.         *)
PostconditionWithoutCount(k, body) ==
  IF IsRefund(k) THEN body.refunded > 0 /\ body.refunded = AmountOf[k]
  ELSE body.status = "CANCELLED"

(* The contract's assertions, on the body of GET /orders/{args.order_id}.  *)
Postcondition(k, body) ==
  IF IsRefund(k)
  THEN /\ body.refunded > 0             \* body.refund.status == 'processed'
       /\ body.refunded = AmountOf[k]   \* body.refund.amount == args.amount
       /\ body.count = 1                \* body.refund.count == 1
  ELSE body.status = "CANCELLED"

=============================================================================
