----------------------------- MODULE Downstream -----------------------------
(***************************************************************************)
(* The orders-and-payments service (src/downstream_mock): its store and    *)
(* the handlers of POST /refunds, POST /orders/{id}/cancel, GET            *)
(* /orders/{id} and POST /reset.  A handler runs without an await between  *)
(* its first read of the store and its last write, so each is one step.    *)
(***************************************************************************)
EXTENDS Contracts, FiniteSets

CONSTANT Total      \* Total[o]: total_amount of the seeded order o

ASSUME TotalAssumption == Total \in [Order -> Nat \ {0}]

VARIABLES
  status,      \* status[o]: Order.status
  refunded,    \* refunded[o]: Order.refunded_amount
  refunds,     \* the Refund records, each of an idempotency key
  processed,   \* processed_idempotency_keys: keys with a cached response
  cancelled    \* history variable: the keys whose cancellation was written

storeVars == <<status, refunded, refunds, processed, cancelled>>

OrderStatus == {"PAID", "CANCELLED", "REFUNDED", "PARTIALLY_REFUNDED"}

FaultProfile == {"none", "timeout_after_commit", "empty_200",
                 "duplicate_delivery", "partial_write"}

(* What the caller sees: a 2xx with a body, a 2xx without one, a           *)
(* validation error, an unknown order, or nothing before its timeout.      *)
Response == {"confirmed", "blank", "unprocessable", "not_found", "late"}

StatusCode(response) ==
  CASE response \in {"confirmed", "blank"} -> 200
    [] response = "unprocessable" -> 422
    [] response = "not_found" -> 404
    [] response = "late" -> 0

StoreTypeOK ==
  /\ status \in [Order -> OrderStatus]
  /\ refunded \in [Order -> Nat]
  /\ refunds \subseteq [key : Key, id : Nat]
  /\ processed \subseteq Key
  /\ cancelled \subseteq Key

StoreInit ==
  /\ status = [o \in Order |-> "PAID"]
  /\ refunded = [o \in Order |-> 0]
  /\ refunds = {}
  /\ processed = {}
  /\ cancelled = {}

RefundsOf(k) == {r \in refunds : r.key = k}

OrderRefunds(o) == {r \in refunds : OrderOf[r.key] = o}

-----------------------------------------------------------------------------
(* n new Refund records of k.                                              *)
AddRefunds(k, n) ==
  refunds' = refunds \cup
    {[key |-> k, id |-> Cardinality(RefundsOf(k)) + i] : i \in 1 .. n}

(* Mutants of Credit: the amount is taken off; the last cent is missed.    *)
Debit(k, n) ==
  LET o == OrderOf[k]
      sum == refunded[o] - n * AmountOf[k]
  IN /\ refunded' = [refunded EXCEPT ![o] = sum]
     /\ status' = [status EXCEPT ![o] = IF sum >= Total[o] THEN "REFUNDED"
                                        ELSE "PARTIALLY_REFUNDED"]

CreditStrictly(k, n) ==
  LET o == OrderOf[k]
      sum == refunded[o] + n * AmountOf[k]
  IN /\ refunded' = [refunded EXCEPT ![o] = sum]
     /\ status' = [status EXCEPT ![o] = IF sum > Total[o] THEN "REFUNDED"
                                        ELSE "PARTIALLY_REFUNDED"]

(* refunded_amount grows by n times the amount and the status follows it,  *)
(* whatever the status was.                                                *)
Credit(k, n) ==
  LET o == OrderOf[k]
      sum == refunded[o] + n * AmountOf[k]
  IN /\ refunded' = [refunded EXCEPT ![o] = sum]
     /\ status' = [status EXCEPT ![o] = IF sum >= Total[o] THEN "REFUNDED"
                                        ELSE "PARTIALLY_REFUNDED"]

(* Mutant of Refund: a duplicate delivery leaves one record.               *)
RefundRecordedOnce(k, n) == AddRefunds(k, 1) /\ Credit(k, n)

Refund(k, n) == AddRefunds(k, n) /\ Credit(k, n)

(* The profiles of create_refund, once the order is known and the key is   *)
(* not one with a cached response.                                         *)
RefundUnder(profile, k, response) ==
  /\ UNCHANGED cancelled
  /\ \/ /\ profile = "none"
        /\ Refund(k, 1)
        /\ processed' = processed \cup {k}
        /\ response = "confirmed"
     \/ /\ profile = "timeout_after_commit"
        /\ Refund(k, 1)
        /\ processed' = processed \cup {k}
        /\ response = "late"
     \/ /\ profile = "empty_200"
        /\ Refund(k, 1) \/ UNCHANGED <<status, refunded, refunds>>
        /\ UNCHANGED processed
        /\ response = "blank"
     \/ /\ profile = "duplicate_delivery"
        /\ Refund(k, 2)
        /\ UNCHANGED processed
        /\ response = "confirmed"
     \/ /\ profile = "partial_write"
        /\ AddRefunds(k, 1)
        /\ UNCHANGED <<status, refunded, processed>>
        /\ response = "confirmed"

(* Mutant of Remembered: the idempotency check is dropped.                 *)
NeverRemembered(k) == FALSE

(* The key has a cached response, which is returned again.                 *)
Remembered(k) == k \in processed

(* POST /refunds: the body is validated before the handler runs.           *)
CreateRefund(profile, k, response) ==
  \/ /\ OrderOf[k] = Missing \/ AmountOf[k] = 0
     /\ response = "unprocessable"
     /\ UNCHANGED storeVars
  \/ /\ OrderOf[k] = Absent /\ AmountOf[k] > 0
     /\ response = "not_found"
     /\ UNCHANGED storeVars
  \/ /\ OrderOf[k] \in Order /\ AmountOf[k] > 0
     /\ Remembered(k)
     /\ response = "confirmed"
     /\ UNCHANGED storeVars
  \/ /\ OrderOf[k] \in Order /\ AmountOf[k] > 0
     /\ ~ Remembered(k)
     /\ RefundUnder(profile, k, response)

SetCancelled(k) ==
  /\ status' = [status EXCEPT ![OrderOf[k]] = "CANCELLED"]
  /\ cancelled' = cancelled \cup {k}

(* POST /orders/{id}/cancel: no key is remembered, and no status refuses.  *)
CancelOrder(profile, k, response) ==
  /\ UNCHANGED <<refunded, refunds, processed>>
  /\ \/ /\ OrderOf[k] = Absent
        /\ response = "not_found"
        /\ UNCHANGED <<status, cancelled>>
     \/ /\ OrderOf[k] \in Order
        /\ \/ /\ profile = "empty_200"
              /\ SetCancelled(k) \/ UNCHANGED <<status, cancelled>>
              /\ response = "blank"
           \/ /\ profile = "timeout_after_commit"
              /\ SetCancelled(k)
              /\ response = "late"
           \/ /\ profile = "partial_write"
              /\ UNCHANGED <<status, cancelled>>
              /\ response = "confirmed"
           \/ /\ profile \in {"none", "duplicate_delivery"}
              /\ SetCancelled(k)
              /\ response = "confirmed"

(* The endpoint a contract's call reaches.                                 *)
Mutate(profile, k, response) ==
  \/ IsRefund(k) /\ CreateRefund(profile, k, response)
  \/ IsCancel(k) /\ CancelOrder(profile, k, response)

(* Whether the downstream system shows an effect of the intent k.          *)
HasEffect(k) == RefundsOf(k) # {} \/ k \in cancelled

(* GET /orders/{id}: 404, or the fields the assertions look at.            *)
OrderStatusCode(o) == IF o \in Order THEN 200 ELSE 404

OrderBody(o) ==
  [status |-> status[o], refunded |-> refunded[o],
   count |-> Cardinality(OrderRefunds(o))]

(* POST /reset forgets everything and seeds the orders again.              *)
Reset ==
  /\ status' = [o \in Order |-> "PAID"]
  /\ refunded' = [o \in Order |-> 0]
  /\ refunds' = {}
  /\ processed' = {}
  /\ cancelled' = {}

=============================================================================
