-------------------------- MODULE DownstreamService --------------------------
(***************************************************************************)
(* The downstream service on its own, called by clients that may repeat an *)
(* intent under any fault profile, in any order.                           *)
(***************************************************************************)
EXTENDS Downstream, FiniteSetsExt

CONSTANT MaxRefunds      \* bound on the Refund records in the store

ASSUME MaxRefundsAssumption == MaxRefunds \in Nat

Init == StoreInit

(* A cancellation's path cannot be built without an order.                 *)
Call(k) ==
  /\ ToolOf[k] \in Tool /\ ResolvesPath(k)
  /\ Cardinality(refunds) < MaxRefunds
  /\ \E profile \in FaultProfile, response \in Response :
       Mutate(profile, k, response)

Next == (\E k \in Key : Call(k)) \/ Reset

Spec == Init /\ [][Next]_storeVars

-----------------------------------------------------------------------------
(* StatusFollowsMoney: the status of an order that is not cancelled says   *)
(* how much of it has been refunded, through partial writes, duplicate     *)
(* deliveries and resets (refunds.py, create_refund).                      *)
StatusFollowsMoney ==
  \A o \in Order :
    /\ status[o] = "PAID" => refunded[o] = 0
    /\ status[o] = "PARTIALLY_REFUNDED" => 0 < refunded[o] /\ refunded[o] < Total[o]
    /\ status[o] = "REFUNDED" => refunded[o] >= Total[o]

(* The amounts of records, added up.                                       *)
AmountIn(records) == MapThenSumSet(LAMBDA r : AmountOf[r.key], records)

RecordedAmount(o) == AmountIn(OrderRefunds(o))

(* NoMoneyWithoutRecord: an order is never credited more than its refund   *)
(* records add up to; a partial write leaves less.                         *)
NoMoneyWithoutRecord ==
  \A o \in Order : refunded[o] <= RecordedAmount(o)

(* A step refunds an order: its money moves, or its status does, and not   *)
(* to CANCELLED.                                                           *)
MoneyMoves(o) == refunded'[o] # refunded[o] \/ status'[o] \notin {status[o], "CANCELLED"}

(* RememberedKeyIsSpent: once the response for a key is cached, a call     *)
(* with that key changes nothing any more, whatever its profile (the       *)
(* idempotency check of create_refund); only a reset forgets it.  Its      *)
(* records stay as they are, and no order is refunded but on the records   *)
(* that a key not yet remembered leaves in the same step.                  *)
RememberedKeyIsSpent ==
  [][\A k \in processed :
       k \in processed' =>
         /\ RefundsOf(k)' = RefundsOf(k)
         /\ \A o \in Order :
              MoneyMoves(o) => \E j \in Key \ processed :
                                OrderOf[j] = o /\ RefundsOf(j)' # RefundsOf(j)]_storeVars

=============================================================================
