----------------------------- MODULE MCGateway -----------------------------
(* Instances of the gateway for TLC.                                       *)
EXTENDS GatewayProperties, TLC

CONSTANTS refundA, refundB, cancelA, lost, absent, invalid, unknown, o1

MCToolOf ==
  [k \in Key |-> CASE k \in {cancelA, lost, absent} -> "cancel_order"
                   [] k = unknown -> UnknownTool
                   [] OTHER -> "issue_refund"]

MCOrderOf ==
  [k \in Key |-> CASE k = lost -> Missing [] k = absent -> Absent [] OTHER -> o1]

(* Both refunds ask for 1; the second one refunds the order completely.    *)
MCAmountOf == [k \in Key |-> IF k \in {refundA, refundB} THEN 1 ELSE 0]

MCTotal == [o \in Order |-> 2]

Symmetry == Permutations(Request) \cup Permutations({refundA, refundB})

=============================================================================
