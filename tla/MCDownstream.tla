---------------------------- MODULE MCDownstream ----------------------------
(* An instance of the downstream service and of the verification that      *)
(* reads from it for TLC.  Amounts are whole or decimal numbers and True;  *)
(* one refund has no amount, and some calls name no order or one that is   *)
(* not there.                                                              *)
EXTENDS Verification, MCTrees, PyValues

CONSTANTS integral, decimal, boolean, unpriced, astray, lost, cancel, absent, unnamed

Refunds == {integral, decimal, boolean, unpriced, astray, lost}

MCToolOf == [k \in Key |-> IF k \in Refunds THEN "issue_refund" ELSE "cancel_order"]

OnOrder(fields) == Object([order_id |-> Str("o1")] @@ fields)

MCArgsOf ==
  [k \in Key |->
     CASE k = integral -> OnOrder([amount |-> Integer(1)])
       [] k = decimal -> OnOrder([amount |-> Float(2, 1)])
       [] k = boolean -> OnOrder([amount |-> Bool(TRUE)])
       [] k = unpriced -> OnOrder([amount |-> None])
       [] k = astray -> Object([order_id |-> Str("o9"), amount |-> Integer(1)])
       [] k = lost -> Object([amount |-> Integer(1)])
       [] k = cancel -> Object([order_id |-> Str("o1")])
       [] k = absent -> Object([order_id |-> Str("o9")])
       [] k = unnamed -> Object([reason |-> Str("none given")])]

MCOrderOf ==
  [k \in Key |-> CASE k \in {astray, absent} -> Absent
                   [] k \in {lost, unnamed} -> Missing
                   [] OTHER -> "o1"]

MCAmountOf ==
  [k \in Key |-> CASE k = decimal -> 2 [] k \in {integral, boolean, astray, lost} -> 1
                   [] OTHER -> 0]

MCTotal == [o \in Order |-> 3]

MCForest == ForestOf(Range(IssueRefund.assert) \cup Range(CancelOrderContract.assert))

MCStringOrder == <<>>

(* What the theorems assume of == and <, on a sample of numbers.           *)
ASSUME SampleAssumption ==
  LET Written(n) == {Integer(n), Float(n, 1)}
  IN /\ \A s, t \in {"o1", "o9"} : PyEqual(Str(s), Str(t)) = (s = t)
     /\ \A m, n \in -2 .. 3 : \A a \in Written(m), b \in Written(n) :
          PyEqual(a, b) = (m = n) /\ PyLess(a, b) = Bool(m < n)
     /\ \A n \in -2 .. 3 :
          \A a \in Written(n), v \in {None, Str("1"), List(<<>>), Object(<<>>)} :
            ~ PyEqual(a, v)

=============================================================================
