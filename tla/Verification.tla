---------------------------- MODULE Verification ----------------------------
(***************************************************************************)
(* verify_postcondition (verifier.py) in full, over the downstream service *)
(* it reads from: the read spec and its path, the JSON body of the order,  *)
(* the shipped contracts' own assertions, and the partial-effect           *)
(* heuristic.  Contracts and Verifier, which Gateway uses, state the same  *)
(* verdict on abstract bodies and arguments.                               *)
(***************************************************************************)
EXTENDS DownstreamService, Verifier, ShippedContracts, Template

CONSTANT ArgsOf      \* ArgsOf[k]: the arguments of k as JSON has them

Field(object, name) == object[2][Str(name)]
Has(object, name) == Str(name) \in DOMAIN object[2]

(* The numbers RefundRequest reads as its amount: pydantic accepts a       *)
(* string that spells one, and takes True for 1.                           *)
Spelled == [s \in {"1", "2", "3"} |-> CASE s = "1" -> 1 [] s = "2" -> 2 [] OTHER -> 3]

ReadAmount(v) ==
  CASE IsNumber(v) -> Float(Numerator(v), Denominator(v))
    [] v[1] = "str" /\ v[2] \in DOMAIN Spelled -> Float(Spelled[v[2]], 1)
    [] OTHER -> Raise("ValidationError")

(* OrderOf and AmountOf are what the service reads in ArgsOf.              *)
ASSUME ArgsAssumption ==
  \A k \in Key :
    /\ ArgsOf[k][1] = "dict"
    /\ OrderOf[k] = IF ~ Has(ArgsOf[k], "order_id") THEN Missing
                    ELSE IF Field(ArgsOf[k], "order_id")[2] \in Order
                         THEN Field(ArgsOf[k], "order_id")[2] ELSE Absent
    /\ IsRefund(k) =>
         LET amount == IF Has(ArgsOf[k], "amount")
                       THEN ReadAmount(Field(ArgsOf[k], "amount"))
                       ELSE Raise("ValidationError")
         IN AmountOf[k] = IF IsRaise(amount) THEN 0 ELSE Numerator(amount)

(* The shipped assertions pass the safety check.                           *)
ASSUME ShippedAssumption ==
  \A contract \in {IssueRefund, CancelOrderContract} :
    \A i \in DOMAIN contract.assert :
      contract.assert[i] \in Node /\ CheckAstSafety(contract.assert[i])

ContractOf(k) == IF IsRefund(k) THEN IssueRefund ELSE CancelOrderContract

-----------------------------------------------------------------------------
(* get_order's body: the summary of the refunds, and their list.           *)
JsonOrder(o) ==
  Object([order_id |-> Str(o), total_amount |-> Float(Total[o], 1),
          status |-> Str(status[o]), refunded_amount |-> Float(refunded[o], 1),
          refund |-> Object([status |-> Str(IF refunded[o] > 0 THEN "processed"
                                            ELSE "none"),
                             amount |-> Float(refunded[o], 1),
                             count |-> Integer(Cardinality(OrderRefunds(o)))]),
          refunds |-> List([i \in 1 .. Cardinality(OrderRefunds(o)) |-> Object(<<>>)])])

(* GET of a path: the route's last part names the order.                   *)
GetOrder(path) ==
  LET o == path[2] IN
  IF path[1] = "/orders/" /\ Len(path) = 2 /\ o \in Order
  THEN [status |-> 200, body |-> JsonOrder(o)]
  ELSE [status |-> 404, body |-> None]

(* float(v) of a JSON value.                                               *)
PyFloat(v) ==
  CASE IsNumber(v) -> Float(Numerator(v), Denominator(v))
    [] v[1] = "str" /\ v[2] \in DOMAIN Spelled -> Float(Spelled[v[2]], 1)
    [] v[1] = "str" /\ v[2] \notin DOMAIN Spelled -> Raise("ValueError")
    [] OTHER -> Raise("TypeError")

GetOr(object, name, default) == IF Has(object, name) THEN Field(object, name) ELSE default

(* Mutant of DetectPartialEffectIn: only money that moved counts.          *)
DetectMovedMoney(body, name) ==
  IF name # "issue_refund" THEN Bool(FALSE)
  ELSE LessThan(Integer(0), PyFloat(GetOr(body, "refunded_amount", Integer(0))))

(* _detect_partial_effect, on the body itself.                             *)
DetectPartialEffectIn(body, name) ==
  LET summary == GetOr(body, "refund", None)
      counted == IF summary[1] = "dict"
                 THEN LessThan(Integer(0), GetOr(summary, "count", Integer(0)))
                 ELSE Bool(FALSE)
      listed == GetOr(body, "refunds", None)
  IN IF name # "issue_refund" THEN Bool(FALSE)
     ELSE IF IsRaise(counted) \/ IsTrue(counted) THEN counted
     ELSE IF listed[1] = "list" /\ Truthy(listed) THEN Bool(TRUE)
     ELSE Then(PyFloat(GetOr(body, "refunded_amount", Integer(0))),
               LAMBDA moved : LessThan(Integer(0), moved))

(* The verdict that the assertions and the heuristic lead to, or the       *)
(* exception of one of them, which leaves the verifier.                    *)
Decide(outcome, partial) ==
  IF outcome = Passed THEN "VERIFIED"
  ELSE IF outcome[1] = "escaped" THEN outcome[2]
  ELSE IF IsRaise(partial) THEN partial[2]
  ELSE IF IsTrue(partial) THEN "COMPENSATING" ELSE "FAILED"

(* The verdict on a 2xx body.                                              *)
VerdictOn(body, contract, args) ==
  IF body[1] # "dict" THEN "UNKNOWN"
  ELSE Decide(EvaluatePostcondition(contract.assert, ContextOf(body, args)),
              DetectPartialEffectIn(body, contract.name))

(* verify_postcondition when the read gets an answer.                      *)
VerifyPostcondition(contract, args) ==
  LET path == SubstitutePath(ParseReadSpec(contract.read).path, args, None, None)
      response == GetOrder(path[2])
  IN IF IsRaise(path) THEN "UNKNOWN"
     ELSE IF response.status = 404 THEN "FAILED"
     ELSE IF response.status \notin 200 .. 299 THEN "UNKNOWN"
     ELSE VerdictOn(response.body, contract, args)

-----------------------------------------------------------------------------
(* VerdictAgrees: in every state of the service, the verdict the contract  *)
(* file's text, the template, the evaluator and the JSON body lead to is   *)
(* the one the gateway model takes for it, and never an exception; the     *)
(* path of a call can be built exactly when the gateway model says so, and *)
(* a read path that cannot is UNKNOWN, never FAILED.                       *)
VerdictAgrees ==
  \A k \in Key :
    /\ ResolvesPath(k) <=> ~ IsRaise(SubstitutePath(ContractOf(k).path, ArgsOf[k], None, None))
    /\ VerifyPostcondition(ContractOf(k), ArgsOf[k]) =
         IF OrderOf[k] = Missing THEN "UNKNOWN"
         ELSE Judge(k, OrderStatusCode(OrderOf[k]),
                    IF OrderOf[k] \in Order THEN OrderBody(OrderOf[k]) ELSE None)

(* CleanRefundVerifies: a refund that the service applied once and         *)
(* completely, with no other on its order, is VERIFIED, whether its amount *)
(* was written as a whole or as a decimal number (verifier.py: "All        *)
(* assertions hold -> VERIFIED"; COMPENSATING is for partial writes).  A   *)
(* string, which the service reads as a number too, is not verified.       *)
CleanRefundVerifies ==
  \A k \in Key :
    /\ IsRefund(k) /\ Has(ArgsOf[k], "amount") /\ IsNumber(Field(ArgsOf[k], "amount"))
    /\ k \in processed
    /\ OrderRefunds(OrderOf[k]) = RefundsOf(k)
    /\ Cardinality(RefundsOf(k)) = 1
    => VerifyPostcondition(ContractOf(k), ArgsOf[k]) = "VERIFIED"

=============================================================================
