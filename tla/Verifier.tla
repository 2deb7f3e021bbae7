------------------------------ MODULE Verifier ------------------------------
(***************************************************************************)
(* verify_postcondition: the verdict on one read of the order, taken from  *)
(* the read's status and, when that is 2xx, from its body.                 *)
(***************************************************************************)
EXTENDS Contracts

Verdict == {"VERIFIED", "FAILED", "COMPENSATING", "UNKNOWN"}

(* _detect_partial_effect: only a refund leaves a partial effect.          *)
DetectPartialEffect(k, body) ==
  IsRefund(k) /\ (body.count > 0 \/ body.refunded > 0)

(* Mutant of JudgeBody: an order that can be read is taken as success.     *)
TrustBody(k, body) == "VERIFIED"

JudgeBody(k, body) ==
  IF Postcondition(k, body) THEN "VERIFIED"
  ELSE IF DetectPartialEffect(k, body) THEN "COMPENSATING"
  ELSE "FAILED"

(* 404 means no effect; any other status that is not 2xx, like a read that *)
(* fails, decides nothing.                                                 *)
Judge(k, status, body) ==
  IF status = 404 THEN "FAILED"
  ELSE IF status \in 200 .. 299 THEN JudgeBody(k, body)
  ELSE "UNKNOWN"

=============================================================================
