------------------------------ MODULE Executor ------------------------------
(***************************************************************************)
(* execute_contract's classification of what came back from the mutation.  *)
(* A response is a status and whether its body is blank; timeouts,         *)
(* connection errors and any other exception of the client are NoAnswer.   *)
(***************************************************************************)
EXTENDS Integers

NoAnswer == 0
Classification == {"definite_success", "definite_failure", "ambiguous"}

(* Mutant of Classify: a timeout counts as a failure.                      *)
TimeoutIsFailure(status, blank, definiteFailures) ==
  IF status = NoAnswer THEN "definite_failure"
  ELSE IF blank THEN "ambiguous"
  ELSE IF status \in 200 .. 299 THEN "definite_success"
  ELSE IF status \in definiteFailures THEN "definite_failure"
  ELSE "ambiguous"

Classify(status, blank, definiteFailures) ==
  IF status = NoAnswer \/ blank THEN "ambiguous"
  ELSE IF status \in 200 .. 299 THEN "definite_success"
  ELSE IF status \in definiteFailures THEN "definite_failure"
  ELSE "ambiguous"

=============================================================================
