-------------------------- MODULE ServedContracts --------------------------
(***************************************************************************)
(* What the postconditions of the contracts that Startup serves are worth: *)
(* the schema that loads a contract, and the evaluator that runs it.       *)
(***************************************************************************)
EXTENDS Startup, Evaluator

CONSTANT NodeOf      \* NodeOf[s]: the tree ast.parse makes of the assertion s

AssertionsIn(contract) ==
  LET post == FieldOf(contract, "postcondition")
      texts == FieldOf(post, IF "assert" \in FieldsOf(post) THEN "assert" ELSE "assert_")[2]
  IN [i \in DOMAIN texts |-> NodeOf[texts[i][2]]]

(* VerdictsNeedEvidence: no contract that is served verifies an order of   *)
(* which nothing could be read: a postcondition cannot be empty, and what  *)
(* a name or a typing error makes of an assertion never counts as holding. *)
VerdictsNeedEvidence ==
  \A n \in DOMAIN Served :
    EvaluatePostcondition(AssertionsIn(Served[n]), ContextOf(Object(<<>>), Object(<<>>)))
      # Passed

=============================================================================
