----------------------------- MODULE MCStartup -----------------------------
(* Instances of Startup for TLC: contract files, whole and spoilt.         *)
EXTENDS ServedContracts, ShippedContracts, MCTrees, PyValues, TLC

Strs(names) == List([i \in DOMAIN names |-> Str(names[i])])

Cancelled == "body.status == 'CANCELLED'"
Misspelt == "body.status = 'CANCELLED'"

MCNodeOf ==
  (Cancelled :> CancelOrderContract.assert[1]) @@ (Misspelt :> <<"SyntaxError">>)

MCForest == ForestOf(Range(MCNodeOf))

Call == [method |-> Str("POST"), path |-> Str("/refunds")]
Read(assertions) == [read |-> Str("GET /orders/{args.order_id}"), assert |-> Strs(assertions)]

ContractFile(name, downstream, postcondition, others) ==
  Object([name |-> Str(name), resource_key |-> Str("{args.order_id}"),
          downstream |-> Object(downstream),
          postcondition |-> Object(postcondition)] @@ others)

Undo == [compensation |-> Object(Call)]
Retry == [reconcile |-> Object([backoff_seconds |-> List(<<Integer(1), Integer(2)>>),
                                deadline_seconds |-> Integer(60)])]
Statuses == [definite_failure_statuses |-> List(<<Integer(400), Integer(404)>>)]

Cancel == ContractFile("cancel_order", Statuses @@ Call, Read(<<Cancelled>>), Undo @@ Retry)

MCDocument ==
  { Cancel,
    ContractFile("issue_refund", [timeout_ms |-> Str("2000")] @@ Call, Read(<<Misspelt>>), <<>>),
    ContractFile("issue_refund", Call, Read(<<>>), <<>>),
    ContractFile("issue_refund", [timeout_ms |-> Integer(0)] @@ Call, Read(<<Cancelled>>), <<>>),
    ContractFile("issue_refund", [timeout |-> Integer(1)] @@ Call, Read(<<Cancelled>>), Undo),
    List(<<Cancel>>), Raise("YAMLError") }

MCRank == ("a.yaml" :> 1) @@ ("b.yml" :> 2) @@ ("c.yaml" :> 3)

MCDigits == "2000" :> 2000

MCStringOrder == <<>>

=============================================================================
