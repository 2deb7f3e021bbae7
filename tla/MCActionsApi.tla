---------------------------- MODULE MCActionsApi ----------------------------
(* An instance of ActionsApi for TLC: requests whose keys' texts are close. *)
EXTENDS ActionsApi, IntentEncoding

Args(fields) == <<"object", fields>>

Asks(task, step, tool, args) ==
  [task |-> task, step |-> step, tool |-> tool, resource |-> <<"o1">>, args |-> args]

OrderField == <<"order_id", Str("o1")>>
Note(fields) == <<"note", Args(fields)>>
A == <<"amount", Integer(1)>>
B == <<"reason", None>>

(* One call in many spellings of its arguments, and arguments near it.     *)
ArgsOfOneCall ==
  { Args(<<OrderField, A>>), Args(<<A, OrderField>>),
    Args(<<OrderField, Note(<<A, B>>)>>), Args(<<Note(<<B, A>>), OrderField>>),
    Args(<<OrderField, <<"amount", Str("1")>> >>),
    Args(<<OrderField, <<"amount", <<"array", <<Integer(1), None>> >> >> >>) }

Refund == <<"issue_refund">>

(* Calls whose texts are close: steps and separators move between parts.   *)
CloseCalls ==
  {Asks(task, step, Refund, Args(<<OrderField>>)) :
     task \in {<<"t">>, <<"t1">>, <<"t", "1">>}, step \in {1, 11}}

Rejected ==
  { Asks(<<"">>, 1, Refund, Args(<<>>)), Asks(<<"t">>, 0, Refund, Args(<<>>)),
    Asks(<<"t">>, 1, <<"unknown">>, Args(<<>>)) }

MCSubmitted ==
  {Asks(<<"t">>, 1, Refund, args) : args \in ArgsOfOneCall} \cup CloseCalls \cup Rejected

MCKey == {DeriveKey(r) : r \in MCSubmitted}

MCKeyOf == [r \in MCSubmitted |-> DeriveKey(r)]

MCIntentOf == [r \in MCSubmitted |-> Intent(r)]

MCValid == {r \in MCSubmitted : ValidRequest(r)}

MCKnownTool == {Refund, <<"cancel_order">>}

MCStringOrder == <<"amount", "note", "order_id", "reason">>

=============================================================================
