----------------------------- MODULE Assertions -----------------------------
(***************************************************************************)
(* evaluate_postcondition (evaluator.py): the assertions of a contract are *)
(* evaluated in order on the body that was read and the arguments that     *)
(* were given, until one does not hold.  There is no await in it, so it is *)
(* one step.                                                               *)
(***************************************************************************)
EXTENDS Evaluator

CONSTANTS
  AssertionLists,   \* the assert lists of contracts
  Body,             \* JSON objects a read may return
  Args              \* arguments an action may have

VARIABLES
  expressions,      \* the contract's assert list
  context,          \* {"body": body, "args": args}
  outcome           \* what evaluate_postcondition has returned or raised

evaluationVars == <<expressions, context, outcome>>

Pending == <<"pending">>

Given ==
  /\ expressions \in AssertionLists
  /\ \E b \in Body, a \in Args : context = ContextOf(b, a)
  /\ outcome = Pending

Return ==
  /\ outcome = Pending
  /\ outcome' = EvaluatePostcondition(expressions, context)
  /\ UNCHANGED <<expressions, context>>

Evaluation == Given /\ [][Return]_evaluationVars

-----------------------------------------------------------------------------
(* a op1 b op2 c, written as one chain and with "and".                     *)
IsChain(node) == node[1] = "Compare" /\ Len(node[3]) = 2

Unchained(node) ==
  <<"BoolOp", "And",
    << <<"Compare", node[2], <<node[3][1]>>, <<node[4][1]>> >>,
       <<"Compare", node[4][1], <<node[3][2]>>, <<node[4][2]>> >> >> >>

(* The two spellings of a chain are among the trees.                       *)
ASSUME AssertionsAssumption ==
  /\ AssertionLists \subseteq Seq(Node)
  /\ \A node \in Node : IsChain(node) => Unchained(node) \in Node

(* ChainIsConjunction: a chained comparison means what Python says it      *)
(* means, the conjunction of its links with the shared operand on both     *)
(* sides, in its value, its exceptions and what it leaves unevaluated.     *)
ChainIsConjunction ==
  \A i \in DOMAIN expressions : IsChain(expressions[i]) =>
    EvalNode(expressions[i], context) = EvalNode(Unchained(expressions[i]), context)

(* AcceptedIsEvaluable: a tree the safety check accepts is one evaluation  *)
(* knows: the two lists of node classes in evaluator.py agree, so that     *)
(* what is unsafe is refused before any of it is evaluated.                *)
AcceptedIsEvaluable ==
  \A i \in DOMAIN expressions :
    CheckAstSafety(expressions[i]) =>
      EvalNode(expressions[i], context) # Raise("UnsafeExpressionError")

-----------------------------------------------------------------------------
(* body.a.b, args['a']: names, attributes and subscripts by constants.     *)
IsPath(node) ==
  LET path[n \in Node] ==
        \/ n[1] = "Name"
        \/ n[1] = "Attribute" /\ path[n[2]]
        \/ n[1] = "Subscript" /\ path[n[2]] /\ n[3][1] = "Constant"
  IN path[node]

IsOperand(node) == IsPath(node) \/ node[1] = "Constant"

(* The form of every assertion of the shipped contracts: path == operand.  *)
IsEquality(node) ==
  /\ node[1] = "Compare" /\ node[3] = <<"Eq">>
  /\ IsPath(node[2]) /\ IsOperand(node[4][1])

(* EqualityContained: assertions that only compare for equality what paths *)
(* lead to are decided, whatever the body and the arguments are made of;   *)
(* no exception of theirs leaves evaluate_postcondition, as a TypeError of *)
(* an ordering comparison with a missing amount does.                      *)
EqualityContained ==
  (\A i \in DOMAIN expressions : IsEquality(expressions[i])) =>
    outcome[1] # "escaped"

(* Whether a path leads to something, by the keys that are there.          *)
LeadsSomewhere(path) ==
  LET leads[n \in Node] ==
        \/ n[1] = "Name" /\ n[2] \in DOMAIN context
        \/ n[1] = "Constant"
        \/ /\ n[1] \in {"Attribute", "Subscript"}
           /\ leads[n[2]]
           /\ LET v == EvalNode(n[2], context)
                  k == IF n[1] = "Attribute" THEN Str(n[3]) ELSE DictKey(n[3][2])
              IN IF v[1] = "dict" THEN k \in DOMAIN v[2] ELSE v # None
  IN leads[path]

(* MissingEvidenceFails: an equality that names something the body or the  *)
(* arguments do not have is never passed, not even when both of its sides  *)
(* are missing: absence of evidence is not evidence (verifier.py:          *)
(* "Fail-closed rules").                                                   *)
MissingEvidenceFails ==
  outcome = Passed =>
    \A i \in DOMAIN expressions : IsEquality(expressions[i]) =>
      LeadsSomewhere(expressions[i][2]) /\ LeadsSomewhere(expressions[i][4][1])

=============================================================================
