----------------------------- MODULE Evaluator -----------------------------
(***************************************************************************)
(* The sandboxed evaluator of contract assertions (evaluator.py): the      *)
(* allowlist over the syntax tree, the evaluation of a tree in a context,  *)
(* and the loop of evaluate_postcondition.  A node is a tuple that begins  *)
(* with its class, as ast.parse builds it:                                 *)
(*   <<"Constant", value>>       <<"Name", id>>                            *)
(*   <<"Attribute", value, attr>>          <<"Subscript", value, slice>>   *)
(*   <<"Compare", left, ops, comparators>> <<"BoolOp", op, values>>        *)
(*   <<"UnaryOp", op, operand>>            <<"BinOp", op, left, right>>    *)
(*   <<"List", elts>>  <<"Tuple", elts>>   <<"Dict", keys, values>>        *)
(* A string ast.parse refuses is <<"SyntaxError">>.  What the interpreter's *)
(* own operators do with values is left to the constants below.            *)
(***************************************************************************)
EXTENDS PyData, SequencesExt

CONSTANTS
  MaxAstDepth,          \* MAX_AST_DEPTH
  Forest,               \* Forest[h]: the trees of height h there may be
  EqualTo(_, _),        \* a == b
  LessThan(_, _),       \* a < b
  AtMost(_, _),         \* a <= b
  ElementOf(_, _),      \* a in b
  ItemOf(_, _),         \* a[k]
  AttributeOf(_, _),    \* getattr(a, name) of what is no dictionary
  Arithmetic(_, _, _),  \* a op b
  Signed(_, _),         \* -a and +a
  DictOf(_, _)          \* dict(zip(keys, values))

ASSUME MaxAstDepthAssumption == MaxAstDepth \in Nat

NoKeyNode == <<"NoKey">>       \* the key of a ** entry of a Dict

(* The nodes _check_ast_safety descends to; the operators are not visited. *)
Children(node) ==
  CASE node[1] = "Attribute" -> {node[2]}
    [] node[1] = "Subscript" -> {node[2], node[3]}
    [] node[1] = "Compare" -> {node[2]} \cup Range(node[4])
    [] node[1] = "BoolOp" -> Range(node[3])
    [] node[1] = "UnaryOp" -> {node[3]}
    [] node[1] = "BinOp" -> {node[3], node[4]}
    [] node[1] \in {"List", "Tuple"} -> Range(node[2])
    [] node[1] = "Dict" -> (Range(node[2]) \ {NoKeyNode}) \cup Range(node[3])
    [] OTHER -> {}

Dunder(name) == Len(name) >= 2 /\ SubSeq(name, 1, 2) = "__"

(* Mutant of AllowedNode: a class is allowed that evaluation does not know. *)
AllowsConditional(node) ==
  node[1] \in {"Constant", "Name", "Attribute", "Subscript", "Compare", "BoolOp",
               "UnaryOp", "BinOp", "List", "Tuple", "Dict", "IfExp"}

AllowedNode(node) ==
  CASE node[1] = "Name" -> ~ Dunder(node[2])
    [] node[1] = "Attribute" -> ~ Dunder(node[3])
    [] OTHER -> node[1] \in {"Constant", "Subscript", "Compare", "BoolOp", "UnaryOp",
                             "BinOp", "List", "Tuple", "Dict"}

(* The trees, each with its parts.                                         *)
Node == UNION {Forest[h] : h \in DOMAIN Forest}

(* What ast.parse sees to: a tree is higher than its parts, parts come in  *)
(* lists, every link of a comparison has an operator and an operand, every *)
(* entry of a Dict a key and a value, and None, True and False are         *)
(* constants.                                                              *)
IsList(parts) == parts \in Seq(Range(parts))

ASSUME ForestAssumption ==
  /\ Len(Forest) \in Nat /\ DOMAIN Forest = 1 .. Len(Forest)
  /\ \A h \in DOMAIN Forest :
       UNION {Children(n) : n \in Forest[h]} \subseteq UNION {Forest[l] : l \in 1 .. h - 1}
  /\ \A n \in Node :
       /\ n[1] = "Name" => n[2] \notin {"None", "True", "False"}
       /\ n[1] = "BoolOp" => IsList(n[3])
       /\ n[1] \in {"List", "Tuple"} => IsList(n[2])
       /\ n[1] = "Compare" =>
            /\ IsList(n[3]) /\ IsList(n[4])
            /\ Len(n[3]) = Len(n[4]) /\ Len(n[3]) > 0
       /\ n[1] = "Dict" => IsList(n[2]) /\ IsList(n[3]) /\ Len(n[2]) = Len(n[3])

(* _check_ast_safety returns; otherwise it raises UnsafeExpressionError.   *)
(* The ast.Expression around the tree is at depth 0.                       *)
CheckAstSafety(node) ==
  LET safe[p \in Node \X (1 .. MaxAstDepth + 1)] ==  \* <<n, depth>>
        /\ p[2] <= MaxAstDepth
        /\ AllowedNode(p[1])
        /\ \A child \in Children(p[1]) : safe[<<child, p[2] + 1>>]
  IN safe[<<node, 1>>]

-----------------------------------------------------------------------------
(* b = op(a) for values; an exception stays what it is.                    *)
Then(v, Op(_)) == IF IsRaise(v) THEN v ELSE Op(v)

Negated(v) == Then(v, LAMBDA b : Bool(~ IsTrue(b)))

(* Mutant of EvalCompareOp: 1 and 1.0 are different.                       *)
CompareTyped(op, left, right) ==
  CASE op = "Eq" -> Bool(left = right)
    [] op = "NotEq" -> Bool(left # right)
    [] OTHER -> Raise("EvaluationError")

EvalCompareOp(op, left, right) ==
  CASE op = "Eq" -> Bool(EqualTo(left, right))
    [] op = "NotEq" -> Bool(~ EqualTo(left, right))
    [] op = "Lt" -> LessThan(left, right)
    [] op = "LtE" -> AtMost(left, right)
    [] op = "Gt" -> LessThan(right, left)
    [] op = "GtE" -> AtMost(right, left)
    [] op = "In" -> ElementOf(left, right)
    [] op = "NotIn" -> Negated(ElementOf(left, right))
    [] op = "Is" -> PyIs(left, right)
    [] op = "IsNot" -> Negated(PyIs(left, right))
    [] OTHER -> Raise("EvaluationError")

EvalName(id, context) ==
  IF id \in DOMAIN context THEN context[id]
  ELSE CASE id = "None" -> None
         [] id = "True" -> Bool(TRUE)
         [] id = "False" -> Bool(FALSE)
         [] OTHER -> Raise("EvaluationError")

(* hasattr and getattr: what getattr yields, unless it raises.             *)
AttributeFound(found) == IF IsRaise(found) THEN Raise("EvaluationError") ELSE found

(* Mutants of EvalAttribute: hasattr is not asked; a missing key is None.  *)
AttributeUnguarded(target, attr) ==
  CASE target[1] = "none" -> Raise("EvaluationError")
    [] target[1] = "dict" ->
         IF Str(attr) \in DOMAIN target[2] THEN target[2][Str(attr)]
         ELSE Raise("EvaluationError")
    [] OTHER -> AttributeOf(target, attr)

AttributeOrNone(target, attr) ==
  CASE target[1] = "dict" ->
         IF Str(attr) \in DOMAIN target[2] THEN target[2][Str(attr)] ELSE None
    [] OTHER -> AttributeFound(AttributeOf(target, attr))

EvalAttribute(target, attr) ==
  CASE target[1] = "none" -> Raise("EvaluationError")
    [] target[1] = "dict" ->
         IF Str(attr) \in DOMAIN target[2] THEN target[2][Str(attr)]
         ELSE Raise("EvaluationError")
    [] OTHER -> AttributeFound(AttributeOf(target, attr))

(* KeyError, IndexError and TypeError become EvaluationError.              *)
EvalSubscript(target, key) ==
  LET item == ItemOf(target, key) IN
  IF IsRaise(item) THEN Raise("EvaluationError") ELSE item

EvalUnaryOp(op, operand) ==
  CASE op = "Not" -> Bool(~ Truthy(operand))
    [] op = "USub" -> Signed(-1, operand)
    [] op = "UAdd" -> Signed(1, operand)
    [] OTHER -> Raise("EvaluationError")

EvalBinOp(op, left, right) ==
  IF op \in {"Add", "Sub", "Mult", "Div", "FloorDiv", "Mod"}
  THEN Arithmetic(op, left, right)
  ELSE Raise("EvaluationError")

(* all(...) and any(...): the first value that decides, or raises, ends it. *)
EvalBoolOp(op, results) ==
  LET ends == {i \in DOMAIN results :
                 IsRaise(results[i]) \/ Truthy(results[i]) = (op = "Or")}
  IN IF ends = {} THEN Bool(op = "And")
     ELSE Then(results[Min(ends)], LAMBDA v : Bool(op = "Or"))

(* The results of a display's items, or the first exception among them.    *)
EvalItems(results, Build(_)) ==
  LET raised == {i \in DOMAIN results : IsRaise(results[i])} IN
  IF raised = {} THEN Build(results) ELSE results[Min(raised)]

(* Mutant of LeftOf: a chain goes on comparing with its first operand.     *)
KeepLeft(i, left, rights) == left

(* The left side of link i: the right side of the link before it.          *)
LeftOf(i, left, rights) == IF i = 1 THEN left ELSE rights[i - 1]

(* The loop of a comparison: the first link that does not hold, or raises, *)
(* ends it.                                                                *)
EvalLinks(left, ops, rights) ==
  LET links == [i \in DOMAIN ops |->
                  Then(LeftOf(i, left, rights), LAMBDA a :
                    Then(rights[i], LAMBDA b : EvalCompareOp(ops[i], a, b)))]
      ends == {i \in DOMAIN ops : ~ IsTrue(links[i])}
  IN IF ends = {} THEN Bool(TRUE)
     ELSE Then(links[Min(ends)], LAMBDA passed : Bool(FALSE))

(* One call of _eval_node, by what the calls for the node's parts return.  *)
EvalStep(value, node, context) ==
  LET Eval(n) == IF n = NoKeyNode THEN None ELSE value[n]
      EvalAll(nodes) == [i \in DOMAIN nodes |-> Eval(nodes[i])]
      Both(a, b, Op(_, _)) ==
        Then(Eval(a), LAMBDA x : Then(Eval(b), LAMBDA y : Op(x, y)))
  IN CASE node[1] = "Constant" -> node[2]
       [] node[1] = "Name" -> EvalName(node[2], context)
       [] node[1] = "Attribute" ->
            Then(Eval(node[2]), LAMBDA target : EvalAttribute(target, node[3]))
       [] node[1] = "Subscript" -> Both(node[2], node[3], EvalSubscript)
       [] node[1] = "Compare" -> EvalLinks(Eval(node[2]), node[3], EvalAll(node[4]))
       [] node[1] = "BoolOp" -> EvalBoolOp(node[2], EvalAll(node[3]))
       [] node[1] = "UnaryOp" ->
            Then(Eval(node[3]), LAMBDA operand : EvalUnaryOp(node[2], operand))
       [] node[1] = "BinOp" ->
            Both(node[3], node[4], LAMBDA x, y : EvalBinOp(node[2], x, y))
       [] node[1] = "List" -> EvalItems(EvalAll(node[2]), List)
       [] node[1] = "Tuple" -> EvalItems(EvalAll(node[2]), Tuple)
       [] node[1] = "Dict" ->
            EvalItems(EvalAll(node[2] \o node[3]), LAMBDA items :
              LET n == Len(node[2]) IN
              DictOf(SubSeq(items, 1, n), SubSeq(items, n + 1, 2 * n)))
       [] OTHER -> Raise("UnsafeExpressionError")

(* _eval_node, which calls itself for the parts.                           *)
EvalNode(node, context) ==
  LET value[n \in Node] ==
        EvalStep([child \in Children(n) |-> value[child]], n, context)
  IN value[node]

Evaluate(node, context) ==
  IF CheckAstSafety(node) THEN EvalNode(node, context)
  ELSE Raise("UnsafeExpressionError")

-----------------------------------------------------------------------------
(* What evaluate_postcondition returns, or the exception that leaves it.   *)
Passed == <<"passed">>                     \* (True, None)
FailedAt(i) == <<"failed", i>>             \* (False, expressions[i])
Escaped(exception) == <<"escaped", exception>>

Holds(result) == ~ IsRaise(result) /\ Truthy(result)

(* except (EvaluationError, UnsafeExpressionError)                         *)
Caught(result) ==
  IsRaise(result) /\ result[2] \in {"EvaluationError", "UnsafeExpressionError"}

ContextOf(body, args) ==
  [name \in {"body", "args"} |-> IF name = "body" THEN body ELSE args]

(* evaluate_postcondition: the first assertion that does not hold decides; *)
(* an exception the except clause does not name leaves it, and with it     *)
(* verify_postcondition and the handler.                                   *)
EvaluatePostcondition(expressions, context) ==
  LET result == [i \in DOMAIN expressions |-> Evaluate(expressions[i], context)]
      violated == {i \in DOMAIN expressions : ~ Holds(result[i])}
      first == Min(violated)
  IN IF violated = {} THEN Passed
     ELSE IF IsRaise(result[first]) /\ ~ Caught(result[first])
          THEN Escaped(result[first][2])
          ELSE FailedAt(first)

=============================================================================
