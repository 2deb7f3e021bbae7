---------------------------- MODULE MCAssertions ----------------------------
(* Instances of Assertions for TLC: the assertions of the two contracts,   *)
(* and others made of the same names, on bodies that fit and bodies that   *)
(* do not.                                                                 *)
EXTENDS Assertions, ShippedContracts, MCTrees, PyValues

Item(node, key) == <<"Subscript", node, Const(key)>>

Paths ==
  { Name("body"), Name("unknown"), Attr(Name("body"), "status"),
    Attr(Attr(Name("body"), "status"), "count"), Attr(RefundField("count"), "real"),
    Item(Name("body"), Str("status")),
    Item(Attr(Name("body"), "refund"), Integer(0)),
    RefundField("amount"), RefundField("count"), Amount,
    Attr(Name("args"), "note") }

Constants == {Const(Integer(1)), Const(Str("processed")), Const(None)}

Equalities == {Cmp(a, "Eq", b) : a \in Paths, b \in Paths \cup Constants}

Comparisons ==
  {Cmp(a, op, b) : a, b \in {Amount, Const(Str("processed")), Const(None),
                             Attr(Name("body"), "refund")},
                   op \in {"NotEq", "Lt", "LtE", "Gt", "GtE", "In", "NotIn"}}
    \cup {Cmp(a, op, Const(None)) : a \in Paths, op \in {"Is", "IsNot"}}

Chains ==
  LET operands == {Amount, RefundField("amount"), Const(Integer(1))}
  IN { <<"Compare", a, <<p, q>>, <<b, c>> >> :
         a, b, c \in operands, p, q \in {"Eq", "Lt", "In"} }

Computed ==
  {<<"BinOp", op, a, b>> :
     op \in {"Add", "Sub", "Mult", "Div", "FloorDiv", "Mod", "Pow"},
     a, b \in {Amount, Const(Integer(0)), Const(Integer(-2)),
               Const(Str("processed")), <<"List", <<Const(None)>> >>}}

Others ==
  LET amount == Cmp(RefundField("amount"), "Eq", Amount)
      deep == Cmp(Amount, "Lt", <<"UnaryOp", "USub", <<"UnaryOp", "UAdd", Amount>> >>)
  IN { <<"SyntaxError">>, <<"Call", Name("len")>>, <<"IfExp", amount, amount, amount>>,
       <<"BoolOp", "Or", << <<"IfExp", amount, amount, amount>>, amount>> >>,
       <<"UnaryOp", "Invert", amount>>, <<"UnaryOp", "Not", amount>>,
       <<"UnaryOp", "USub", Amount>>, <<"UnaryOp", "Not", deep>>,
       Attr(Name("body"), "__class__"), Name("__name__"),
       <<"BoolOp", "And", <<amount, deep>> >>, <<"BoolOp", "Or", <<deep, amount>> >>,
       <<"Tuple", <<Amount, Name("unknown")>> >>, <<"List", <<>> >>,
       <<"Dict", <<Amount, Const(Integer(1))>>, <<Amount, Amount>> >>,
       <<"Dict", << <<"List", <<>> >> >>, <<Amount>> >>,
       <<"Dict", <<NoKeyNode>>, <<Name("args")>> >> }

Singles == Equalities \cup Comparisons \cup Computed \cup Others \cup Chains

MCAssertionLists ==
  {IssueRefund.assert, CancelOrderContract.assert}
    \cup {<<a>> : a \in Singles}
    \cup {<<a, b>> : a, b \in {IssueRefund.assert[2], IssueRefund.assert[3],
                               Cmp(Amount, "Gt", Const(Integer(0))), <<"Call", Name("len")>>,
                               Cmp(RefundField("count"), "Lt", Amount)}}

MCForest ==
  LET asserted == UNION {Range(list) : list \in MCAssertionLists}
  IN ForestOf(asserted \cup {Unchained(node) : node \in {n \in asserted : IsChain(n)}})

Refund(amount) ==
  Object([status |-> Str("processed"), amount |-> amount, count |-> Integer(1)])

OrderBody(status, refund) == Object([status |-> Str(status), refund |-> refund])

MCBody ==
  { OrderBody("PAID", Refund(Float(1, 1))), OrderBody("CANCELLED", Refund(Float(0, 1))),
    OrderBody("PAID", None), OrderBody("PAID", Str("processed")),
    OrderBody("PAID", List(<<Refund(Integer(1))>>)), Object([items |-> List(<<>>)]) }

MCArgs ==
  {Object([amount |-> a]) : a \in {Integer(1), Float(1, 2), Str("1"), None}}
    \cup {Object([order_id |-> Str("o1")])}

(* body.refund.amount >= args.amount: a contract that asks for at least    *)
(* what was ordered.                                                       *)
OrderingAssertions == {<<Cmp(RefundField("amount"), "GtE", Amount)>>}

MCStringOrder == <<"1", "CANCELLED", "PAID", "processed">>

-----------------------------------------------------------------------------
(* What the theorems assume of the interpreter, on a sample of its values. *)
Sample ==
  { None, Bool(TRUE), Integer(0), Integer(-2), Float(1, 2), Str("1"), Str("PAID"),
    List(<<>>), List(<<Integer(1), None>>), Tuple(<<Str("PAID")>>), Object(<<>>),
    Object([amount |-> Integer(1)]), Method(Str("PAID"), "count") }

IsValue(v) ==
  v[1] \in {"none", "bool", "int", "float", "str", "list", "tuple", "dict", "method"}

ValueOrOwnException(v) ==
  IsValue(v) \/ (IsRaise(v) /\ v # Raise("UnsafeExpressionError"))

ASSUME SampleAssumption ==
  \A a, b \in Sample :
    /\ PyEqual(a, b) \in BOOLEAN
    /\ \A v \in {PyLess(a, b), PyAtMost(a, b), PySubscript(a, b),
                 PyAttribute(a, "count"), PyAttribute(a, "real"),
                 PySigned(-1, a), PySigned(1, a), PyDict(<<a>>, <<b>>)} :
         ValueOrOwnException(v)
    /\ \A op \in {"Add", "Sub", "Mult", "Div", "FloorDiv", "Mod"} :
         ValueOrOwnException(PyArithmetic(op, a, b))
    /\ ValueOrOwnException(PyIn(a, b))
    /\ a = None \/ (a[1] = "dict" /\ DictKey(b) \notin DOMAIN a[2]) =>
         IsRaise(PySubscript(a, b))

=============================================================================
