-------------------------- MODULE ShippedContracts --------------------------
(***************************************************************************)
(* The two contracts of contracts/*.yaml as their files state them: the    *)
(* templates of the call and of the read, and the assertions as the trees  *)
(* that ast.parse makes of them.                                           *)
(***************************************************************************)
EXTENDS Evaluator

Const(v) == <<"Constant", v>>
Name(id) == <<"Name", id>>
Attr(node, attr) == <<"Attribute", node, attr>>
Cmp(a, op, b) == <<"Compare", a, <<op>>, <<b>> >>

RefundField(attr) == Attr(Attr(Name("body"), "refund"), attr)
Amount == Attr(Name("args"), "amount")

OrderId == <<"var", <<"args", "order_id">> >>
ReadOrder == << <<"word", "GET">>, <<"text", "/orders/">>, OrderId>>

IssueRefund ==
  [name |-> "issue_refund",
   path |-> << <<"text", "/refunds">> >>,
   read |-> ReadOrder,
   assert |-> << Cmp(RefundField("status"), "Eq", Const(Str("processed"))),
                 Cmp(RefundField("amount"), "Eq", Amount),
                 Cmp(RefundField("count"), "Eq", Const(Integer(1))) >>]

CancelOrderContract ==
  [name |-> "cancel_order",
   path |-> << <<"text", "/orders/">>, OrderId, <<"text", "/cancel">> >>,
   read |-> ReadOrder,
   assert |-> << Cmp(Attr(Name("body"), "status"), "Eq", Const(Str("CANCELLED"))) >>]

=============================================================================
