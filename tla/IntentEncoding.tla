--------------------------- MODULE IntentEncoding ---------------------------
(***************************************************************************)
(* From the requests agents send to the keys of Intents: what POST         *)
(* /v1/actions accepts (schemas/action.py), the text derive_key hashes     *)
(* (idempotency.py), and which requests are therefore taken for one        *)
(* action.  The hash is taken as injective, so a key is its text.          *)
(*                                                                         *)
(* A task and a tool are sequences of words, as in KeyText.  Arguments are *)
(* JSON with the fields of an object as <<name, value>> pairs in the order *)
(* they were sent: <<"object", pairs>>, <<"array", items>>, or a scalar of *)
(* PyData.                                                                 *)
(***************************************************************************)
EXTENDS PyValues, KeyText, TLC

Scalar == {"none", "bool", "int", "float", "str"}

(* Mutant of InOrder: the fields stay in the order they were sent in.      *)
AsSent(fields) == fields

(* sort_keys=True                                                          *)
InOrder(fields) ==
  SortSeq(fields, LAMBDA a, b : IsTrue(PyLess(Str(a[1]), Str(b[1]))))

(* canonical_json, as tokens.  A scalar is spelled after its type: an int  *)
(* without, a float with a decimal point.                                  *)
RECURSIVE CanonicalJson(_)
CanonicalJson(v) ==
  LET Fields(pairs) ==
        FlattenSeq([i \in DOMAIN pairs |->
                      << <<"name", pairs[i][1]>> >> \o CanonicalJson(pairs[i][2])])
  IN CASE v[1] = "object" -> << <<"{">> >> \o Fields(InOrder(v[2])) \o << <<"}">> >>
       [] v[1] = "array" ->
            << <<"[">> >> \o FlattenSeq([i \in DOMAIN v[2] |-> CanonicalJson(v[2][i])])
              \o << <<"]">> >>
       [] v[1] \in Scalar -> <<v>>

(* Mutant of DeriveKey: no separator between the task and the step.              *)
DeriveUnseparated(r) ==
  Words(Front(r.task)) \o Words(<<Last(r.task) \o ToString(r.step)>>) \o Words(r.tool)
    \o CanonicalJson(r.args)

(* derive_key: task_id|step|tool|canonical_json(args).  The text of the    *)
(* arguments begins with a brace, which no word does here.                 *)
DeriveKey(r) ==
  KeyText(r.task, ToString(r.step), r.tool, CanonicalJson(r.args))

-----------------------------------------------------------------------------
Empty == <<"">>

(* ActionCreateRequest; anything else is 422 before the handler runs.      *)
ValidRequest(r) ==
  /\ Empty \notin {r.task, r.tool, r.resource}
  /\ r.step >= 1
  /\ r.args[1] = "object"

-----------------------------------------------------------------------------
(* The value Python reads from JSON: an object's order is gone.            *)
RECURSIVE Parsed(_)
Parsed(v) ==
  CASE v[1] = "object" ->
         Dict([k \in {Str(v[2][i][1]) : i \in DOMAIN v[2]} |->
                 Parsed(v[2][CHOOSE i \in DOMAIN v[2] : Str(v[2][i][1]) = k][2])])
    [] v[1] = "array" -> List([i \in DOMAIN v[2] |-> Parsed(v[2][i])])
    [] v[1] \in Scalar -> v

(* The call a request asks for, whatever the order of its fields.          *)
Intent(r) == <<r.task, r.step, r.tool, Parsed(r.args)>>

=============================================================================
