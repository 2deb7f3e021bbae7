--------------------------- MODULE ContractSchema ---------------------------
(***************************************************************************)
(* The pydantic models a contract file has to satisfy (schema.py), over    *)
(* the Python value its YAML is read as.  Every model forbids fields it    *)
(* does not know; numbers are read as pydantic's lax mode reads them.      *)
(***************************************************************************)
EXTENDS PyData

CONSTANT Digits      \* Digits[s]: the integer that the text s spells

FieldsOf(v) == {k[2] : k \in DOMAIN v[2]}
FieldOf(v, f) == v[2][Str(f)]

(* extra="forbid", and the fields without a default are there.             *)
Closed(v, required, optional) ==
  /\ v[1] = "dict"
  /\ required \subseteq FieldsOf(v)
  /\ FieldsOf(v) \subseteq required \cup optional

IfGiven(v, f, Check(_)) == f \in FieldsOf(v) => Check(FieldOf(v, f))

AnyText(v) == v[1] = "str"
Text(v) == AnyText(v) /\ v[2] # ""

(* int: a whole number of any type, or a text that spells one.             *)
ReadsAsInt(v) ==
  IF AnyText(v) THEN v[2] \in DOMAIN Digits ELSE IsNumber(v) /\ Denominator(v) = 1

PositiveInt(v) ==
  ReadsAsInt(v) /\ (IF AnyText(v) THEN Digits[v[2]] ELSE Numerator(v)) > 0

ListOf(v, Check(_)) == v[1] = "list" /\ \A i \in DOMAIN v[2] : Check(v[2][i])

Ints(v) == ListOf(v, ReadsAsInt)

(* Mutant of AssertionList: without min_length.                            *)
AnyAssertions(v) == ListOf(v, AnyText)

AssertionList(v) == ListOf(v, AnyText) /\ v[2] # <<>>

DownstreamConfig(v) ==
  /\ Closed(v, {"method", "path"},
            {"idempotency_header", "timeout_ms", "definite_failure_statuses"})
  /\ Text(FieldOf(v, "method")) /\ Text(FieldOf(v, "path"))
  /\ IfGiven(v, "idempotency_header", AnyText)
  /\ IfGiven(v, "timeout_ms", PositiveInt)
  /\ IfGiven(v, "definite_failure_statuses", Ints)

(* populate_by_name: assert may be called assert_ as well.                 *)
PostconditionConfig(v) ==
  /\ Closed(v, {"read"}, {"assert", "assert_"})
  /\ Text(FieldOf(v, "read"))
  /\ FieldsOf(v) \cap {"assert", "assert_"} # {}
  /\ \A f \in FieldsOf(v) \cap {"assert", "assert_"} : AssertionList(FieldOf(v, f))

CompensationConfig(v) ==
  /\ Closed(v, {"method", "path"}, {})
  /\ Text(FieldOf(v, "method")) /\ Text(FieldOf(v, "path"))

ReconcileConfig(v) ==
  /\ Closed(v, {}, {"backoff_seconds", "deadline_seconds"})
  /\ IfGiven(v, "backoff_seconds", Ints)
  /\ IfGiven(v, "deadline_seconds", PositiveInt)

ActionContract(v) ==
  /\ Closed(v, {"name", "resource_key", "downstream", "postcondition"},
            {"compensation", "reconcile"})
  /\ Text(FieldOf(v, "name")) /\ Text(FieldOf(v, "resource_key"))
  /\ DownstreamConfig(FieldOf(v, "downstream"))
  /\ PostconditionConfig(FieldOf(v, "postcondition"))
  /\ IfGiven(v, "compensation", LAMBDA c : c = None \/ CompensationConfig(c))
  /\ IfGiven(v, "reconcile", ReconcileConfig)

=============================================================================
