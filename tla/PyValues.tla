------------------------------ MODULE PyValues ------------------------------
(***************************************************************************)
(* What the interpreter's operators do with the values of PyData.          *)
(***************************************************************************)
EXTENDS PyData, SequencesExt

CONSTANT StringOrder     \* the strings that may be compared by <, in order

(* a == b: never an exception.  Numbers are equal across their types.      *)
RECURSIVE PyEqual(_, _)
PyEqual(a, b) ==
  \/ /\ IsNumber(a) /\ IsNumber(b)
     /\ Numerator(a) * Denominator(b) = Numerator(b) * Denominator(a)
  \/ /\ IsSequence(a) /\ a[1] = b[1]
     /\ Len(a[2]) = Len(b[2])
     /\ \A i \in DOMAIN a[2] : PyEqual(a[2][i], b[2][i])
  \/ /\ a[1] = "dict" /\ b[1] = "dict"
     /\ DOMAIN a[2] = DOMAIN b[2]
     /\ \A k \in DOMAIN a[2] : PyEqual(a[2][k], b[2][k])
  \/ a[1] \in {"none", "str", "method"} /\ a[1] = b[1] /\ a = b

(* a < b, or TypeError for types that have no order.                       *)
RECURSIVE PyLess(_, _)
PyLess(a, b) ==
  CASE IsNumber(a) /\ IsNumber(b) ->
         Bool(Numerator(a) * Denominator(b) < Numerator(b) * Denominator(a))
    [] a[1] = "str" /\ b[1] = "str" ->
         Bool(\E i, j \in DOMAIN StringOrder :
                i < j /\ StringOrder[i] = a[2] /\ StringOrder[j] = b[2])
    [] IsSequence(a) /\ a[1] = b[1] ->
         LET differ == {i \in DOMAIN a[2] \cap DOMAIN b[2] :
                          ~ PyEqual(a[2][i], b[2][i])}
         IN IF differ = {} THEN Bool(Len(a[2]) < Len(b[2]))
            ELSE LET i == Min(differ) IN PyLess(a[2][i], b[2][i])
    [] OTHER -> Raise("TypeError")

(* a <= b: the types of PyLess, and equal or less.                         *)
PyAtMost(a, b) ==
  LET less == PyLess(a, b) IN
  IF IsRaise(less) THEN less ELSE Bool(IsTrue(less) \/ PyEqual(a, b))

(* Lists and dictionaries cannot be looked up in a dictionary.             *)
RECURSIVE Hashable(_)
Hashable(v) ==
  CASE v[1] \in {"list", "dict"} -> FALSE
    [] v[1] = "tuple" -> \A i \in DOMAIN v[2] : Hashable(v[2][i])
    [] OTHER -> TRUE

(* a in b                                                                  *)
PyIn(a, b) ==
  CASE IsSequence(b) -> Bool(\E i \in DOMAIN b[2] : PyEqual(a, b[2][i]))
    [] b[1] = "dict" /\ Hashable(a) -> Bool(DictKey(a) \in DOMAIN b[2])
    [] b[1] = "str" /\ a[1] = "str" ->
         Bool(\E i, j \in 0 .. Len(b[2]) : SubSeq(b[2], i + 1, j) = a[2])
    [] OTHER -> Raise("TypeError")

-----------------------------------------------------------------------------
(* a[k]: an index counts from the end when it is negative.                 *)
PySubscript(a, k) ==
  LET n == Len(a[2])  i == IF Numerator(k) < 0 THEN n + Numerator(k) ELSE Numerator(k)
      IsIndex == k[1] \in {"int", "bool"}
  IN CASE a[1] = "dict" /\ Hashable(k) ->
            IF DictKey(k) \in DOMAIN a[2] THEN a[2][DictKey(k)] ELSE Raise("KeyError")
       [] a[1] \in {"str", "list", "tuple"} /\ IsIndex ->
            IF i \notin 0 .. n - 1 THEN Raise("IndexError")
            ELSE IF a[1] = "str" THEN Str(SubSeq(a[2], i + 1, i + 1))
            ELSE a[2][i + 1]
       [] OTHER -> Raise("TypeError")

(* getattr(v, attr), for a method of sequences and an attribute of numbers. *)
PyAttribute(v, attr) ==
  CASE IsSequence(v) /\ attr = "count" -> Method(v, attr)
    [] v[1] = "str" /\ attr = "count" -> Method(v, attr)
    [] IsNumber(v) /\ attr = "real" ->
         IF v[1] = "float" THEN v ELSE Integer(Numerator(v))
    [] OTHER -> Raise("AttributeError")

(* A number of the type that a and b give together.                        *)
NumberOf(a, b, p, q) ==
  IF "float" \in {a[1], b[1]} THEN Float(p, q) ELSE Integer(p \div q)

(* p/q with the sign in the numerator, rounded down.                       *)
Floor(p, q) == IF q < 0 THEN (- p) \div (- q) ELSE p \div q

(* s repeated n times.                                                     *)
RECURSIVE Repeated(_, _)
Repeated(s, n) == IF n <= 0 THEN SubSeq(s, 1, 0) ELSE s \o Repeated(s, n - 1)

NumericOp(op, a, b) ==
  LET p == Numerator(a)  q == Denominator(a)
      r == Numerator(b)  s == Denominator(b)
      whole == Floor(p * s, q * r)
  IN CASE op = "Add" -> NumberOf(a, b, p * s + r * q, q * s)
       [] op = "Sub" -> NumberOf(a, b, p * s - r * q, q * s)
       [] op = "Mult" -> NumberOf(a, b, p * r, q * s)
       [] op \notin {"Add", "Sub", "Mult"} /\ r = 0 -> Raise("ZeroDivisionError")
       [] op = "Div" /\ r # 0 -> IF r < 0 THEN Float(- p * s, - q * r) ELSE Float(p * s, q * r)
       [] op = "FloorDiv" /\ r # 0 -> NumberOf(a, b, whole, 1)
       [] op = "Mod" /\ r # 0 -> NumberOf(a, b, p * s - whole * r * q, q * s)

(* a op b.  A string has no conversions in it, so that % only accepts a    *)
(* right side it may leave unused.                                         *)
PyArithmetic(op, a, b) ==
  CASE IsNumber(a) /\ IsNumber(b) -> NumericOp(op, a, b)
    [] op = "Add" /\ a[1] = b[1] /\ a[1] \in {"str", "list", "tuple"} ->
         <<a[1], a[2] \o b[2]>>
    [] op = "Mult" /\ a[1] \in {"str", "list", "tuple"} /\ b[1] \in {"int", "bool"} ->
         <<a[1], Repeated(a[2], Numerator(b))>>
    [] op = "Mult" /\ b[1] \in {"str", "list", "tuple"} /\ a[1] \in {"int", "bool"} ->
         <<b[1], Repeated(b[2], Numerator(a))>>
    [] op = "Mod" /\ a[1] = "str" /\ (b[1] \in {"list", "dict"} \/ b = Tuple(<<>>)) -> a
    [] OTHER -> Raise("TypeError")

(* -a and +a                                                               *)
PySigned(sign, a) ==
  IF IsNumber(a) THEN NumericOp("Mult", Integer(sign), a) ELSE Raise("TypeError")

(* dict(zip(keys, values)): the last of equal keys wins.                   *)
PyDict(keys, values) ==
  IF \E i \in DOMAIN keys : ~ Hashable(keys[i]) THEN Raise("TypeError")
  ELSE Dict([k \in {DictKey(keys[i]) : i \in DOMAIN keys} |->
               values[Max({i \in DOMAIN keys : DictKey(keys[i]) = k})]])

=============================================================================
