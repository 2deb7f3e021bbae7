------------------------------- MODULE PyData -------------------------------
(***************************************************************************)
(* Python values, as far as JSON bodies, YAML files, arguments and         *)
(* assertions have them.  A value is a tuple that begins with its type; an *)
(* operation yields a value, or <<"raise", exception>>.  A float is an     *)
(* exact fraction.                                                         *)
(***************************************************************************)
EXTENDS Integers, Sequences

None == <<"none">>
Bool(b) == <<"bool", b>>
Integer(n) == <<"int", n>>
Str(s) == <<"str", s>>
List(items) == <<"list", items>>
Tuple(items) == <<"tuple", items>>
Dict(f) == <<"dict", f>>
Method(v, attr) == <<"method", v, attr>>
Raise(exception) == <<"raise", exception>>

(* The dictionary a JSON object is read as: its keys are strings.          *)
Object(f) == Dict([k \in {Str(s) : s \in DOMAIN f} |-> f[k[2]]])

IsRaise(v) == v[1] = "raise"
IsNumber(v) == v[1] \in {"bool", "int", "float"}
IsSequence(v) == v[1] \in {"list", "tuple"}
IsTrue(v) == v = Bool(TRUE)

(* p/q in lowest terms, for q > 0.                                         *)
Float(p, q) ==
  LET g == CHOOSE d \in 1 .. q :
             /\ p % d = 0 /\ q % d = 0
             /\ \A e \in d + 1 .. q : p % e # 0 \/ q % e # 0
  IN <<"float", p \div g, q \div g>>

Numerator(v) == IF v[1] = "bool" THEN IF v[2] THEN 1 ELSE 0 ELSE v[2]
Denominator(v) == IF v[1] = "float" THEN v[3] ELSE 1

(* bool(v)                                                                 *)
Truthy(v) ==
  CASE v[1] = "none" -> FALSE
    [] IsNumber(v) -> Numerator(v) # 0
    [] v[1] = "str" -> v[2] # ""
    [] IsSequence(v) -> v[2] # <<>>
    [] v[1] = "dict" -> DOMAIN v[2] # {}
    [] OTHER -> TRUE

(* The key a dictionary files v under: 1, 1.0 and True are one key.        *)
DictKey(v) == IF IsNumber(v) /\ Denominator(v) = 1 THEN Integer(Numerator(v)) ELSE v

(* a is b, for None and booleans, the only objects contracts may compare   *)
(* so; the identity of other objects is left open by the language.         *)
PyIs(a, b) == Bool(a = b)

=============================================================================
