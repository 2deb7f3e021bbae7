------------------------------ MODULE Template ------------------------------
(***************************************************************************)
(* Path templates and read specs of contracts (template.py).  A template   *)
(* is the sequence of its parts: <<"text", string>>, or <<"var", names>>   *)
(* for a {variable}, its expression stripped and split at the dots.  A     *)
(* path is the sequence of the strings its parts become.                   *)
(***************************************************************************)
EXTENDS PyData, SequencesExt, TLC

(* str(v); how a float, a list or a dictionary is spelled is left open, it *)
(* is only known to be no order's id.                                      *)
StrOf(v) ==
  CASE v[1] = "str" -> v[2]
    [] v[1] = "int" -> ToString(v[2])
    [] v[1] = "none" -> "None"
    [] v[1] = "bool" -> IF v[2] THEN "True" ELSE "False"
    [] OTHER -> "<spelled>"

(* The value at a path of keys in args: args itself is a dictionary, and   *)
(* so must be every value on the way.                                      *)
Entry(value, name) ==
  IF value[1] = "dict" /\ Str(name) \in DOMAIN value[2] THEN value[2][Str(name)]
  ELSE Raise("TemplateSubstitutionError")

Walk(value, names) == FoldLeft(Entry, value, names)

(* Mutant of Lookup: a key that is missing counts as None.                 *)
LookupOrNone(names, args) ==
  LET value == Walk(args, names) IN IF IsRaise(value) THEN None ELSE value

(* An argument by its path, or the exception.                              *)
Lookup(names, args) == Walk(args, names)

GivenOrRaise(value) ==
  IF value = None THEN Raise("TemplateSubstitutionError") ELSE value

(* The name as the template has it.                                        *)
Dotted(names) == FoldLeft(LAMBDA s, name : s \o "." \o name, names[1], Tail(names))

(* What a variable stands for; a name that is none of the three forms is   *)
(* looked up whole, dots included.                                         *)
Variable(names, args, downstreamRef, resourceKey) ==
  CASE names = <<"downstream_ref">> -> GivenOrRaise(downstreamRef)
    [] names = <<"resource_key">> -> GivenOrRaise(resourceKey)
    [] Len(names) > 1 /\ names[1] = "args" -> Lookup(Tail(names), args)
    [] Len(names) = 1 /\ names[1] \notin {"downstream_ref", "resource_key"} ->
         Lookup(names, args)
    [] OTHER -> Lookup(<<Dotted(names)>>, args)

(* substitute_path: the path, or the exception of the first variable that  *)
(* cannot be resolved.                                                     *)
SubstitutePath(template, args, downstreamRef, resourceKey) ==
  LET values == [i \in DOMAIN template |->
                   IF template[i][1] = "text" THEN Str(template[i][2])
                   ELSE Variable(template[i][2], args, downstreamRef, resourceKey)]
      raised == {i \in DOMAIN values : IsRaise(values[i])}
  IN IF raised # {} THEN values[Min(raised)]
     ELSE <<"path", [i \in DOMAIN values |-> StrOf(values[i])]>>

(* parse_read_spec: a first word that is a method is the method; without   *)
(* one, or with any other, the whole string is a path to GET.  Words are   *)
(* given in upper case.                                                    *)
ParseReadSpec(spec) ==
  IF /\ spec[1][1] = "word" /\ Len(spec) > 1
     /\ spec[1][2] \in {"GET", "POST", "PUT", "DELETE", "PATCH", "HEAD"}
  THEN [method |-> spec[1][2], path |-> Tail(spec)]
  ELSE [method |-> "GET",
        path |-> IF spec[1][1] = "word" THEN <<<<"text", spec[1][2]>>>> \o Tail(spec)
                 ELSE spec]

=============================================================================
