--------------------------- MODULE EvaluatorProofs ---------------------------
(***************************************************************************)
(* Lemmas about the evaluator, for any trees, any depth limit, any context *)
(* and any values and operators the interpreter may have: that _eval_node  *)
(* and _check_ast_safety, which call themselves, are what their equations  *)
(* say, what each class of node is evaluated to, and what evaluation may   *)
(* yield.                                                                  *)
(***************************************************************************)
EXTENDS Evaluator, FiniteSetTheorems, SequenceTheorems, WellFoundedInduction, TLAPS

(* What holds of 0, and of n + 1 when of n, holds of every number.         *)
LEMMA EveryNatural ==
  ASSUME NEW P \in SUBSET Nat, 0 \in P, \A n \in P : n + 1 \in P
  PROVE  \A n \in Nat : n \in P
<1> SUFFICES ASSUME Nat \ P # {} PROVE FALSE OBVIOUS
<1> DEFINE R == {ss \in Nat \X Nat : ss[1] < ss[2]}
<1>1. IsWellFoundedOn(R, Nat)
  BY NatLessThanWellFounded DEF OpToRel
<1>2. PICK x \in Nat \ P : \A y \in Nat \ P : ~ (<<y, x>> \in R)
  <2>1. Nat \ P \subseteq Nat OBVIOUS
  <2> HIDE DEF R
  <2> QED BY <1>1, <2>1, WFMin
<1>3. \A y \in Nat \ P : ~ (y < x)
  BY <1>2
<1>4. x # 0 /\ x - 1 \in Nat /\ x - 1 < x
  BY <1>2
<1>5. x - 1 \in P
  BY <1>3, <1>4
<1> QED BY <1>2, <1>4, <1>5

(* The trees of at most a height.                                          *)
UpTo(k) == UNION {Forest[l] : l \in 1 .. k}

(* The layers of the forest.                                               *)
LEMMA Layering ==
  /\ Len(Forest) \in Nat /\ Node = UpTo(Len(Forest)) /\ UpTo(0) = {}
  /\ \A k \in Nat : UpTo(k + 1) = UpTo(k) \cup Forest[k + 1]
  /\ \A k \in Nat : k < Len(Forest) => \A n \in Forest[k + 1] : Children(n) \subseteq UpTo(k)
  /\ \A k \in Nat : k <= Len(Forest) => UpTo(k) \subseteq Node
<1>1. Len(Forest) \in Nat /\ DOMAIN Forest = 1 .. Len(Forest)
  BY ForestAssumption
<1>2. Node = UpTo(Len(Forest)) /\ UpTo(0) = {}
  BY <1>1 DEF Node, UpTo
<1>3. ASSUME NEW k \in Nat PROVE UpTo(k + 1) = UpTo(k) \cup Forest[k + 1]
  <2>1. 1 .. k + 1 = (1 .. k) \cup {k + 1} OBVIOUS
  <2> QED BY <2>1 DEF UpTo
<1>4. ASSUME NEW k \in Nat, k < Len(Forest), NEW n \in Forest[k + 1]
      PROVE  Children(n) \subseteq UpTo(k)
  <2>1. k + 1 \in DOMAIN Forest /\ (k + 1) - 1 = k BY <1>1, <1>4
  <2>2. UNION {Children(m) : m \in Forest[k + 1]} \subseteq UNION {Forest[l] : l \in 1 .. k}
    BY <2>1, ForestAssumption
  <2> QED BY <2>2 DEF UpTo
<1>5. ASSUME NEW k \in Nat, k <= Len(Forest) PROVE UpTo(k) \subseteq Node
  <2>1. 1 .. k \subseteq DOMAIN Forest BY <1>1, <1>5
  <2> QED BY <2>1 DEF UpTo, Node
<1> QED BY <1>1, <1>2, <1>3, <1>4, <1>5

(* The parts of a tree of at most a height are lower.                      *)
LEMMA Layered ==
  \A k \in Nat : k < Len(Forest) => \A n \in UpTo(k + 1) : Children(n) \subseteq UpTo(k)
<1> DEFINE K == {k \in Nat : k < Len(Forest) =>
                   \A n \in UpTo(k + 1) : Children(n) \subseteq UpTo(k)}
<1>1. 0 \in K
  <2>1. UpTo(0 + 1) = Forest[0 + 1] BY Layering
  <2> QED BY <2>1, Layering
<1>2. ASSUME NEW k \in K PROVE k + 1 \in K
  <2>1. SUFFICES ASSUME k + 1 < Len(Forest), NEW n \in UpTo(k + 1 + 1)
                 PROVE  Children(n) \subseteq UpTo(k + 1)
    OBVIOUS
  <2>2. k \in Nat /\ k + 1 \in Nat /\ k < Len(Forest) BY <2>1, Layering
  <2>3. UpTo(k) \subseteq UpTo(k + 1) /\ UpTo(k + 1 + 1) = UpTo(k + 1) \cup Forest[k + 1 + 1]
    BY <2>2, Layering
  <2>4. CASE n \in UpTo(k + 1) BY <2>2, <2>3, <2>4
  <2>5. CASE n \in Forest[k + 1 + 1] BY <2>1, <2>2, <2>5, Layering
  <2> QED BY <2>3, <2>4, <2>5
<1> HIDE DEF K
<1>3. \A k \in Nat : k \in K
  <2>1. K \in SUBSET Nat BY DEF K
  <2> QED BY <1>1, <1>2, <2>1, EveryNatural
<1> QED BY <1>3 DEF K

(* Parts of trees are trees.                                               *)
LEMMA PartsAreNodes == \A n \in Node : Children(n) \subseteq Node
<1>1. \A h \in DOMAIN Forest : 1 .. h - 1 \subseteq DOMAIN Forest
  BY ForestAssumption
<1> QED BY <1>1, ForestAssumption DEF Node

(* TreeInduction: what holds of a tree whenever it holds of its parts      *)
(* holds of every tree.                                                    *)
LEMMA TreeInduction ==
  ASSUME NEW P, \A n \in Node : Children(n) \subseteq P => n \in P
  PROVE  Node \subseteq P
<1> DEFINE K == {k \in Nat : k <= Len(Forest) => UpTo(k) \subseteq P}
<1>1. 0 \in K BY Layering
<1>2. ASSUME NEW k \in K PROVE k + 1 \in K
  <2>1. SUFFICES ASSUME k + 1 <= Len(Forest) PROVE UpTo(k + 1) \subseteq P OBVIOUS
  <2>2. k \in Nat /\ k < Len(Forest) /\ k <= Len(Forest) BY <2>1, Layering
  <2>3. UpTo(k) \subseteq P BY <2>2
  <2>4. Forest[k + 1] \subseteq P
    <3>1. \A n \in Forest[k + 1] : Children(n) \subseteq P BY <2>2, <2>3, Layering
    <3>2. Forest[k + 1] \subseteq Node BY <2>1, <2>2, Layering
    <3> QED BY <3>1, <3>2
  <2> QED BY <2>2, <2>3, <2>4, Layering
<1> HIDE DEF K
<1>3. \A k \in Nat : k \in K
  <2>1. K \in SUBSET Nat BY DEF K
  <2> QED BY <1>1, <1>2, <2>1, EveryNatural
<1> QED BY <1>3, Layering DEF K

-----------------------------------------------------------------------------
(* A function that evaluates the trees of S.                               *)
Evaluates(f, S, c) ==
  /\ f = [n \in Node |-> f[n]]
  /\ \A n \in S : f[n] = EvalStep([child \in Children(n) |-> f[child]], n, c)

(* Every tree can be evaluated.                                            *)
LEMMA EvaluationExists ==
  ASSUME NEW c PROVE \E f : Evaluates(f, Node, c)
<1> DEFINE K == {k \in Nat : k <= Len(Forest) => \E f : Evaluates(f, UpTo(k), c)}
<1>1. 0 \in K
  <2> DEFINE f == [n \in Node |-> None]
  <2>1. Evaluates(f, {}, c) BY DEF Evaluates
  <2> HIDE DEF f
  <2> QED BY <2>1, Layering
<1>2. ASSUME NEW k \in K PROVE k + 1 \in K
  <2>1. SUFFICES ASSUME k + 1 <= Len(Forest) PROVE \E f : Evaluates(f, UpTo(k + 1), c) OBVIOUS
  <2>2. k \in Nat /\ k < Len(Forest) /\ k <= Len(Forest) BY <2>1, Layering
  <2>3. PICK f : Evaluates(f, UpTo(k), c) BY <2>2
  <2> DEFINE g == [n \in Node |-> EvalStep([child \in Children(n) |-> f[child]], n, c)]
  <2>4. g = [n \in Node |-> g[n]] OBVIOUS
  <2>5. \A n \in UpTo(k) : g[n] = f[n]
    <3>1. UpTo(k) \subseteq Node BY <2>2, Layering
    <3> QED BY <2>3, <3>1 DEF Evaluates
  <2>6. ASSUME NEW n \in UpTo(k + 1)
        PROVE  g[n] = EvalStep([child \in Children(n) |-> g[child]], n, c)
    <3>1. n \in Node BY <2>1, <2>2, Layering
    <3>2. Children(n) \subseteq UpTo(k)
      BY <2>2, Layered
    <3>3. [child \in Children(n) |-> g[child]] = [child \in Children(n) |-> f[child]]
      <4> HIDE DEF g
      <4> QED BY <2>5, <3>2
    <3>4. g[n] = EvalStep([child \in Children(n) |-> f[child]], n, c) BY <3>1
    <3> HIDE DEF g
    <3> QED BY <3>3, <3>4
  <2> HIDE DEF g
  <2> QED BY <2>4, <2>6 DEF Evaluates
<1> HIDE DEF K
<1>3. \A k \in Nat : k \in K
  <2>1. K \in SUBSET Nat BY DEF K
  <2> QED BY <1>1, <1>2, <2>1, EveryNatural
<1> QED BY <1>3, Layering DEF K

(* EvalNodeIs: _eval_node of a tree from _eval_node of its parts.          *)
LEMMA EvalNodeIs ==
  ASSUME NEW c, NEW n \in Node
  PROVE  EvalNode(n, c) = EvalStep([child \in Children(n) |-> EvalNode(child, c)], n, c)
<1> DEFINE value == CHOOSE f :
             f = [m \in Node |-> EvalStep([child \in Children(m) |-> f[child]], m, c)]
<1>1. value = [m \in Node |-> EvalStep([child \in Children(m) |-> value[child]], m, c)]
  <2>1. PICK f : Evaluates(f, Node, c) BY EvaluationExists
  <2>2. f = [m \in Node |-> EvalStep([child \in Children(m) |-> f[child]], m, c)]
    BY <2>1 DEF Evaluates
  <2> QED BY <2>2
<1>2. \A m \in Node : EvalNode(m, c) = value[m]
  BY DEF EvalNode
<1> HIDE DEF value
<1>3. [child \in Children(n) |-> EvalNode(child, c)] = [child \in Children(n) |-> value[child]]
  BY <1>2, PartsAreNodes
<1> QED BY <1>1, <1>2, <1>3

(* RecursivePredicate: a predicate on trees may be defined by which of a   *)
(* tree's parts it holds of.                                               *)
LEMMA RecursivePredicate ==
  ASSUME NEW G
  PROVE  \E T \in SUBSET Node : \A n \in Node : n \in T <=> T \cap Children(n) \in G[n]
<1> DEFINE Fits(T, S) == \A n \in S : n \in T <=> T \cap Children(n) \in G[n]
           K == {k \in Nat : k <= Len(Forest) => \E T \in SUBSET Node : Fits(T, UpTo(k))}
<1>1. 0 \in K
  <2>1. Fits({}, UpTo(0)) BY Layering
  <2> QED BY <2>1
<1>2. ASSUME NEW k \in K PROVE k + 1 \in K
  <2>1. SUFFICES ASSUME k + 1 <= Len(Forest)
                 PROVE  \E T \in SUBSET Node : Fits(T, UpTo(k + 1))
    OBVIOUS
  <2>2. k \in Nat /\ k < Len(Forest) /\ k <= Len(Forest) BY <2>1, Layering
  <2>3. PICK T \in SUBSET Node : Fits(T, UpTo(k)) BY <2>2
  <2> DEFINE U == {n \in Node : T \cap Children(n) \in G[n]}
  <2>4. UpTo(k) \subseteq Node /\ UpTo(k + 1) \subseteq Node
    BY <2>1, <2>2, Layering
  <2>5. \A n \in UpTo(k) : n \in U <=> n \in T
    BY <2>3, <2>4
  <2>6. ASSUME NEW n \in UpTo(k + 1) PROVE n \in U <=> U \cap Children(n) \in G[n]
    <3>1. Children(n) \subseteq UpTo(k) BY <2>2, Layered
    <3> HIDE DEF U
    <3>2. U \cap Children(n) = T \cap Children(n) BY <2>5, <3>1
    <3> QED BY <2>4, <3>2 DEF U
  <2> QED BY <2>6
<1> HIDE DEF K
<1>3. \A k \in Nat : k \in K
  <2>1. K \in SUBSET Nat BY DEF K
  <2> QED BY <1>1, <1>2, <2>1, EveryNatural
<1>4. PICK T \in SUBSET Node : Fits(T, UpTo(Len(Forest)))
  <2>1. Len(Forest) \in K /\ Len(Forest) <= Len(Forest) BY <1>3, Layering
  <2> HIDE DEF Fits
  <2> QED BY <2>1 DEF K
<1> QED BY <1>4, Layering

(* The trees that are safe at each depth.                                  *)
Safe(S) ==
  \A n \in Node, depth \in 1 .. MaxAstDepth + 1 :
    <<n, depth>> \in S <=>
      /\ depth <= MaxAstDepth /\ AllowedNode(n)
      /\ \A child \in Children(n) : <<child, depth + 1>> \in S

(* SafetyIs: what _check_ast_safety accepts.                               *)
LEMMA SafetyIs ==
  \E S : Safe(S) /\ \A n \in Node : CheckAstSafety(n) <=> <<n, 1>> \in S
<1> DEFINE Depth == 1 .. MaxAstDepth + 1
           Pairs == Node \X Depth
           Condition(f, p) ==
             /\ p[2] <= MaxAstDepth
             /\ AllowedNode(p[1])
             /\ \A child \in Children(p[1]) : f[<<child, p[2] + 1>>]
           Fits(f, k) == /\ f = [p \in Pairs |-> f[p]]
                         /\ \A p \in Pairs :
                              p[2] > MaxAstDepth - k => f[p] = Condition(f, p)
           K == {k \in Nat : \E f : Fits(f, k)}
<1>0. MaxAstDepth \in Nat BY MaxAstDepthAssumption
<1>1. 0 \in K
  <2> DEFINE f == [p \in Pairs |-> FALSE]
  <2>1. Fits(f, 0)
    BY <1>0
  <2> QED BY <2>1
<1>2. ASSUME NEW k \in K PROVE k + 1 \in K
  <2>1. PICK f : Fits(f, k) OBVIOUS
  <2> DEFINE g == [p \in Pairs |-> Condition(f, p)]
  <2>2. k \in Nat OBVIOUS
  <2>3. \A p \in Pairs : g[p] = Condition(f, p) OBVIOUS
  <2>4. \A p \in Pairs : p[2] > MaxAstDepth - k => g[p] = f[p]
    <3> HIDE DEF g
    <3> QED BY <2>1, <2>3
  <2>5. ASSUME NEW p \in Pairs, p[2] > MaxAstDepth - (k + 1)
        PROVE  g[p] = Condition(g, p)
    <3>0. g[p] = Condition(f, p) BY <2>3
    <3>1. CASE p[2] > MaxAstDepth 
      <4> HIDE DEF g
      <4> QED BY <1>0, <3>0, <3>1
    <3>2. CASE p[2] <= MaxAstDepth
      <4>1. p[2] + 1 \in Depth /\ p[2] + 1 > MaxAstDepth - k BY <1>0, <2>2, <2>5, <3>2
      <4>2. ASSUME NEW child \in Children(p[1])
            PROVE  g[<<child, p[2] + 1>>] = f[<<child, p[2] + 1>>]
        <5>1. <<child, p[2] + 1>> \in Pairs BY <4>1, PartsAreNodes
        <5> HIDE DEF g
        <5> QED BY <2>4, <4>1, <5>1
      <4> HIDE DEF g
      <4> QED BY <3>0, <4>2
    <3> QED BY <1>0, <3>1, <3>2
  <2>6. g = [p \in Pairs |-> g[p]] OBVIOUS
  <2> HIDE DEF g, Condition
  <2>7. Fits(g, k + 1) BY <2>5, <2>6
  <2>8. k + 1 \in Nat BY <2>2
  <2> HIDE DEF Fits
  <2> QED BY <2>7, <2>8
<1>3. PICK f : Fits(f, MaxAstDepth)
  <2>1. K \in SUBSET Nat OBVIOUS
  <2> HIDE DEF K
  <2>2. MaxAstDepth \in K BY <1>0, <1>1, <1>2, <2>1, EveryNatural
  <2> QED BY <2>2 DEF K
<1>4. \A p \in Pairs : f[p] = Condition(f, p)
  <2>1. \A p \in Pairs : p[2] > MaxAstDepth - MaxAstDepth BY <1>0
  <2> HIDE DEF Condition
  <2> QED BY <1>3, <2>1
<1> DEFINE safe == CHOOSE s : s = [p \in Pairs |-> Condition(s, p)]
<1>5. safe = [p \in Pairs |-> Condition(safe, p)]
  <2>1. f = [p \in Pairs |-> Condition(f, p)] 
    <3> HIDE DEF Condition
    <3> QED BY <1>3, <1>4
  <2> HIDE DEF Condition
  <2> QED BY <2>1
<1>6. \A n \in Node : CheckAstSafety(n) = safe[<<n, 1>>]
  BY DEF CheckAstSafety
<1> HIDE DEF safe
<1> DEFINE S == {p \in Pairs : safe[p]}
<1>7. ASSUME NEW n \in Node, NEW d \in Depth
      PROVE  <<n, d>> \in S <=> Condition(safe, <<n, d>>)
  BY <1>5
<1>8. ASSUME NEW n \in Node, NEW d \in Depth
      PROVE  <<n, d>> \in S <=> /\ d <= MaxAstDepth /\ AllowedNode(n)
                               /\ \A child \in Children(n) : <<child, d + 1>> \in S
  <2>1. CASE d > MaxAstDepth BY <1>0, <1>7, <2>1
  <2>2. CASE d <= MaxAstDepth
    <3>1. d + 1 \in Depth BY <1>0, <2>2
    <3>2. \A child \in Children(n) : <<child, d + 1>> \in S <=> safe[<<child, d + 1>>]
      BY <3>1, PartsAreNodes
    <3> HIDE DEF S
    <3> QED BY <1>7, <3>2
  <2> QED BY <1>0, <2>1, <2>2
<1>9. 1 \in Depth BY <1>0
<1>10. \A n \in Node : CheckAstSafety(n) <=> <<n, 1>> \in S
  BY <1>6, <1>9
<1> HIDE DEF S
<1> QED BY <1>8, <1>10 DEF Safe

-----------------------------------------------------------------------------
(* What _eval_node returns for the parts of a tree.                        *)
Part(m, c) == IF m = NoKeyNode THEN None ELSE EvalNode(m, c)
Parts(ms, c) == [i \in DOMAIN ms |-> Part(ms[i], c)]

(* EvalLeaf and the lemmas after it: _eval_node, class by class.           *)
LEMMA EvalLeaf ==
  ASSUME NEW c, NEW n \in Node
  PROVE  /\ n[1] = "Constant" => EvalNode(n, c) = n[2]
         /\ n[1] = "Name" => EvalNode(n, c) = EvalName(n[2], c)
BY EvalNodeIs DEF EvalStep

(* value.attr: of what the value is evaluated to.                          *)
LEMMA EvalAttributeNode ==
  ASSUME NEW c, NEW n \in Node, n[1] = "Attribute"
  PROVE  EvalNode(n, c) = Then(Part(n[2], c), LAMBDA target : EvalAttribute(target, n[3]))
<1>1. n[2] \in Children(n) BY DEF Children
<1> QED BY <1>1, EvalNodeIs DEF EvalStep, Part, Then

(* value[slice]: the value first, then the slice.                          *)
LEMMA EvalSubscriptNode ==
  ASSUME NEW c, NEW n \in Node, n[1] = "Subscript"
  PROVE  EvalNode(n, c) =
           Then(Part(n[2], c), LAMBDA x :
             Then(Part(n[3], c), LAMBDA y : EvalSubscript(x, y)))
<1>1. n[2] \in Children(n) /\ n[3] \in Children(n) BY DEF Children
<1> QED BY <1>1, EvalNodeIs DEF EvalStep, Part, Then

(* left op1 b op2 c: the links, over the parts' results.                   *)
LEMMA EvalCompareNode ==
  ASSUME NEW c, NEW n \in Node, n[1] = "Compare"
  PROVE  EvalNode(n, c) = EvalLinks(Part(n[2], c), n[3], Parts(n[4], c))
<1>1. n[2] \in Children(n) /\ \A i \in DOMAIN n[4] : n[4][i] \in Children(n)
  BY DEF Children, Range
<1> DEFINE value == [child \in Children(n) |-> EvalNode(child, c)]
           rights == [i \in DOMAIN n[4] |->
                        IF n[4][i] = NoKeyNode THEN None ELSE value[n[4][i]]]
           left == IF n[2] = NoKeyNode THEN None ELSE value[n[2]]
<1>2. EvalNode(n, c) = EvalLinks(left, n[3], rights)
  BY EvalNodeIs DEF EvalStep
<1>3. rights = Parts(n[4], c) BY <1>1 DEF Parts, Part
<1>4. left = Part(n[2], c) BY <1>1 DEF Part
<1> QED BY <1>2, <1>3, <1>4

(* and, or: over the parts' results.                                       *)
LEMMA EvalBoolOpNode ==
  ASSUME NEW c, NEW n \in Node, n[1] = "BoolOp"
  PROVE  EvalNode(n, c) = EvalBoolOp(n[2], Parts(n[3], c))
<1>1. \A i \in DOMAIN n[3] : n[3][i] \in Children(n)
  BY DEF Children, Range
<1> DEFINE value == [child \in Children(n) |-> EvalNode(child, c)]
           results == [i \in DOMAIN n[3] |->
                        IF n[3][i] = NoKeyNode THEN None ELSE value[n[3][i]]]
<1>2. EvalNode(n, c) = EvalBoolOp(n[2], results)
  BY EvalNodeIs DEF EvalStep
<1>3. results = Parts(n[3], c) BY <1>1 DEF Parts, Part
<1> QED BY <1>2, <1>3

(* not, -, +: of what the operand is evaluated to.                         *)
LEMMA EvalUnaryOpNode ==
  ASSUME NEW c, NEW n \in Node, n[1] = "UnaryOp"
  PROVE  EvalNode(n, c) = Then(Part(n[3], c), LAMBDA operand : EvalUnaryOp(n[2], operand))
<1>1. n[3] \in Children(n) BY DEF Children
<1> QED BY <1>1, EvalNodeIs DEF EvalStep, Part, Then

(* left op right: the left side first.                                     *)
LEMMA EvalBinOpNode ==
  ASSUME NEW c, NEW n \in Node, n[1] = "BinOp"
  PROVE  EvalNode(n, c) =
           Then(Part(n[3], c), LAMBDA x :
             Then(Part(n[4], c), LAMBDA y : EvalBinOp(n[2], x, y)))
<1>1. n[3] \in Children(n) /\ n[4] \in Children(n) BY DEF Children
<1> QED BY <1>1, EvalNodeIs DEF EvalStep, Part, Then

(* Lists and tuples are made of their items' results.                      *)
LEMMA EvalListNode ==
  ASSUME NEW c, NEW n \in Node, n[1] \in {"List", "Tuple"}
  PROVE  EvalNode(n, c) =
           IF n[1] = "List" THEN EvalItems(Parts(n[2], c), List)
           ELSE EvalItems(Parts(n[2], c), Tuple)
<1>1. \A i \in DOMAIN n[2] : n[2][i] \in Children(n)
  BY DEF Children, Range
<1> DEFINE value == [child \in Children(n) |-> EvalNode(child, c)]
           results == [i \in DOMAIN n[2] |->
                        IF n[2][i] = NoKeyNode THEN None ELSE value[n[2][i]]]
<1>2. EvalNode(n, c) = IF n[1] = "List" THEN EvalItems(results, List)
                       ELSE EvalItems(results, Tuple)
  BY EvalNodeIs DEF EvalStep, EvalItems
<1>3. results = Parts(n[2], c) BY <1>1 DEF Parts, Part
<1> HIDE DEF results
<1> QED BY <1>2, <1>3 DEF EvalItems

(* A sequence of members of A is one of members of a larger set.           *)
LEMMA SeqMonotone ==
  ASSUME NEW A, NEW B, A \subseteq B, NEW s \in Seq(A)
  PROVE  s \in Seq(B)
<1>1. Len(s) \in Nat /\ \A i \in 1 .. Len(s) : s[i] \in B OBVIOUS
<1>2. s = [i \in 1 .. Len(s) |-> s[i]] OBVIOUS
<1> QED BY <1>1, <1>2

(* The keys and the values of a dictionary's display, in one list.         *)
LEMMA DictParts ==
  ASSUME NEW n \in Node, n[1] = "Dict"
  PROVE  /\ n[2] \o n[3] \in Seq(Children(n) \cup {NoKeyNode})
         /\ Len(n[2]) \in Nat /\ Len(n[2] \o n[3]) = Len(n[2]) + Len(n[2])
<1> DEFINE S == Children(n) \cup {NoKeyNode}
<1>1. /\ n[2] \in Seq(Range(n[2])) /\ n[3] \in Seq(Range(n[3])) /\ Len(n[2]) = Len(n[3])
  BY ForestAssumption DEF IsList
<1>2. Range(n[2]) \subseteq S /\ Range(n[3]) \subseteq S BY DEF Children
<1> HIDE DEF S
<1>3. n[2] \in Seq(S)
  <2>1. PICK A : A = Range(n[2]) OBVIOUS
  <2>2. A \subseteq S /\ n[2] \in Seq(A) BY <1>1, <1>2, <2>1
  <2> QED BY <2>2, SeqMonotone
<1>4. n[3] \in Seq(S)
  <2>1. PICK A : A = Range(n[3]) OBVIOUS
  <2>2. A \subseteq S /\ n[3] \in Seq(A) BY <1>1, <1>2, <2>1
  <2> QED BY <2>2, SeqMonotone
<1>5. PICK a \in Seq(S), b \in Seq(S) : a = n[2] /\ b = n[3] BY <1>3, <1>4
<1>6. a \o b \in Seq(S) /\ Len(a \o b) = Len(a) + Len(b) /\ Len(a) \in Nat
  BY ConcatProperties
<1> QED BY <1>1, <1>5, <1>6 DEF S

(* Dictionaries are made of their keys' and values' results.               *)
LEMMA EvalDictNode ==
  ASSUME NEW c, NEW n \in Node, n[1] = "Dict"
  PROVE  EvalNode(n, c) =
           EvalItems(Parts(n[2] \o n[3], c), LAMBDA items :
             DictOf(SubSeq(items, 1, Len(n[2])),
                    SubSeq(items, Len(n[2]) + 1, 2 * Len(n[2]))))
<1>3. \A i \in DOMAIN (n[2] \o n[3]) :
        (n[2] \o n[3])[i] = NoKeyNode \/ (n[2] \o n[3])[i] \in Children(n)
  <2>1. PICK z : z = n[2] \o n[3] OBVIOUS
  <2>2. z \in Seq(Children(n) \cup {NoKeyNode}) BY <2>1, DictParts
  <2>3. \A i \in DOMAIN z : z[i] \in Children(n) \cup {NoKeyNode} BY <2>2
  <2> QED BY <2>1, <2>3
<1> DEFINE value == [child \in Children(n) |-> EvalNode(child, c)]
           nodes == n[2] \o n[3]
           results == [i \in DOMAIN nodes |->
                        IF nodes[i] = NoKeyNode THEN None ELSE value[nodes[i]]]
<1>4. EvalNode(n, c) = EvalItems(results, LAMBDA items :
             DictOf(SubSeq(items, 1, Len(n[2])),
                    SubSeq(items, Len(n[2]) + 1, 2 * Len(n[2]))))
  BY EvalNodeIs DEF EvalStep, EvalItems
<1>5. results = Parts(nodes, c) BY <1>3 DEF Parts, Part
<1> HIDE DEF results, nodes
<1> QED BY <1>4, <1>5 DEF EvalItems, nodes

-----------------------------------------------------------------------------
(* The least of some natural numbers is one of them.                       *)
LEMMA MinIsMember ==
  ASSUME NEW S \in SUBSET Nat, S # {}
  PROVE  Min(S) \in S /\ \A y \in S : Min(S) <= y
<1> DEFINE R == {ss \in Nat \X Nat : ss[1] < ss[2]}
<1>1. IsWellFoundedOn(R, Nat)
  BY NatLessThanWellFounded DEF OpToRel
<1>2. PICK x \in S : \A y \in S : ~ (<<y, x>> \in R)
  <2> HIDE DEF R
  <2> QED BY <1>1, WFMin
<1>3. ASSUME NEW y \in S PROVE x <= y
  <2>1. x \in Nat /\ y \in Nat OBVIOUS
  <2>2. ~ (<<y, x>> \in R) BY <1>2
  <2>3. ~ (y < x) BY <2>1, <2>2
  <2> QED BY <2>1, <2>3
<1> QED BY <1>3 DEF Min

(* One link of a comparison.                                               *)
Link(op, a, b) ==
  Then(a, LAMBDA x : Then(b, LAMBDA y : EvalCompareOp(op, x, y)))

(* What the loop makes of the links.                                       *)
LinkResult(link) == IF IsTrue(link) THEN Bool(TRUE) ELSE Then(link, LAMBDA passed : Bool(FALSE))

(* A comparison of one link.                                               *)
LEMMA OneLink ==
  ASSUME NEW left, NEW ops, NEW rights, DOMAIN ops = {1}
  PROVE  EvalLinks(left, ops, rights) = LinkResult(Link(ops[1], left, rights[1]))
<1> DEFINE k == Link(ops[1], left, rights[1])
           links == [i \in DOMAIN ops |->
                       Then(LeftOf(i, left, rights), LAMBDA a :
                         Then(rights[i], LAMBDA b : EvalCompareOp(ops[i], a, b)))]
           ends == {i \in DOMAIN ops : ~ IsTrue(links[i])}
<1>1. links[1] = k BY DEF LeftOf, Then, Link
<1>2. EvalLinks(left, ops, rights) =
        IF ends = {} THEN Bool(TRUE)
        ELSE Then(links[Min(ends)], LAMBDA passed : Bool(FALSE))
  BY DEF EvalLinks
<1> HIDE DEF k, links
<1>3. CASE IsTrue(k)
  <2>1. ends = {} BY <1>1, <1>3
  <2> HIDE DEF ends
  <2> QED BY <1>2, <1>3, <2>1 DEF LinkResult, k
<1>4. CASE ~ IsTrue(k)
  <2>1. ends = {1} BY <1>1, <1>4
  <2>2. Min(ends) = 1 BY <2>1, MinIsMember
  <2> HIDE DEF ends
  <2> QED BY <1>1, <1>2, <1>4, <2>1, <2>2 DEF LinkResult, Then, k
<1> QED BY <1>3, <1>4

(* A chain of two links.                                                   *)
LEMMA TwoLinks ==
  ASSUME NEW left, NEW ops, NEW rights, DOMAIN ops = {1, 2}
  PROVE  EvalLinks(left, ops, rights) =
           IF IsTrue(Link(ops[1], left, rights[1]))
           THEN LinkResult(Link(ops[2], rights[1], rights[2]))
           ELSE LinkResult(Link(ops[1], left, rights[1]))
<1> DEFINE k == Link(ops[1], left, rights[1])
           l == Link(ops[2], rights[1], rights[2])
           links == [i \in DOMAIN ops |->
                       Then(LeftOf(i, left, rights), LAMBDA a :
                         Then(rights[i], LAMBDA b : EvalCompareOp(ops[i], a, b)))]
           ends == {i \in DOMAIN ops : ~ IsTrue(links[i])}
<1>1. links[1] = k /\ links[2] = l BY DEF LeftOf, Then, Link
<1>2. EvalLinks(left, ops, rights) =
        IF ends = {} THEN Bool(TRUE)
        ELSE Then(links[Min(ends)], LAMBDA passed : Bool(FALSE))
  BY DEF EvalLinks
<1> HIDE DEF k, l, links
<1>3. CASE ~ IsTrue(k)
  <2>1. 1 \in ends /\ ends \subseteq {1, 2} BY <1>1, <1>3
  <2>2. Min(ends) = 1 BY <2>1, MinIsMember
  <2> HIDE DEF ends
  <2> QED BY <1>1, <1>2, <1>3, <2>1, <2>2 DEF LinkResult, Then, k, l
<1>4. CASE IsTrue(k) /\ IsTrue(l)
  <2>1. ends = {} BY <1>1, <1>4
  <2> HIDE DEF ends
  <2> QED BY <1>2, <1>4, <2>1 DEF LinkResult, k, l
<1>5. CASE IsTrue(k) /\ ~ IsTrue(l)
  <2>1. ends = {2} BY <1>1, <1>5
  <2>2. Min(ends) = 2 BY <2>1, MinIsMember
  <2> HIDE DEF ends
  <2> QED BY <1>1, <1>2, <1>5, <2>1, <2>2 DEF LinkResult, Then, k, l
<1> QED BY <1>3, <1>4, <1>5

(* True and False are values, and what bool() makes of them.               *)
LEMMA BooleanValues ==
  /\ ~ IsRaise(Bool(TRUE)) /\ Truthy(Bool(TRUE)) = TRUE
  /\ ~ IsRaise(Bool(FALSE)) /\ Truthy(Bool(FALSE)) = FALSE
  /\ IsTrue(Bool(TRUE)) /\ ~ IsTrue(Bool(FALSE))
<1>1. ~ IsRaise(Bool(TRUE)) /\ ~ IsRaise(Bool(FALSE)) BY DEF IsRaise, Bool
<1>2. Bool(TRUE)[1] = "bool" /\ Bool(TRUE)[2] = TRUE BY DEF Bool
<1>3. Bool(FALSE)[1] = "bool" /\ Bool(FALSE)[2] = FALSE BY DEF Bool
<1>4. Numerator(Bool(TRUE)) = 1 BY <1>2 DEF Numerator
<1>5. Numerator(Bool(FALSE)) = 0 BY <1>3 DEF Numerator
<1>6. \A v : v[1] = "bool" => Truthy(v) = (Numerator(v) # 0)
  BY DEF Truthy, IsNumber, IsSequence
<1>7. Truthy(Bool(TRUE)) = TRUE
  <2>1. (1 # 0) = TRUE OBVIOUS
  <2>2. Truthy(Bool(TRUE)) = (1 # 0) BY <1>2, <1>4, <1>6, Zenon
  <2> QED BY <2>1, <2>2, Zenon
<1>10. Truthy(Bool(FALSE)) = FALSE BY <1>3, <1>5, <1>6
<1>8. IsTrue(Bool(TRUE)) BY DEF IsTrue
<1>9. ~ IsTrue(Bool(FALSE)) BY <1>2, <1>3 DEF IsTrue
<1> QED BY <1>1, <1>7, <1>8, <1>9, <1>10

(* The conjunction of two comparisons.                                     *)
LEMMA Conjunction ==
  ASSUME NEW k, NEW l, NEW results, DOMAIN results = {1, 2},
         results[1] = LinkResult(k), results[2] = LinkResult(l)
  PROVE  EvalBoolOp("And", results) = IF IsTrue(k) THEN LinkResult(l) ELSE LinkResult(k)
<1> DEFINE ends == {i \in DOMAIN results :
                     IsRaise(results[i]) \/ Truthy(results[i]) = ("And" = "Or")}
<1>1. EvalBoolOp("And", results) =
        IF ends = {} THEN Bool("And" = "And")
        ELSE Then(results[Min(ends)], LAMBDA v : Bool("And" = "Or"))
  BY DEF EvalBoolOp
<1>2. ~ IsRaise(Bool(TRUE)) /\ Truthy(Bool(TRUE)) = TRUE BY BooleanValues
<1>3. ~ IsRaise(Bool(FALSE)) /\ Truthy(Bool(FALSE)) = FALSE BY BooleanValues
<1>4. ASSUME NEW m, IsTrue(m)
      PROVE  LinkResult(m) = Bool(TRUE)
  BY <1>4 DEF LinkResult
<1>5. ASSUME NEW m, ~ IsTrue(m)
      PROVE  /\ IsRaise(LinkResult(m)) \/ LinkResult(m) = Bool(FALSE)
             /\ Then(LinkResult(m), LAMBDA v : Bool(FALSE)) = LinkResult(m)
  BY <1>3, <1>5 DEF LinkResult, Then
<1>6. CASE ~ IsTrue(k)
  <2>1. 1 \in ends /\ ends \subseteq {1, 2} BY <1>3, <1>5, <1>6
  <2>2. Min(ends) = 1 BY <2>1, MinIsMember
  <2> HIDE DEF ends
  <2> QED BY <1>1, <1>5, <1>6, <2>1, <2>2 DEF Then
<1>7. CASE IsTrue(k) /\ ~ IsTrue(l)
  <2>1. ends = {2}
    <3>1. 2 \in ends BY <1>3, <1>5, <1>7
    <3>2. ~ (1 \in ends) BY <1>2, <1>4, <1>7
    <3> QED BY <3>1, <3>2
  <2>2. Min(ends) = 2 BY <2>1, MinIsMember
  <2> HIDE DEF ends
  <2> QED BY <1>1, <1>5, <1>7, <2>1, <2>2 DEF Then
<1>8. CASE IsTrue(k) /\ IsTrue(l)
  <2>1. ends = {} BY <1>2, <1>4, <1>8
  <2> HIDE DEF ends
  <2> QED BY <1>1, <1>4, <1>8, <2>1
<1> QED BY <1>6, <1>7, <1>8

-----------------------------------------------------------------------------
(* What an operation yields: a value, or an exception of the interpreter   *)
(* or an EvaluationError; UnsafeExpressionError is the evaluator's own.    *)
Yields(v, Value) ==
  v \in Value \/ (IsRaise(v) /\ v # Raise("UnsafeExpressionError"))

(* The interpreter's values.  An exception is not a value.                 *)
ValuesOfPython(Value) ==
  /\ \A v \in Value : ~ IsRaise(v)
  /\ None \in Value /\ Bool(TRUE) \in Value /\ Bool(FALSE) \in Value
  /\ Object(<<>>) \in Value
  /\ \A items \in Seq(Value) : List(items) \in Value /\ Tuple(items) \in Value
  /\ \A v \in Value : v[1] = "dict" => \A k \in DOMAIN v[2] : v[2][k] \in Value

(* The interpreter's operators: each yields a value or raises an exception *)
(* of its own; == never raises; None has no items; only a key that is      *)
(* there has an item in a dictionary.                                      *)
OperatorsOfPython(Value) ==
  /\ \A a, b \in Value :
       /\ EqualTo(a, b) \in BOOLEAN
       /\ Yields(LessThan(a, b), Value) /\ Yields(AtMost(a, b), Value)
       /\ Yields(ElementOf(a, b), Value)
       /\ ItemOf(a, b) \in Value \/ IsRaise(ItemOf(a, b))
       /\ a = None => IsRaise(ItemOf(a, b))
       /\ a[1] = "dict" /\ DictKey(b) \notin DOMAIN a[2] => IsRaise(ItemOf(a, b))
       /\ \A op \in {"Add", "Sub", "Mult", "Div", "FloorDiv", "Mod"} :
            Yields(Arithmetic(op, a, b), Value)
  /\ \A a \in Value : Yields(Signed(-1, a), Value) /\ Yields(Signed(1, a), Value)
  /\ \A a \in Value : \A attr : AttributeOf(a, attr) \in Value \/ IsRaise(AttributeOf(a, attr))
  /\ \A keys, values \in Seq(Value) :
       Len(keys) = Len(values) => Yields(DictOf(keys, values), Value)

(* What is assumed of the interpreter: a constant of a tree is one of its  *)
(* values.                                                                 *)
ConstantsOfPython(Value) == \A n \in Node : n[1] = "Constant" => n[2] \in Value

PythonValues(Value) ==
  ValuesOfPython(Value) /\ OperatorsOfPython(Value) /\ ConstantsOfPython(Value)

ContextIn(c, Value) == \A id \in DOMAIN c : c[id] \in Value

(* RaisesOf: the exceptions evaluation itself raises.                      *)
LEMMA RaisesOf ==
  ASSUME NEW Value PROVE Yields(Raise("EvaluationError"), Value)
BY DEF Yields, Raise, IsRaise

(* A truth value is a value.                                               *)
LEMMA BoolYields ==
  ASSUME NEW Value, ValuesOfPython(Value), NEW b \in BOOLEAN
  PROVE  Bool(b) \in Value /\ Yields(Bool(b), Value)
<1>1. Bool(TRUE) \in Value /\ Bool(FALSE) \in Value BY DEF ValuesOfPython
<1> QED BY <1>1 DEF Yields

(* A name gives a value of the context, a constant, or an error.           *)
LEMMA NameYields ==
  ASSUME NEW Value, PythonValues(Value), NEW c, ContextIn(c, Value), NEW id
  PROVE  Yields(EvalName(id, c), Value)
<1>1. None \in Value /\ Bool(TRUE) \in Value /\ Bool(FALSE) \in Value
  BY DEF PythonValues, ValuesOfPython
<1> QED BY <1>1, RaisesOf DEF EvalName, ContextIn, Yields

(* An attribute is a value or is missing.                                  *)
LEMMA AttributeYields ==
  ASSUME NEW Value, PythonValues(Value), NEW target \in Value, NEW attr
  PROVE  EvalAttribute(target, attr) \in Value \cup {Raise("EvaluationError")}
<1>1. target[1] = "dict" => \A k \in DOMAIN target[2] : target[2][k] \in Value
  BY DEF PythonValues, ValuesOfPython
<1>2. AttributeFound(AttributeOf(target, attr)) \in Value \cup {Raise("EvaluationError")}
  BY DEF PythonValues, OperatorsOfPython, AttributeFound
<1> QED BY <1>1, <1>2 DEF EvalAttribute

(* An item is a value or is missing.                                       *)
LEMMA SubscriptYields ==
  ASSUME NEW Value, PythonValues(Value), NEW target \in Value, NEW key \in Value
  PROVE  EvalSubscript(target, key) \in Value \cup {Raise("EvaluationError")}
<1>1. ItemOf(target, key) \in Value \/ IsRaise(ItemOf(target, key))
  BY DEF PythonValues, OperatorsOfPython
<1> QED BY <1>1 DEF EvalSubscript

(* A single comparison gives a value or raises.                            *)
LEMMA CompareYields ==
  ASSUME NEW Value, PythonValues(Value), NEW op, NEW a \in Value, NEW b \in Value
  PROVE  Yields(EvalCompareOp(op, a, b), Value)
<1>1. \A p \in BOOLEAN : Yields(Bool(p), Value) BY BoolYields DEF PythonValues
<1>2. EqualTo(a, b) \in BOOLEAN BY DEF PythonValues, OperatorsOfPython
<1>3. /\ Yields(LessThan(a, b), Value) /\ Yields(AtMost(a, b), Value)
      /\ Yields(LessThan(b, a), Value) /\ Yields(AtMost(b, a), Value)
      /\ Yields(ElementOf(a, b), Value)
  BY DEF PythonValues, OperatorsOfPython
<1>4. ASSUME NEW v, Yields(v, Value) PROVE Yields(Negated(v), Value)
  <2>1. Yields(Bool(~ IsTrue(v)), Value) BY <1>1 DEF IsTrue
  <2> QED BY <1>4, <2>1 DEF Negated, Then
<1>5. Yields(PyIs(a, b), Value) BY <1>1 DEF PyIs
<1>6. Yields(Bool(EqualTo(a, b)), Value) /\ Yields(Bool(~ EqualTo(a, b)), Value)
  BY <1>1, <1>2
<1>7. Yields(Negated(PyIs(a, b)), Value) /\ Yields(Negated(ElementOf(a, b)), Value)
  BY <1>3, <1>4, <1>5
<1> QED BY <1>3, <1>5, <1>6, <1>7, RaisesOf DEF EvalCompareOp

(* So does a chain of comparisons.                                         *)
LEMMA LinksYield ==
  ASSUME NEW Value, PythonValues(Value), NEW left, Yields(left, Value),
         NEW ops, NEW rights, Len(ops) \in Nat, DOMAIN ops = 1 .. Len(ops),
         DOMAIN rights = 1 .. Len(ops), \A i \in DOMAIN rights : Yields(rights[i], Value)
  PROVE  Yields(EvalLinks(left, ops, rights), Value)
<1> DEFINE links == [i \in DOMAIN ops |->
                       Then(LeftOf(i, left, rights), LAMBDA a :
                         Then(rights[i], LAMBDA b : EvalCompareOp(ops[i], a, b)))]
           ends == {i \in DOMAIN ops : ~ IsTrue(links[i])}
<1>1. ASSUME NEW i \in DOMAIN ops PROVE Yields(links[i], Value)
  <2>1. Yields(LeftOf(i, left, rights), Value)
    <3>1. i = 1 \/ i - 1 \in DOMAIN rights OBVIOUS
    <3> QED BY <3>1 DEF LeftOf
  <2>2. Yields(rights[i], Value) OBVIOUS
  <2>3. PICK x, y, op : x = LeftOf(i, left, rights) /\ y = rights[i] /\ op = ops[i] OBVIOUS
  <2>4. links[i] = IF IsRaise(x) THEN x ELSE IF IsRaise(y) THEN y ELSE EvalCompareOp(op, x, y)
    BY <2>3 DEF Then
  <2> HIDE DEF links
  <2>5. Yields(x, Value) /\ Yields(y, Value) BY <2>1, <2>2, <2>3
  <2>6. CASE IsRaise(x) \/ IsRaise(y) BY <2>4, <2>5, <2>6
  <2>7. CASE ~ IsRaise(x) /\ ~ IsRaise(y)
    <3>1. x \in Value /\ y \in Value BY <2>5, <2>7 DEF Yields
    <3> QED BY <2>4, <2>7, <3>1, CompareYields
  <2> QED BY <2>6, <2>7
<1>2. EvalLinks(left, ops, rights) =
        IF ends = {} THEN Bool(TRUE)
        ELSE Then(links[Min(ends)], LAMBDA passed : Bool(FALSE))
  BY DEF EvalLinks
<1>3. Yields(Bool(TRUE), Value) /\ Yields(Bool(FALSE), Value) BY BoolYields DEF PythonValues
<1>4. ASSUME ends # {} PROVE Min(ends) \in DOMAIN ops
  <2>0. DOMAIN ops \subseteq Nat OBVIOUS
  <2> HIDE DEF links
  <2>1. ends \in SUBSET Nat /\ ends \subseteq DOMAIN ops BY <2>0
  <2> HIDE DEF ends
  <2> QED BY <1>4, <2>1, MinIsMember
<1> HIDE DEF links, ends
<1> QED BY <1>1, <1>2, <1>3, <1>4 DEF Then

(* So do and, or.                                                          *)
LEMMA BoolOpYields ==
  ASSUME NEW Value, PythonValues(Value), NEW op, NEW results, DOMAIN results \in SUBSET Nat,
         \A i \in DOMAIN results : Yields(results[i], Value)
  PROVE  Yields(EvalBoolOp(op, results), Value)
<1> DEFINE ends == {i \in DOMAIN results :
                     IsRaise(results[i]) \/ Truthy(results[i]) = (op = "Or")}
<1>1. \A p \in BOOLEAN : Yields(Bool(p), Value) BY BoolYields DEF PythonValues
<1>2. EvalBoolOp(op, results) =
        IF ends = {} THEN Bool(op = "And")
        ELSE Then(results[Min(ends)], LAMBDA v : Bool(op = "Or"))
  BY DEF EvalBoolOp
<1>3. ASSUME ends # {} PROVE Min(ends) \in DOMAIN results
  <2>1. ends \in SUBSET Nat /\ ends \subseteq DOMAIN results OBVIOUS
  <2> HIDE DEF ends
  <2> QED BY <1>3, <2>1, MinIsMember
<1>4. Yields(Bool(op = "And"), Value) /\ Yields(Bool(op = "Or"), Value) BY <1>1
<1> HIDE DEF ends
<1> QED BY <1>2, <1>3, <1>4 DEF Then

(* So do not, - and +.                                                     *)
LEMMA UnaryOpYields ==
  ASSUME NEW Value, PythonValues(Value), NEW op, NEW a \in Value
  PROVE  Yields(EvalUnaryOp(op, a), Value)
<1>1. Yields(Bool(~ Truthy(a)), Value)
  <2>1. (~ Truthy(a)) \in BOOLEAN OBVIOUS
  <2> QED BY <2>1, BoolYields DEF PythonValues
<1>2. Yields(Signed(-1, a), Value) /\ Yields(Signed(1, a), Value)
  BY DEF PythonValues, OperatorsOfPython
<1> QED BY <1>1, <1>2, RaisesOf DEF EvalUnaryOp

(* So does arithmetic.                                                     *)
LEMMA BinOpYields ==
  ASSUME NEW Value, PythonValues(Value), NEW op, NEW a \in Value, NEW b \in Value
  PROVE  Yields(EvalBinOp(op, a, b), Value)
<1>1. op \in {"Add", "Sub", "Mult", "Div", "FloorDiv", "Mod"} => Yields(Arithmetic(op, a, b), Value)
  BY DEF PythonValues, OperatorsOfPython
<1> QED BY <1>1, RaisesOf DEF EvalBinOp

(* The items of a display whose evaluation raises.                         *)
Raised(results) == {i \in DOMAIN results : IsRaise(results[i])}

(* The results of a display's items: all of them values, or an exception.  *)
LEMMA ItemsYield ==
  ASSUME NEW Value, NEW results, NEW n \in Nat, DOMAIN results = 1 .. n,
         \A i \in DOMAIN results : Yields(results[i], Value)
  PROVE  /\ Raised(results) = {} => \A i \in 1 .. n : results[i] \in Value
         /\ Raised(results) # {} => Yields(results[Min(Raised(results))], Value)
<1>1. Raised(results) = {} => \A i \in 1 .. n : results[i] \in Value
  BY DEF Yields, Raised
<1>2. ASSUME Raised(results) # {} PROVE Yields(results[Min(Raised(results))], Value)
  <2>1. Raised(results) \in SUBSET Nat /\ Raised(results) \subseteq DOMAIN results
    BY DEF Raised
  <2>2. Min(Raised(results)) \in DOMAIN results BY <1>2, <2>1, MinIsMember
  <2> QED BY <2>2
<1> QED BY <1>1, <1>2

(* The results of a list of parts.                                         *)
LEMMA PartsYield ==
  ASSUME NEW Value, PythonValues(Value), NEW c, NEW n \in Node, NEW ms, IsList(ms),
         \A child \in Children(n) : Yields(EvalNode(child, c), Value),
         Range(ms) \subseteq Children(n) \cup {NoKeyNode}
  PROVE  /\ Len(ms) \in Nat /\ DOMAIN ms = 1 .. Len(ms)
         /\ DOMAIN Parts(ms, c) = 1 .. Len(ms)
         /\ Parts(ms, c) = [i \in 1 .. Len(ms) |-> Parts(ms, c)[i]]
         /\ \A i \in DOMAIN Parts(ms, c) : Yields(Parts(ms, c)[i], Value)
<1>1. Len(ms) \in Nat /\ DOMAIN ms = 1 .. Len(ms)
  <2>1. ms \in Seq(Range(ms)) BY DEF IsList
  <2> HIDE DEF Range
  <2> QED BY <2>1
<1>2. None \in Value BY DEF PythonValues, ValuesOfPython
<1>3. \A m \in Children(n) \cup {NoKeyNode} : Yields(Part(m, c), Value)
  BY <1>2 DEF Part, Yields
<1>4. \A i \in DOMAIN ms : ms[i] \in Children(n) \cup {NoKeyNode} BY DEF Range
<1>5. \A i \in DOMAIN ms : Yields(Part(ms[i], c), Value) BY <1>3, <1>4
<1> QED BY <1>1, <1>5 DEF Parts

(* The value of a list or a tuple.                                         *)
LEMMA DisplayYields ==
  ASSUME NEW Value, PythonValues(Value), NEW results, NEW n \in Nat,
         results = [i \in 1 .. n |-> results[i]],
         \A i \in 1 .. n : Yields(results[i], Value)
  PROVE  /\ Yields(EvalItems(results, List), Value)
         /\ Yields(EvalItems(results, Tuple), Value)
<1> DEFINE raised == Raised(results)
<1>1. DOMAIN results = 1 .. n OBVIOUS
<1>2. /\ raised = {} => \A i \in 1 .. n : results[i] \in Value
      /\ raised # {} => Yields(results[Min(raised)], Value)
  BY <1>1, ItemsYield
<1>3. ASSUME raised = {}
      PROVE  Yields(List(results), Value) /\ Yields(Tuple(results), Value)
  <2>1. \A i \in 1 .. n : results[i] \in Value BY <1>2, <1>3
  <2>2. results \in Seq(Value) BY <2>1
  <2> QED BY <2>2 DEF PythonValues, ValuesOfPython, Yields
<1>4. /\ EvalItems(results, List) = IF raised = {} THEN List(results) ELSE results[Min(raised)]
      /\ EvalItems(results, Tuple) = IF raised = {} THEN Tuple(results) ELSE results[Min(raised)]
  BY DEF EvalItems, Raised
<1> HIDE DEF raised
<1> QED BY <1>2, <1>3, <1>4

(* HalvesOf: the two halves of a sequence.                                 *)
LEMMA HalvesOf ==
  ASSUME NEW S, NEW k \in Nat, NEW n \in Nat, n = k + k, NEW s \in Seq(S), Len(s) = n
  PROVE  /\ SubSeq(s, 1, k) \in Seq(S) /\ Len(SubSeq(s, 1, k)) = k
         /\ SubSeq(s, k + 1, n) \in Seq(S) /\ Len(SubSeq(s, k + 1, n)) = k
<1>1. \A i \in 1 .. n : s[i] \in S OBVIOUS
<1>2. ASSUME NEW m \in Int, NEW l \in Int, 1 <= m, m <= l + 1, l <= n
      PROVE  SubSeq(s, m, l) \in Seq(S) /\ Len(SubSeq(s, m, l)) = l - m + 1
  <2>1. \A i \in m .. l : s[i] \in S BY <1>1, <1>2
  <2>2. PICK part : part = SubSeq(s, m, l) OBVIOUS
  <2>3. part \in Seq(S) /\ Len(part) = IF m <= l THEN l - m + 1 ELSE 0
    BY <2>1, <2>2, SubSeqProperties
  <2>4. (IF m <= l THEN l - m + 1 ELSE 0) = l - m + 1 BY <1>2
  <2> QED BY <2>2, <2>3, <2>4
<1>3. SubSeq(s, 1, k) \in Seq(S) /\ Len(SubSeq(s, 1, k)) = k
  <2>1. 1 \in Int /\ k \in Int /\ 1 <= k + 1 /\ k <= n /\ k - 1 + 1 = k OBVIOUS
  <2> QED BY <1>2, <2>1
<1>4. SubSeq(s, k + 1, n) \in Seq(S) /\ Len(SubSeq(s, k + 1, n)) = k
  <2>1. PICK m \in Int : m = k + 1 OBVIOUS
  <2>2. n \in Int /\ 1 <= m /\ m <= n + 1 /\ n <= n /\ n - m + 1 = k BY <2>1
  <2>3. SubSeq(s, m, n) \in Seq(S) /\ Len(SubSeq(s, m, n)) = k BY <1>2, <2>2
  <2> QED BY <2>1, <2>3
<1> QED BY <1>3, <1>4

(* n results, by their places.                                             *)
IsListed(results, n) == results = [i \in 1 .. n |-> results[i]]

(* The value of a dictionary.                                              *)
LEMMA DictYields ==
  ASSUME NEW Value, PythonValues(Value), NEW results, NEW n \in Nat, NEW k \in Nat,
         n = k + k, IsListed(results, n),
         \A i \in 1 .. n : Yields(results[i], Value)
  PROVE  Yields(EvalItems(results, LAMBDA items :
                  DictOf(SubSeq(items, 1, k), SubSeq(items, k + 1, 2 * k))), Value)
<1> DEFINE raised == Raised(results)
           dict == DictOf(SubSeq(results, 1, k), SubSeq(results, k + 1, 2 * k))
<1>1. DOMAIN results = 1 .. n BY DEF IsListed
<1>2. /\ raised = {} => \A i \in 1 .. n : results[i] \in Value
      /\ raised # {} => Yields(results[Min(raised)], Value)
  BY <1>1, ItemsYield
<1>3. ASSUME raised = {} PROVE Yields(dict, Value)
  <2>1. \A i \in 1 .. n : results[i] \in Value BY <1>2, <1>3
  <2>2. results \in Seq(Value) /\ Len(results) = n BY <2>1 DEF IsListed
  <2>3. k \in 0 .. n /\ 2 * k = n OBVIOUS
  <2> HIDE DEF raised
  <2>4. /\ SubSeq(results, 1, k) \in Seq(Value) /\ Len(SubSeq(results, 1, k)) = k
        /\ SubSeq(results, k + 1, n) \in Seq(Value) /\ Len(SubSeq(results, k + 1, n)) = k
    BY <2>2, HalvesOf
  <2> QED BY <2>3, <2>4 DEF PythonValues, OperatorsOfPython
<1>4. EvalItems(results, LAMBDA items :
         DictOf(SubSeq(items, 1, k), SubSeq(items, k + 1, 2 * k)))
      = IF raised = {} THEN dict ELSE results[Min(raised)]
  BY DEF EvalItems, Raised
<1> HIDE DEF raised, dict
<1> QED BY <1>2, <1>3, <1>4

(* StepYields: a class the safety check allows is one evaluation knows.    *)
LEMMA StepYields ==
  ASSUME NEW Value, PythonValues(Value), NEW c, ContextIn(c, Value),
         NEW n \in Node, AllowedNode(n),
         \A child \in Children(n) : Yields(EvalNode(child, c), Value)
  PROVE  Yields(EvalNode(n, c), Value)
<1>1. \A m \in Children(n) : Yields(Part(m, c), Value)
  <2>1. None \in Value BY DEF PythonValues, ValuesOfPython
  <2> QED BY <2>1 DEF Part, Yields
<1>2. n[1] \in {"Constant", "Name", "Attribute", "Subscript", "Compare", "BoolOp",
                "UnaryOp", "BinOp", "List", "Tuple", "Dict"}
  BY DEF AllowedNode
<1>3. CASE n[1] = "Constant"
  BY <1>3, EvalLeaf DEF PythonValues, ConstantsOfPython, Yields
<1>4. CASE n[1] = "Name"
  BY <1>4, EvalLeaf, NameYields
<1>5. CASE n[1] = "Attribute"
  <2>1. Yields(Part(n[2], c), Value) BY <1>1, <1>5 DEF Children
  <2>2. PICK v : v = Part(n[2], c) OBVIOUS
  <2>3. v \in Value => Yields(EvalAttribute(v, n[3]), Value)
    BY AttributeYields, RaisesOf DEF Yields
  <2>4. EvalNode(n, c) = IF IsRaise(v) THEN v ELSE EvalAttribute(v, n[3])
    BY <1>5, <2>2, EvalAttributeNode DEF Then
  <2> QED BY <2>1, <2>2, <2>3, <2>4 DEF Yields
<1>6. CASE n[1] = "Subscript"
  <2>1. Yields(Part(n[2], c), Value) /\ Yields(Part(n[3], c), Value)
    BY <1>1, <1>6 DEF Children
  <2>2. PICK v, w : v = Part(n[2], c) /\ w = Part(n[3], c) OBVIOUS
  <2>3. v \in Value /\ w \in Value => Yields(EvalSubscript(v, w), Value)
    BY SubscriptYields, RaisesOf DEF Yields
  <2>4. EvalNode(n, c) = IF IsRaise(v) THEN v ELSE IF IsRaise(w) THEN w ELSE EvalSubscript(v, w)
    BY <1>6, <2>2, EvalSubscriptNode DEF Then
  <2> QED BY <2>1, <2>2, <2>3, <2>4 DEF Yields
<1>7. CASE n[1] = "Compare"
  <2>1. /\ IsList(n[3]) /\ IsList(n[4]) /\ Len(n[3]) = Len(n[4])
    BY <1>7, ForestAssumption
  <2>2. n[2] \in Children(n) /\ Range(n[4]) \subseteq Children(n) \cup {NoKeyNode}
    BY <1>7 DEF Children
  <2>3. Len(n[3]) \in Nat /\ DOMAIN n[3] = 1 .. Len(n[3])
    <3>1. n[3] \in Seq(Range(n[3])) BY <2>1 DEF IsList
    <3> HIDE DEF Range
    <3> QED BY <3>1
  <2>4. DOMAIN Parts(n[4], c) = 1 .. Len(n[3])
        /\ \A i \in DOMAIN Parts(n[4], c) : Yields(Parts(n[4], c)[i], Value)
    BY <2>1, <2>2, PartsYield
  <2>5. Yields(Part(n[2], c), Value) BY <1>1, <2>2
  <2>6. PICK left, ops, rights :
          left = Part(n[2], c) /\ ops = n[3] /\ rights = Parts(n[4], c) OBVIOUS
  <2>7. EvalNode(n, c) = EvalLinks(left, ops, rights) BY <1>7, <2>6, EvalCompareNode
  <2>8. /\ Yields(left, Value) /\ Len(ops) \in Nat /\ DOMAIN ops = 1 .. Len(ops)
        /\ DOMAIN rights = 1 .. Len(ops) /\ \A i \in DOMAIN rights : Yields(rights[i], Value)
    BY <2>3, <2>4, <2>5, <2>6
  <2> QED BY <2>7, <2>8, LinksYield
<1>8. CASE n[1] = "BoolOp"
  <2>1. IsList(n[3]) /\ Range(n[3]) \subseteq Children(n) \cup {NoKeyNode}
    BY <1>8, ForestAssumption DEF Children
  <2>2. PICK results : results = Parts(n[3], c) OBVIOUS
  <2>3. Len(n[3]) \in Nat /\ DOMAIN results = 1 .. Len(n[3])
        /\ \A i \in DOMAIN results : Yields(results[i], Value)
    BY <2>1, <2>2, PartsYield
  <2>4. DOMAIN results \in SUBSET Nat BY <2>3
  <2>5. EvalNode(n, c) = EvalBoolOp(n[2], results) BY <1>8, <2>2, EvalBoolOpNode
  <2> QED BY <2>3, <2>4, <2>5, BoolOpYields
<1>9. CASE n[1] = "UnaryOp"
  <2>1. Yields(Part(n[3], c), Value) BY <1>1, <1>9 DEF Children
  <2>2. PICK v : v = Part(n[3], c) OBVIOUS
  <2>3. v \in Value => Yields(EvalUnaryOp(n[2], v), Value) BY UnaryOpYields
  <2>4. EvalNode(n, c) = IF IsRaise(v) THEN v ELSE EvalUnaryOp(n[2], v)
    BY <1>9, <2>2, EvalUnaryOpNode DEF Then
  <2> QED BY <2>1, <2>2, <2>3, <2>4 DEF Yields
<1>10. CASE n[1] = "BinOp"
  <2>1. Yields(Part(n[3], c), Value) /\ Yields(Part(n[4], c), Value)
    BY <1>1, <1>10 DEF Children
  <2>2. PICK v, w : v = Part(n[3], c) /\ w = Part(n[4], c) OBVIOUS
  <2>3. v \in Value /\ w \in Value => Yields(EvalBinOp(n[2], v, w), Value) BY BinOpYields
  <2>4. EvalNode(n, c) = IF IsRaise(v) THEN v ELSE IF IsRaise(w) THEN w ELSE EvalBinOp(n[2], v, w)
    BY <1>10, <2>2, EvalBinOpNode DEF Then
  <2> QED BY <2>1, <2>2, <2>3, <2>4 DEF Yields
<1>11. CASE n[1] \in {"List", "Tuple"}
  <2>1. IsList(n[2]) /\ Range(n[2]) \subseteq Children(n) \cup {NoKeyNode}
    BY <1>11, ForestAssumption DEF Children
  <2>2. PICK results, k : results = Parts(n[2], c) /\ k = Len(n[2]) OBVIOUS
  <2>3. /\ k \in Nat /\ results = [i \in 1 .. k |-> results[i]]
        /\ \A i \in 1 .. k : Yields(results[i], Value)
    <3>1. PICK ms : ms = n[2] OBVIOUS
    <3>2. /\ Len(ms) \in Nat
          /\ DOMAIN Parts(ms, c) = 1 .. Len(ms)
          /\ Parts(ms, c) = [i \in 1 .. Len(ms) |-> Parts(ms, c)[i]]
          /\ \A i \in DOMAIN Parts(ms, c) : Yields(Parts(ms, c)[i], Value)
      <4>1. IsList(ms) /\ Range(ms) \subseteq Children(n) \cup {NoKeyNode} BY <2>1, <3>1
      <4> QED BY <4>1, PartsYield
    <3>3. results = Parts(ms, c) /\ k = Len(ms) BY <2>2, <3>1
    <3> QED BY <3>2, <3>3
  <2>4. EvalNode(n, c) = IF n[1] = "List" THEN EvalItems(results, List)
                         ELSE EvalItems(results, Tuple)
    BY <1>11, <2>2, EvalListNode
  <2> QED BY <2>3, <2>4, DisplayYields
<1>12. CASE n[1] = "Dict"
  <2>2. PICK k, ms, results :
          k = Len(n[2]) /\ ms = n[2] \o n[3] /\ results = Parts(n[2] \o n[3], c)
    OBVIOUS
  <2> DEFINE S == Children(n) \cup {NoKeyNode}
  <2>3. ms \in Seq(S) /\ Len(ms) = k + k /\ k \in Nat BY <1>12, <2>2, DictParts
  <2>4. IsList(ms) /\ Range(ms) \subseteq S
    <3> HIDE DEF S
    <3>1. Range(ms) \subseteq S BY <2>3 DEF Range
    <3>2. ms = [i \in 1 .. Len(ms) |-> ms[i]] /\ Len(ms) \in Nat /\ DOMAIN ms = 1 .. Len(ms) BY <2>3
    <3>3. \A i \in 1 .. Len(ms) : ms[i] \in Range(ms) BY <3>2 DEF Range
    <3> HIDE DEF Range
    <3>4. ms \in Seq(Range(ms)) BY <3>2, <3>3
    <3> QED BY <3>1, <3>4 DEF IsList
  <2>5. /\ IsListed(results, k + k)
        /\ \A i \in 1 .. k + k : Yields(results[i], Value)
    <3>1. /\ DOMAIN Parts(ms, c) = 1 .. Len(ms)
          /\ Parts(ms, c) = [i \in 1 .. Len(ms) |-> Parts(ms, c)[i]]
          /\ \A i \in DOMAIN Parts(ms, c) : Yields(Parts(ms, c)[i], Value)
      BY <2>4, PartsYield
    <3>2. results = Parts(ms, c) /\ k + k = Len(ms) BY <2>2, <2>3
    <3> QED BY <3>1, <3>2 DEF IsListed
  <2>6. EvalNode(n, c) = EvalItems(results, LAMBDA items :
                  DictOf(SubSeq(items, 1, k), SubSeq(items, k + 1, 2 * k)))
    BY <1>12, <2>2, EvalDictNode DEF EvalItems
  <2>7. k + k \in Nat BY <2>3
  <2> QED BY <2>3, <2>5, <2>6, <2>7, DictYields
<1> QED BY <1>2, <1>3, <1>4, <1>5, <1>6, <1>7, <1>8, <1>9, <1>10, <1>11, <1>12

(* SafeYields: a tree the safety check accepts yields a value, or raises   *)
(* an exception that is not the evaluator's refusal.                       *)
LEMMA SafeYields ==
  ASSUME NEW Value, PythonValues(Value), NEW c, ContextIn(c, Value),
         NEW n \in Node, CheckAstSafety(n)
  PROVE  Yields(EvalNode(n, c), Value)
<1>1. PICK S : Safe(S) /\ \A m \in Node : CheckAstSafety(m) <=> <<m, 1>> \in S
  BY SafetyIs
<1> DEFINE P == {m \in Node : \A d \in 1 .. MaxAstDepth + 1 :
                   <<m, d>> \in S => Yields(EvalNode(m, c), Value)}
<1>2. ASSUME NEW m \in Node, Children(m) \subseteq P PROVE m \in P
  <2>1. SUFFICES ASSUME NEW d \in 1 .. MaxAstDepth + 1, <<m, d>> \in S
                 PROVE  Yields(EvalNode(m, c), Value)
    OBVIOUS
  <2>2. /\ d <= MaxAstDepth /\ AllowedNode(m)
        /\ \A child \in Children(m) : <<child, d + 1>> \in S
    BY <1>1, <2>1 DEF Safe
  <2>3. d + 1 \in 1 .. MaxAstDepth + 1 BY <2>2, MaxAstDepthAssumption
  <2>4. \A child \in Children(m) : Yields(EvalNode(child, c), Value)
    BY <1>2, <2>2, <2>3
  <2> QED BY <2>2, <2>4, StepYields
<1> HIDE DEF P
<1>3. n \in P BY <1>2, TreeInduction
<1>4. 1 \in 1 .. MaxAstDepth + 1 BY MaxAstDepthAssumption
<1> QED BY <1>1, <1>3, <1>4 DEF P

=============================================================================
