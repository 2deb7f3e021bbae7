------------------------------- MODULE MCTrees -------------------------------
(* The constant Forest of the evaluator for given trees: these and all      *)
(* their parts, by height.                                                  *)
EXTENDS Evaluator

RECURSIVE PartsOf(_)
PartsOf(node) == {node} \cup UNION {PartsOf(child) : child \in Children(node)}

(* The layers below, and the rest of the trees layer by layer.              *)
RECURSIVE Layers(_, _)
Layers(below, rest) ==
  LET lowest == {node \in rest : Children(node) \cap rest = {}}
  IN IF rest = {} THEN below ELSE Layers(Append(below, lowest), rest \ lowest)

ForestOf(trees) == Layers(<<>>, UNION {PartsOf(node) : node \in trees})

=============================================================================
