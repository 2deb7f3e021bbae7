SPECIFICATION Evaluation
CONSTANTS
  AssertionLists <- MCAssertionLists
  Body <- MCBody
  Args <- MCArgs
  Forest <- MCForest
  EqualTo <- PyEqual
  LessThan <- PyLess
  AtMost <- PyAtMost
  ElementOf <- PyIn
  ItemOf <- PySubscript
  AttributeOf <- PyAttribute
  Arithmetic <- PyArithmetic
  Signed <- PySigned
  DictOf <- PyDict
  StringOrder <- MCStringOrder
  MaxAstDepth = 4
INVARIANTS
  ChainIsConjunction
  AcceptedIsEvaluable
  EqualityContained
  MissingEvidenceFails
CHECK_DEADLOCK FALSE
