SPECIFICATION Spec
CONSTANTS
  File = {"a.yaml", "b.yml", "c.yaml"}
  Rank <- MCRank
  YmlFile = {"b.yml"}
  Document <- MCDocument
  NodeOf <- MCNodeOf
  Digits <- MCDigits
  Forest <- MCForest
  EqualTo <- PyEqual
  LessThan <- PyLess
  AtMost <- PyAtMost
  ElementOf <- PyIn
  ItemOf <- PySubscript
  AttributeOf <- PyAttribute
  Arithmetic <- PyArithmetic
  Signed <- PySigned
  DictOf <- PyDict
  StringOrder <- MCStringOrder
  Worker = {"w1", "w2"}
  MaxDeploys = 1
  MaxAstDepth = 20
INVARIANTS
  NoFileIgnored
  RefusedToolIsUnknown
  VerdictsNeedEvidence
