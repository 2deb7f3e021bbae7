SPECIFICATION Spec
CONSTANTS
  integral = integral
  decimal = decimal
  boolean = boolean
  unpriced = unpriced
  astray = astray
  lost = lost
  cancel = cancel
  absent = absent
  unnamed = unnamed
  Key = {integral, decimal, boolean, unpriced, astray, lost, cancel, absent, unnamed}
  Order = {"o1"}
  ToolOf <- MCToolOf
  OrderOf <- MCOrderOf
  AmountOf <- MCAmountOf
  ArgsOf <- MCArgsOf
  Total <- MCTotal
  Forest <- MCForest
  EqualTo <- PyEqual
  LessThan <- PyLess
  AtMost <- PyAtMost
  ElementOf <- PyIn
  ItemOf <- PySubscript
  AttributeOf <- PyAttribute
  Arithmetic <- PyArithmetic
  Signed <- PySigned
  DictOf <- PyDict
  StringOrder <- MCStringOrder
  MaxRefunds = 5
  MaxAstDepth = 20
INVARIANTS
  StoreTypeOK
  StatusFollowsMoney
  NoMoneyWithoutRecord
  VerdictAgrees
  CleanRefundVerifies
PROPERTIES
  RememberedKeyIsSpent
