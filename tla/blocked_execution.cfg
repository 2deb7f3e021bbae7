SPECIFICATION Spec
CONSTANTS
  refundA = refundA
  refundB = refundB
  cancelA = cancelA
  lost = lost
  absent = absent
  invalid = invalid
  unknown = unknown
  o1 = o1
  Key = {refundA}
  Order = {o1}
  Request = {r1}
  Profiles = {"none"}
  ToolOf <- MCToolOf
  OrderOf <- MCOrderOf
  AmountOf <- MCAmountOf
  Total <- MCTotal
  MaxCrashes = 0
  MaxLedgerFaults = 1
  MaxReadFaults = 0
  MaxResets = 0
CHECK_DEADLOCK FALSE
INVARIANT LedgerErrorBlocksExecution
