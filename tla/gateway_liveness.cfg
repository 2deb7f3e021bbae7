SPECIFICATION FairSpec
CONSTANTS
  refundA = refundA
  refundB = refundB
  cancelA = cancelA
  lost = lost
  absent = absent
  invalid = invalid
  unknown = unknown
  o1 = o1
  Key = {refundA, lost, absent, invalid, unknown}
  Order = {o1}
  Request = {r1, r2}
  Profiles = {"none", "partial_write"}
  ToolOf <- MCToolOf
  OrderOf <- MCOrderOf
  AmountOf <- MCAmountOf
  Total <- MCTotal
  MaxCrashes = 1
  MaxLedgerFaults = 1
  MaxReadFaults = 1
  MaxResets = 1
CHECK_DEADLOCK FALSE
PROPERTIES
  EveryRequestAnswered
  ActionsSettle
  LedgerIsAtomic
