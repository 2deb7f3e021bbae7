SPECIFICATION Spec
CONSTANTS
  refundA = refundA
  refundB = refundB
  cancelA = cancelA
  lost = lost
  absent = absent
  invalid = invalid
  unknown = unknown
  o1 = o1
  Key = {refundA, refundB, cancelA}
  Order = {o1}
  Request = {r1, r2, r3}
  Profiles = {"none", "timeout_after_commit", "empty_200", "duplicate_delivery", "partial_write"}
  ToolOf <- MCToolOf
  OrderOf <- MCOrderOf
  AmountOf <- MCAmountOf
  Total <- MCTotal
  MaxCrashes = 1
  MaxLedgerFaults = 1
  MaxReadFaults = 1
  MaxResets = 0
SYMMETRY Symmetry
CHECK_DEADLOCK FALSE
INVARIANTS
  TypeOK
  AtMostOneSend
  NothingRunsUnlogged
  HeldStateIsCurrent
  AuditChain
  OutboxInStep
  VerifiedRefundIsExact
  VerifiedCancelHappened
  FailedRefundHasNoEffect
  VerdictStands
PROPERTIES
  ImplementsLifecycle
