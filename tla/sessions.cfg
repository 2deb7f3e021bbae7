SPECIFICATION Spec
CONSTANTS
  own = own
  fresh = fresh
  any = any
  Key = {own, fresh}
  Session = {s1, s2}
  Calls <- MCCalls
  Discipline <- MCDiscipline
  MaxEvents = 3
INVARIANTS
  SessionsTypeOK
  AuditChain
  LockedStateIsCurrent
PROPERTIES
  TerminalStatesFinal
  EveryCallReturns
  SessionsAreAtomic
