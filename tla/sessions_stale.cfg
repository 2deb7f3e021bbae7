SPECIFICATION Spec
CONSTANTS
  own = own
  fresh = fresh
  any = any
  Key = {any}
  Session = {s1, s2}
  Calls <- RivalCalls
  Discipline <- MCDiscipline
  MaxEvents = 3
INVARIANT AuditChain
