SPECIFICATION Spec
CONSTANTS
  Key <- MCKey
  Agent = {"agent"}
  Submitted <- MCSubmitted
  Valid <- MCValid
  KeyOf <- MCKeyOf
  IntentOf <- MCIntentOf
  KnownTool <- MCKnownTool
  StringOrder <- MCStringOrder
  MaxEvents = 3
INVARIANTS
  TrailReachesState
  DeduplicatedIsSame
  OneRowPerIntent
PROPERTIES
  AnswersGrow
