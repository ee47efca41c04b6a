CONSTANTS
  Items <- SmallItems
  RuleIds <- SmallRuleIds
  RuleOf <- SmallRules
  MaxRules = 3
  Days <- FewDays
  Null = Null
SPECIFICATION Spec
CHECK_DEADLOCK FALSE
INVARIANTS
  TypeOK
  OrderIrrelevant
  AdjustmentsExplain
  WaitingNeverCheaper
