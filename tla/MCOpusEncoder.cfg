SPECIFICATION Spec
CONSTANTS
  Setting <- MCSetting
  Channels = 1
  Slack <- MCSlack
  MinSilkBits = 16
INVARIANTS
  LayoutAgrees
  BudgetKept
  CeltInSync
