SPECIFICATION Spec
CONSTANTS
  Node <- MCNode
  value <- MCValue
  Item <- MCItem
  NULL = NULL  NoItem = NoItem
INVARIANTS TreeWellFormed SearchFinds ListIsSequence
