SPECIFICATION Spec
CONSTANTS
  a = a
  b = b
  outer = outer
  Names <- MCNames
  NoName = NoName
  Labels <- MCLabels
  NoLabel = NoLabel
  MaxBindings = 2
  MaxDepth = 4
INVARIANTS
  LabeledJumpsLand
