SPECIFICATION Spec
CONSTANTS
  Names = {"x", "y", "p", "next"}
  Alphabet <- MCAlphabet
  Passes = 4
  Openings <- MCOpenings
  Statements <- MCStatements
  MaxStatements = 4
  Trusted = {}
PROPERTIES
  AnswerIsRight
  KnownValuesAgree
  KindsAreExclusive
CHECK_DEADLOCK FALSE
