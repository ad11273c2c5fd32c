SPECIFICATION Spec
CONSTANTS
  N = 5
  Bytes = {0, 1, 255}
  MaxCount = 3
  NULL = NULL
INVARIANT TypeOK
PROPERTY ResultsAgree
PROPERTY WritesConfined
