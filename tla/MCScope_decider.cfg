SPECIFICATION Spec
CONSTANTS
  Changes = {c1}
  Issues = {i1}
  NoIssue = NoIssue
  MaxVersions = 3
  c1 = c1
  c2 = c2
  i1 = i1
  i2 = i2
INVARIANTS
  CustomerDecidesQuotes
CHECK_DEADLOCK FALSE
