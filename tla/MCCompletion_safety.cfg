SPECIFICATION BoundedSpec
CONSTANTS
  Changes = {c1, c2}
  Issues = {i1}
  NoIssue = NoIssue
  MaxVersions = 3
  Workers = {w1, w2}
  Rep = w1
  Media = {m1}
  MaxSubmissions = 2
  MaxRequests = 2
  c1 = c1
  c2 = c2
  i1 = i1
  w1 = w1
  w2 = w2
  m1 = m1
INVARIANTS
  LockedByBoth
  LockedSucceededByChange
  QuotesAccountedFor
  ConfirmedScopeStands
  RequestsInOrder
  DecisionIsTheOutcome
  EvidenceAgreed
  ScreensAgree
CHECK_DEADLOCK FALSE
PROPERTIES
  ApprovalsLandOnHead
  DispatchNeverRevives
  CompletedPaperStands
  Agreement
