SPECIFICATION Spec
CONSTANTS
  Captures = {c1, c2}
  Assets = {video, photo, evidence}
  Purpose <- MCPurpose
  Clients = {k1, k2}
  MaxEdits = 2
  c1 = c1
  c2 = c2
  video = video
  photo = photo
  evidence = evidence
  k1 = k1
  k2 = k2
SYMMETRY Symmetry
INVARIANTS
  InventoryFrozen
  VideosGoWithReview
  ConfirmedOnce
CHECK_DEADLOCK FALSE
