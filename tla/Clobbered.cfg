SPECIFICATION Spec
CONSTANTS
  w1 = w1
  c1 = c1
  c2 = c2
  Workers = {w1}
  Chats = {c1, c2}
  Requests = {}
  Scopes = {"global"}
  MaxBlobs = 2
  MaxUploads = 0
  MaxFaults = 0
INVARIANT RefreshesStand
