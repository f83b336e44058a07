SPECIFICATION SharedSpec
CONSTANTS
  mac = mac
  labs = labs
  a1 = a1
  a2 = a2
  ann = ann
  bob = bob
  eve = eve
  unknown = unknown
  MaxLines = 3
  MaxUses = 3
  Hosts = {mac, labs}
  Redises = {mac, labs}
  RedisOf <- OneEach
  Renderers = {mac}
  Chains = {a1, a2}
  MaxServed = 1
  MaxSaves = 1
  MaxTriggers = 3
  MaxFails = 1
  Reqs = {a1, a2}
  Users = {ann, bob, eve}
  Founder = ann
  Staff = {bob}
  Roles = {1, 2, 3}
  MaxInvites = 2
  MaxRequests = 4
SYMMETRY SameActors
 
INVARIANT KeepsAnOwner
INVARIANT ReportsHold
 
PROPERTY InvitesHold
PROPERTY SpendStays
CHECK_DEADLOCK FALSE
