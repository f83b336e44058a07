SPECIFICATION VideoSpec
CONSTANTS
  mac = mac
  labs = labs
  c1 = c1
  c2 = c2
  Hosts = {mac, labs}
  Redises = {mac, labs}
  RedisOf <- OneEach
  Renderers = {mac}
  Chains = {c1, c2}
  MaxServed = 1
  MaxSaves = 1
  MaxTriggers = 3
  MaxFails = 1
INVARIANT NoGreenBadge
