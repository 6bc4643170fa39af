SPECIFICATION Spec
CONSTANTS
  n1 = n1
  Nonces = {n1}
  MaxSkew = 1
  NonceTtl = 2
  MaxRequests = 2
  Window = 1
  MaxNow = 4
  Outcomes <- MCOutcomes
  TrackerWindow = 2
  StrikeWindow = 1
  FastBelow = 1
  FastMin = 2
  FastAverage = 2
  EmptyMin = 2
  IdenticalMin = 2
  CollapseMin = 2
  ProtocolMin = 2
  GapAbove = 1
  RegistrationMin = 2
  PrecisionMin = 2
  TinyMin = 2
  TinyAverage = 2
  StrikeThreshold = 3
  MaxTime = 3
  MaxEvents = 4
  p1 = p1
  p2 = p2
  s1 = s1
  Peers = {p1, p2}
  Suspects = {s1}
  MaxReports = 2
  MaxDay = 2
  MaxStarts = 1
  Members = {p1, p2}
  MaxRecords = 4
  MaxRuns = 1
  a1 = a1
  a2 = a2
  t1 = t1
  t2 = t2
  o1 = o1
  Agents = {a1, a2}
  Tokens = {t1, t2}
  NoToken = NoToken
  Offers = {o1}
  c1 = c1
  c2 = c2
  c3 = c3
  m1 = m1
  m2 = m2
  GNodes = {c1, c2, c3}
  Msgs = {m1, m2}
  Sender <- MCSender
  Exchanges = {m1}
  Dials <- MCDials
  Seeds <- MCSeeds
  SeenLimit = 1
  NatAfter = 1
  EvictAfter = 2
  MaxFaults = 1
  i1 = i1
  i2 = i2
  Issuers = {i1, i2}
  Contributors = {a1}
  PolicySets = {{i1, i2}}
  MaxEpochs = 1
  MaxAnchors = 1
  MaxCalls = 1
  PriceQuotes <- MCQuotes
  MaxQuotes = 3
INVARIANTS
  ReplayRefused BanHolds CommitBacked FinalHasQuorum PriceIsMedian
  ConnectedOverTunnel TakenOnce
PROPERTY BanIsEarned
