SPECIFICATION Spec
CONSTANTS
  p1 = p1
  p2 = p2
  t1 = t1
  t2 = t2
  a1 = a1
  a2 = a2
  i1 = i1
  c1 = c1
  c2 = c2
  c3 = c3
  BlePeers = {p1, p2}
  OutTasks = {t1, t2}
  Target <- MCTarget
  MaxRetries = 2
  NoTask = NoTask
  PhoneModels = {m1, m2}
  Downloads = {d1, d2}
  NoModel = NoModel
  Sends = {c1, c2}
  SendPeers = {p1, p2}
  MaxConnections = 1
  NoSend = NoSend
  Loops = {l1, l2}
  PhoneSubs = {s1}
  OfflineAfter = 2
  NoSub = NoSub
  Calls = {c1, c2, c3}
  MeshAgents = {a1, a2}
  MeshPhones = {i1}
  SeedOf <- MCSeedOf
  Mortals = {a2}
  PeerTtl = 0
  SkipAfter = 1
  DropAfter = 2
  MaxEntries = 1
  MaxSent = 2
  MeshWorkers = {a1, a2}
  MeshOffers = {t1}
  MaxCopies = 2
  NoOffer = NoOffer
  MaxRestarts = 1
  MaxAgents = 4
  MaxSessions = 3
  NoAgent = NoAgent
  q1 = q1
  q2 = q2
  o1 = o1
  w1 = w1
  w2 = w2
  b1 = b1
  b2 = b2
  NoRequest = NoRequest
  Owners = {o1}
  Workers = {w1, w2}
  OwnedBy <- MCOwnedBy
  BleTxs = {b1, b2}
  Unverified = {b2}
  Requester <- MCRequester
  Provider <- MCProvider
  Requests = {q1, q2}
  BurstCredits = 3
  MinRatio = 1
  MaxEarned = 1
  MaxFaults = 1
  Questions = {q1, q2}
  NoQuestion = NoQuestion
  MaxConvs = 2
  MaxMounts = 1
INVARIANT WorkedSomewhere
