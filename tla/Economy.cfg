SPECIFICATION EconomySpec
CONSTANTS
  r1 = r1
  r2 = r2
  Robots <- MCRobots
  NoRobot = NoRobot
  Capabilities = {"arm"}
  Amounts <- MCAmounts
  FeeBps = 200
  MaxTasks = 2
  poller = poller
  handler = handler
  h1 = h1
  Procs = {poller, handler}
  Poller = poller
  Fresh = Fresh
  NoIntent = NoIntent
  ProviderRefs = {"stable"}
  MaxIntents = 2
  MaxMints = 1
  e1 = e1
  e2 = e2
  s1 = s1
  k1 = k1
  x1 = x1
  x2 = x2
  x3 = x3
  NoUser = NoUser
  Emails = {e1, e2}
  Subjects = {s1}
  Passkeys = {k1}
  Secrets = {x1, x2, x3}
  MaxSessions = 2
  u1 = u1
  u2 = u2
  n1 = n1
  n2 = n2
  n3 = n3
  d1 = d1
  pub1 = pub1
  pub2 = pub2
  priv = priv
  Users = {u1, u2}
  Admin = u2
  Nodes = {n1, n2, n3}
  CoordinatorNodes = {n3}
  DeviceOf <- MCDevices
  PublicIps = {pub1, pub2}
  PrivateIps = {priv}
  NoIp = NoIp
  MaxOps = 4
  p1 = p1
  p2 = p2
  p3 = p3
  Phrases = {p1, p2, p3}
  NoPhrase = NoPhrase
  c1 = c1
  c2 = c2
  h2 = h2
  Coordinators = {c1, c2}
  Chats = {h1, h2}
  MaxHops = 3
  MaxChunks = 2
  t1 = t1
  t2 = t2
  Tasks = {t1, t2}
  Backends = {"parent", "cloud"}
  MaxRetries = 2
  MaxRequests = 3
SYMMETRY ProcsAlike
INVARIANTS
  PayInv
  RobotBooksAgree
  AccountsSafe ActiveExactly
  AnswersFollowQuestions ProcessingHasRequest

  
