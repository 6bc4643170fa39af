SPECIFICATION Spec
CONSTANTS
  x1 = x1
  x2 = x2
  x3 = x3
  k1 = k1
  k2 = k2
  q1 = q1
  q2 = q2
  q3 = q3
  h1 = h1
  h2 = h2
  AdmAgents = {x1}
  AdmCoords = {k1, k2}
  WithPortal = {k1}
  MaxAdmitting = 2
  MaxWriting = 2
  CpAgents = {x1, x2, x3}
  CpCalls = {k1, k2}
  CanaryPercent = 10
  BatchSize = 1
  FailurePercent = 50
  HsAgents = {x1, x2}
  HsSessions = {s1, s2, s3}
  MaxSessions = 1
  Signed = {n1}
  InfSkew = 1
  InfTtl = 3
  MaxTime = 5
  MaxCalls = 3
  MaxTokens = 3
  RtRequests = {q1, q2, q3}
  LocalCap = 1
  SwarmEnabled = TRUE
  MaxPolls = 1
  Chats = {h1, h2}
  MaxIterations = 2
  MaxBlocks = 1
  MdModels = {d1, d2}
  FirstModel = d1
  NoPull = NoPull
  Swaps = {i1, i2}
  Installs = {j1}
  MaxWaits = 1
  LoopTasks = {q1, q2}
  DockerTasks = {q1}
  MaxIter <- MCMaxIter
  WebConvs = {x1, x2}
  NoConv = NoConv
  WebQuestions = {q1, q2}
  NoAsk = NoAsk
INVARIANT OwnApprovalsOnly
