SPECIFICATION ProgressSpec
CONSTANTS
  a1 = a1
  a2 = a2
  p1 = p1
  NoAgent = NoAgent
  NoModel = NoModel
  NoTask = NoTask
  Agents = {a1, a2}
  Projects <- MCProjects
  Models = {}
  Labels = {}
  CapsOf <- MCCapsOf
  Requests <- MCOneTask
  ClaimTimeout = 1
  ClaimDelay = 0
  MaxSubtasks = 1
  OfflineThreshold = 2
  c1 = c1
  c2 = c2
  s1 = s1
  Coordinators = {c1, c2}
  Subtasks = {s1}
  Home <- MCHome
  MaxPayments = 2
  r1 = r1
  r2 = r2
  Rollouts = {r1, r2}
  NoRollout = NoRollout
  MaxLost = 1
PROPERTIES
  QueuedGetsDone SubmittedGetsDone RolloutSettles
