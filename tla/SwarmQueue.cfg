SPECIFICATION Spec
CONSTANTS
  a1 = a1
  a2 = a2
  p1 = p1
  p2 = p2
  m1 = m1
  NoAgent = NoAgent
  NoModel = NoModel
  Agents <- MCAgents
  Projects <- MCProjects
  Models <- MCModels
  Labels = {}
  CapsOf <- MCCapsOf
  Requests <- MCRequests
  ClaimTimeout = 1
  ClaimDelay = 1
  MaxSubtasks = 3
INVARIANT QueueInv
PROPERTIES LeaseHonoured LivesOnce
