SPECIFICATION PaySpec
CONSTANTS
  Procs = {poller}
  Poller = poller
  Fresh = Fresh
  NoIntent = NoIntent
  ProviderRefs = {"stable"}
  MaxIntents = 2
  MaxMints = 1
PROPERTY IntentsEnd
