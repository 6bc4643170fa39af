SPECIFICATION PaySafetySpec
CONSTANTS
  Procs = {poller, h1}
  Poller = poller
  Fresh = Fresh
  NoIntent = NoIntent
  ProviderRefs = {"stable", "fresh"}
  MaxIntents = 1
  MaxMints = 2
INVARIANT MintedOnce
