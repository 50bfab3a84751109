SPECIFICATION FairSpec
CONSTANTS
  Thread = {1, 2}
  Locator = {"l", "k"}
  Type = {"A"}
  Service = {"s", "u"}
  Impl = {"i", "j"}
  MaxCalls = 2
INVARIANTS NeverDangles
PROPERTIES AsAMap EveryCallReturns
