CONSTANTS
  Ids = {1, 2}
  Seated = {1}
  Adapters = {"opencode", "term_llm", "claux"}
  Manifests <- MCManifests
  MaxSpent = 1
  Failures = {"failed"}
  Budget = 0
  MaxFaults = 1
  MaxAttempts = 2
  BasePort = 8
  MaxPort = 12
  None = None
SPECIFICATION Spec
CONSTRAINT OnlyPlayed
INVARIANT RebootIsReal
CHECK_DEADLOCK FALSE
