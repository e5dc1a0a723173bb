\* The Anthropic endpoints beside JSON chat requests: buffered streams, conversion
\* after the second scrape, count_tokens; every JSON generation has a timeout.
SPECIFICATION FairSpec
CONSTANTS
  Requests = {r1, r2, r3}
  MaxQueueSize = 1
  Kinds <- MCAnthropicKinds
  GenerationTimeout = TRUE
  EarlyDisconnect = FALSE
  MaxDrafts = 0
  MaxRestarts = 0
CHECK_DEADLOCK FALSE
INVARIANTS
  CountersAgree
PROPERTIES
  RefusedOnlyWhenFull
  JsonRequestsEnd
