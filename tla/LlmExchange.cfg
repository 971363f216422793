\* Three cycles, two attempts more than the first, a search that sees two records.
SPECIFICATION ExchangeSpec
CONSTANTS
  None = None
  Traces <- MCTraces
  Backends = {"in_memory", "qdrant"}
  GateProfiles = {"as_built", "v2"}
  SearchDepth = 2
  Limit = 2
  RetryCount = 2
  NumCtx = 6
  Reserve = 1
  PolicyTokens = 1
  Tokens <- MCTokens
INVARIANTS
  NoLookAhead OwnContextShown FailureClassTruthful CallRecorded OverflowIsOwn
PROPERTIES
  ExchangeCompletes
