SPECIFICATION BenchSpec
CONSTANTS
  Max = 5
  None = None
INVARIANTS
  OffersGcd
  ValidIsGcd
PROPERTIES
  StableOutput
  ServesRequests
  RequestsEnd
  NonzeroEnds
