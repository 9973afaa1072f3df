CONSTANTS
  Upper <- MCUpper
  Int32Bound <- MCInt32Bound
  Placeholder <- MCPlaceholder
  RespBlocks <- MCRespBlocks
  MutResps <- MCMutResps
  Ops <- MCSelectOps
  Params <- MCParams
  Batches <- MCBatches
  Loops <- MCNoLoops
  NoParams = NoParams
  None = None
  Sizes = {0, 2}
  HttpFailures = {"status", "neterr", "badjson"}
SPECIFICATION Spec
INVARIANTS
  PayloadMatchesSpec
  MalformedRejected
