CONSTANTS
  Upper <- MCUpper
  Int32Bound <- MCInt32Bound
  Placeholder <- MCPlaceholder
  RespBlocks <- MCRespBlocks
  MutResps <- MCMutResps
  Ops <- ParamOps
  Params <- MCNoneParams
  Batches <- MCBatches
  Loops <- MCNoLoops
  NoParams = NoParams
  None = None
  Sizes = {0, 2}
  HttpFailures = {"status", "neterr", "badjson"}
SPECIFICATION Spec
INVARIANT
  PayloadMatchesSpec
