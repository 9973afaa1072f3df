CONSTANTS
  Upper <- MCUpper
  Int32Bound <- MCInt32Bound
  Placeholder <- MCPlaceholder
  RespBlocks <- MCRespBlocks
  MutResps <- MCMutResps
  Ops <- MCLoopAllOps
  Params <- MCParams
  Batches <- MCBatches
  Loops <- MCLoops
  NoParams = NoParams
  None = None
  Sizes = {0, 2}
  HttpFailures = {"status", "neterr", "badjson"}
SPECIFICATION FairSpec
PROPERTIES
  ImplementsCursorAbstract
  LoopsReturn
INVARIANTS
  TypeOK
  FetchedIsPrefix
  NoStaleResultAfterFailure
  PayloadMatchesSpec
  ResultMatchesResponse
  MalformedRejected
