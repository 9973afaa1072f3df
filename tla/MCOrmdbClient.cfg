CONSTANTS
  Upper <- MCUpper
  Int32Bound <- MCInt32Bound
  QueryArgs <- MCQueryArgs
  Datas <- MCDatas
  Ids <- MCIdSet
  UpsertIds <- MCUpsertIds
  StreamArgs <- MCStreamArgs
  QueryBodies <- MCQueryBodies
  MutBodies <- MCMutBodies
  ReplBodies <- MCReplBodies
  ChangeBodies <- MCChangeBodies
  JsonBodies <- MCJsonBodies
  ErrorBodies <- MCErrorBodies
  Transports = {"ConnectError", "ReadTimeout"}
  None = None
SPECIFICATION Spec
INVARIANTS
  TypeOK
  ErrorsAsSpecified
  PayloadMatchesSpec
  IdDecodedAsSpecified
  ResultMatchesResponse
