CONSTANTS
  Upper <- MCUpper
  Int32Bound <- MCInt32Bound
  QueryArgs <- MCAsyncQueryArgs
  Datas <- MCDatas
  Ids <- MCIdSet
  UpsertIds <- MCUpsertIds
  StreamArgs <- MCStreamArgs
  QueryBodies <- MCQueryBodies
  MutBodies <- MCMutBodies
  ReplBodies <- MCReplBodies
  ChangeBodies <- MCChangeBodies
  JsonBodies <- MCJsonBodies
  ErrorBodies <- MCErrorBodies
  Transports = {"ConnectError", "ReadTimeout"}
  None = None
  Tasks <- MCTasks
SPECIFICATION AsyncSpec
INVARIANT
  AsyncTypeOK
PROPERTIES
  CallsAsSync
 
