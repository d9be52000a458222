SPECIFICATION HandlesSpec
CONSTANTS
  Files <- TheFiles
  NoPlugin = NoPlugin
  Library <- TheLibrary
  Searches <- TheSearches
  Directories <- TheDirectories
  Handles = {"one", "two"}
  Kinds <- TheKinds
  Requests <- TheRequests
  Compatible = {4}
  MaxInstances = 3
  MaxRuns = 2
INVARIANTS
  TypeOK
  Owned
  SameImplementation
  TrueOnSuccess
  FinishFindsDownload
