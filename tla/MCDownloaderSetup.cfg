SPECIFICATION HandlesSpec
CONSTANTS
  Files <- TheFiles
  NoPlugin = NoPlugin
  Library <- TheLibrary
  Searches <- TheSearches
  Directories <- TheDirectories
  Handles = {"one", "two"}
  Kinds <- GpuKinds
  Requests <- TheRequests
  Compatible = {4}
  MaxInstances = 3
  MaxRuns = 2
INVARIANT DownloaderTrueOnSuccess
