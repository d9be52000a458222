SPECIFICATION Spec
CONSTANTS
  Engines <- TheEngines
  WordSize <- TheWords
  Orders <- BothOrders
  Requests <- TheRequests
  Procs = {3}
  MaxCalls = 2
INVARIANTS
  TypeOK
  GroupsApart
  ResultsOfThisCall
  StreamNearlyFits
PROPERTY KeepsPromise
