SPECIFICATION Spec
CONSTANTS
  Files <- TheFiles
  NoPlugin = NoPlugin
  Library <- TheLibrary
  Searches <- TheSearches
  Directories <- TheDirectories
INVARIANTS
  PluginsDistinct
  ChooseBest
PROPERTIES
  FindStable
  SearchLoads
