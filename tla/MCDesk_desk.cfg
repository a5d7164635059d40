SPECIFICATION DeskSpec
CONSTANTS
  Ids = {1, 2}
  Users = {u, v}
  MaxFailures = 1
  MaxStarts = 2
  RecordIds = {1, 2}
  Sealable = {"secret"}
  Phrases <- MCPhrases
  MaxFresh = 3
  Names = {"web"}
  BaseOf <- MCBaseOf
  CopyOf <- MCCopyOf
  Addresses = {"addr"}
  MaxHosts = 2
  Nobody = Nobody
  a = a
  b = b
  Hosts = {a, b}
  Keys <- MCKeys
  Alg <- MCAlg
  Files <- MCFiles
  Cut = Cut
  MaxTasks = 3
  Generated = "id"
  \* Two of the keys to import have the name of another file, and one is hidden;
  \* the third key of a name finds every number taken.
  Imports = {"id", ".id"}
  Dotted = {".id"}
  MaxNumber = 1
  c1 = c1
  c2 = c2
  Clients = {c1, c2}
  Paths = {"dot", "top", "sub"}
  Home = "dot"
  Canonical <- MCCanonical
  Parent <- MCParent
  RemoteEntries <- MCEntries
  File = "file"
  MaxLoads = 3
  MaxTransfers = 2
  LocalDirs = {"root", "home", "docs"}
  HomeDir = "home"
  ParentOf <- MCParentOf
  LocalEntries <- MCEntriesOf
  MaxPlaces = 3
  s1 = s1
  s2 = s2
  Sessions = {s1, s2}
  MaxForwards = 1
  MaxForwardStarts = 2
  MaxKept = 2
  MaxMatches = 2
  MaxKeys = 1
  SnippetLabels = {"web", "Web", "db"}
  IdOf <- MCIdOf
  MaxFailed = 1
  MinSize = 1
  MaxSize = 5
  DefaultSize = 3
  SizeStep = 3
  MinZoom = 1
  MaxZoom = 3
  DefaultZoom = 2
  RawSizes <- MCRawSizes
  NaN = NaN
  Panes = {p1, p2}
CONSTRAINT Explored
CHECK_DEADLOCK FALSE
INVARIANTS
  
  
  KeysAreVouched
  PanesShowTheirOwn
PROPERTIES
  PanesSettle
