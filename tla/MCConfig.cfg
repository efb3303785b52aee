SPECIFICATION Spec
CONSTANTS
  tA = tA
  tB = tB
  v1 = v1
  v2 = v2
  v3 = v3
  cbLogs = cbLogs
  cb1 = cb1
  Threads = {tA, tB}
  GivenName <- MCGivenName
  MainThread = tA
  Renames <- MCRenames
  None = None
  LoggerNames = {"root", "system"}
  Unwritable = {"root.txt"}
  Vars = {v1, v2, v3}
  Keys <- MCKeys
  ValidWords <- MCWords
  LogsListener = cbLogs
  Listeners = {cb1}
  Declared <- MCDeclared
  ListensTo <- MCListensTo
  Docs <- MCDocs
  Clients = {tB}
  Patterns <- MCPatterns
  EventLevels = {2}
  ByHandNames = {"system"}
  MaxLoads <- MCMaxLoads
INVARIANTS Handshake ConvertersReadBack LoggersMatchConfig NoStrayLine AnnouncedFirst
CHECK_DEADLOCK FALSE
