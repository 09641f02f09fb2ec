\* Two servers' lines; answers of up to two and a half packets; two callers and
\* two players of the cache; three bot lists; rows of three players and of two
\* servers; two instances of the program; a game with a slot more than there is
\* room for.
CONSTANTS
  LineHosts = {s1, s2}
  PacketSize = 2
  MaxAnswer = 5
  MaxForeign = 2
  Callers = {c1, c2}
  ProfileSIDs = {p1, p2}
  Known = {p1, p2}
  UserLists = {"l1", "l2", "l3"}
  ZeroList = "zero"
  Entries <- MCEntries
  MaxServices = 2
  TableSIDs = {"self", "p2", "p3"}
  Countries = {"us", "pl", "co"}
  MaxKey = 1
  FleetSize = 2
  MaxCell = 1
  LogHosts = {h1, h2}
  MaxWindow = 4
  MaxRows = 2
  MaxLog = 4
  MaxStints = 3
  MaxTime = 4
  SteamIDs = {"id1", "id2"}
  Instances = {i1, i2}
  MaxPlayerCount = 2
  MaxUserID = 4
  MaxReply = 3
SPECIFICATION FairSpec
INVARIANTS  ChatHasItsPlayer LargeIsWhole AnswerIsComplete MappingOutlives
INVARIANTS PlayerTableReads ServerTableReads LatestTeamFirst PanelInSight SchemaBeforeUse
INVARIANTS SavedFileLoads DownloadsKept
PROPERTIES DumpsAreTrue BotUpdateReturns
CHECK_DEADLOCK FALSE
