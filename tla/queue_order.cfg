SPECIFICATION Safety
CONSTANTS
  Part = {"torrents"}
  c1 = c1
  c2 = c2
  t1 = t1
  t2 = t2
  t3 = t3
  Client = {c1, c2}
  Torrent = {t1, t2, t3}
  File = {1}
  Initial <- MCInitial
  RoleOf <- MCRoleOf
  List <- MCList
  Function = {"start", "queue-up", "queue-down", "queue-top", "queue-bottom", "add-torrent", "set-file-priority"}
  Action = {"queuetop", "remove", "setprio", "add-url"}
  MaxCalls = 1
  Setting = {"rate", "proxy"}
  Own = {"save_path"}
  Secret = {}
  Local = {"proxy"}
  Value = {0, 1}
  Default = 0
  User = {"main", "u"}
  GroupOf <- MCGroupOf
  Request <- MCRequest
  MaxSaves = 3
  Dir = {"d1", "d2"}
  Name = {"a"}
  Setter = {"s"}
  Dir0 = "d1"
  MaxAdds = 4
  MaxSets = 2
  Piece = {0, 1}
  MaxRequests = 2
  Metric = {"x", "y"}
  Page = {"p1", "p2"}
  StatsOf <- MCStatsOf
  MaxPosts = 2
  MaxAsked = 2
CHECK_DEADLOCK FALSE
INVARIANTS
  OrderPreserved
