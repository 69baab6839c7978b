SPECIFICATION FairSpec
CONSTANTS
  a = a b = b e1 = e1 e2 = e2 e3 = e3 bill = bill poller = poller cli = cli
  NoFile = NoFile Deleted = Deleted NoEntry = NoEntry NoRow = NoRow NoReport = NoReport Idle = Idle
  File = {a, b}
  Event = {e1, e2, e3}
  EventsOf <- MCEventsOf
  Day = {1, 2}
  DayOf <- MCDayOf
  Key <- MCKey
  Rank <- MCRank
  LocalKey <- MCLocalKey
  Value = {v1}
  v1 = v1
  Writer = {"local", poller}
  Local = "local"
  KeysOf <- KeysOfBoth
  Process = {"daemon"}
  Daemon = "daemon"
  ProcessOf <- DaemonOnly
  Kind = {"daily", "session"}
  Daily = "daily"
  ReportLimit = 1
  MaxRows = 2
  MaxReports = 1
  MaxFaults = 1
INVARIANT ReportsAreCurrent
PROPERTIES RowsRetained HistoryGrows SettledIsSaved
