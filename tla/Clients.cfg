SPECIFICATION MCSpec
CONSTANTS
  Messages = {"m"}
  ChatRequests = {1, 2}
  ChatLoads = {1}
  Docs = {"a", "b"}
  Contents = {0, 1}
  Titles = {"t", "u"}
  DocLoads = {1, 2}
  DocSaves = {1, 2}
  Folders = {"F"}
  Files = {"x"}
  Documents = {"d"}
  Place <- AllInRoot
  Root = "root"
  Overview = "owners"
  Texts = {"t", "u"}
  FileLoads = {1, 2}
  Calls = {1, 2}
  Workers = 2
  MaxEvents = 2
  None = None
INVARIANTS
  ViewCatchesUp
  ChannelIsMembers
  SavedWhenQuiet
  FilesShownAreKept
CHECK_DEADLOCK FALSE
