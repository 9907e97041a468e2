SPECIFICATION Spec
CONSTANTS
  Requests = {r1, r2, r3}
  WindowLimit = 1
  WindowSeconds = 2
  CallSeconds = 1
  LastSecond = 3
  Attachments = {"a1", "a2", "a3"}
  Pages <- MCPages
  MediaConcurrency = 2
  MaxAttempts = 2
  MaxLostCommits = 1
  Builds = {b1, b2}
  ChatLength = 3
  Illustrated = {2}
  Author <- MCAuthor
  NameThen <- MCNames
  TestCounts = {2}
  SampleEvery = 2
  Phones = {p1, p2}
  MaxSignIns = 2
  MaxWritten = 3
  MaxImports = 2
  FirstMessages = 2
  PageCaps = {2, 3}
  Batch = 3
  HistoryLimit = 4
  Captionless = {2}
  MaxRuns = 2
  SourceSize = 4
  SourceAtFirst = 3
  SourcePage = 2
  ScanBatch = 3
  Album <- MCAlbum
  ReplyTo <- MCReply
  MediaOnly = {1}
  SampleSize = 1
  MaxCommands = 3
  Sources = 3
  Minutes = {0, 6, 20}
  Sender <- MCSender
  Today = 20
  Fates <- MCFates
  Nearby = 1
  Shift = 6
  DateTolerance = 3
CHECK_DEADLOCK FALSE
INVARIANT ToolsTypeOK
INVARIANT WindowRespected
INVARIANT OwnFile
INVARIANT BatchSettles
INVARIANT PackageFaithful
INVARIANT JobsSettle
INVARIANT NoSessionLost
INVARIANT ShownHasSession
INVARIANT RestoredOnce
INVARIANT NothingLost
INVARIANT DeltaHonest
INVARIANT CatalogExact
INVARIANT ClearedOnlyVerified
INVARIANT ImportedOnce
INVARIANT AlbumsWhole
INVARIANT MappingInjective
INVARIANT TwinsFound
