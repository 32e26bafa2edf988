SPECIFICATION FairSpec
CONSTANTS
  debian = debian
  alpine = alpine
  Nobody = Nobody
  Unknown = Unknown
  Call = {c1, c2}
  Entry <- TwoEntries
  File = {"debian.iso", "alpine.iso"}
  FileOf <- OneFileEach
  Mirrors <- TwoMirrorsOrOne
  Size = 2
  Totals <- Lengths
  Impl = {"rust", "ts"}
  MaxKills = 1
INVARIANTS
  StatusHolds
  OneDownload
  FinalIsWhole
  ReportIsTrue
PROPERTY SlotComesBackOnceAnswered
CHECK_DEADLOCK FALSE
