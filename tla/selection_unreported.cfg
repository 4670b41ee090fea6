SPECIFICATION FairSpec
CONSTANTS
  Parts = {"choice"}
  Pair = {1, 2}
  Inputs = 3
  GuideIds = {"a", "b"}
  MaxResources = 3
  Pages = {"front", "contents", "p"}
  FrontPage = "front"
  ContentsPage = "contents"
  MaxNodes = 2
  Chunks = 2
  GuidePages = {"a", "b"}
  NavFiles = {"x", "y"}
  MaxItems = 2
  MaxEntries = 3
  MaxMatter = 3
  Switches = {"p", "q", "r"}
  Platform = "p"
  AbsoluteTargets <- HPETargets
  MappingsConsidered <- ReleaseMappings
  Releases = {11, 16, 17, 18}
  Stems = {"s", "t"}
  MaxScans = 2
  Places = {"p", "q"}
  Resolved <- ResolvedGuides
  FaultyPlaces <- UnreadPlaces
  CommandLines <- CommandsGiven
  Versions = {"v", "w"}
  Guides = {"a", "b"}
  PDFs = {}
  Home = "home"
  TitlePage = "tit"
  Elsewhere = {"web"}
  ContentsTables <- TablesOfContents
  AcceptedArchives <- HeldArchives
  ReferencesOfAPage <- PageReferences
  ArchivedGuides <- GuidesArchived
  Sheets = {"s", "t", "u"}
  Vectors = {"v"}
  Images = {"i", "j"}
  Fonts = {"f"}
  MaxAssets = 5
  MaxUses = 2
INVARIANTS AllReported
CHECK_DEADLOCK FALSE
