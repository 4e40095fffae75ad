SPECIFICATION Spec
CONSTANTS
  MaxNameFanout = 2
  Lowercase <- MCLowercase
  EdgePool <- MCEdgePool
  ImpactOptions <- MCImpactOptions
  SeedPairs <- MCSeedPairs
  MaxLineEnds = 3
  HunkPool <- MCHunkPool
  RelationPool <- MCRelationPool
  MaxRelations = 4
  FilePool <- MCFilePool
  UsePool <- MCUsePool
  MaxUses = 2
  UserFile <- MCUserFile
  AliasPool <- MCAliasPool
  AliasIndex <- MCAliasIndex
  FactPool <- MCFactPool
  ManifestPool <- MCManifestPool
  SourceLists <- MCSourceLists
  CandidatePool <- MCCandidatePool
  MaxCandidates = 4
  LimitPool <- MCLimitPool
  Trees <- MCTrees
  IdentityPool <- MCIdentityPool
  PackagePool <- MCPackagePool
  ScipHeads <- MCScipHeads
  ScipCharacters = {"a", "tick", "(", ")", ".", "/", "[", " "}
  MaxScipLen = 3
  PartPool <- MCPartPool
  SourceFile <- MCSourceFile
  OtherFile <- MCOtherFile
  InventoryPool <- MCInventoryPool
  RulePool <- MCRulePool
  MessagePool <- MCMessagePool
  RequestFrameMax = 120
  ResponseFrameMax = 800
  MaxDepth = 8
  MaxStringBytes = 16
  MaxCollectionItems = 12
  MaxErrorMessageBytes = 6
  IdOrder <- MCIdOrder
  NameOrder <- MCNameOrder
  PageSize = 2
  SymbolPool <- MCSymbolPool
  LinkPool <- MCLinkPool
  MaxLinks = 3
  Selectors <- MCSelectors
  OptionPool <- MCOptionPool
  Filters <- MCFilters
  RawReferences <- MCRawReferences
  DiskNow <- MCDiskNow
  DiffPool <- MCDiffPool
  TextCharacters = {"a", "wide", "CR", "LF"}
  MaxText = 4
CHECK_DEADLOCK FALSE
INVARIANTS
  ImpactIsExact
  QueriesAreExact
  MergeKeepsTheBest
  NameTierRecalls
  SearchesAreExact
  RefreshesContinue
  IdentitiesRoundTrip
  DiscoveryIsExact
  AnswersCrossThePipe
