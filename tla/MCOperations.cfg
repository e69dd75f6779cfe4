SPECIFICATION OperationsSpec
CHECK_DEADLOCK FALSE
CONSTANTS
  Content <- MCContent
  Folder <- MCFolder
  BaseName <- MCBaseName
  IsYaml <- MCIsYaml
  OpenAPI <- MCOpenAPI
  Invalid <- MCInvalid
  Unreadable <- MCUnreadable
  Refs <- MCRefs
  Located <- MCLocated
  LocateVars <- MCLocateVars
  Resolutions <- MCResolutions
  YamlFiles <- MCYamlFiles
  JsonFiles <- MCJsonFiles
  Plans <- MCPlans
  Filters <- MCFilters
  Programs <- MCPrograms
  Functions_ <- MCFunctions
  VarsFiles <- MCVarsFiles
  Projects <- MCProjects
  AllSeverities <- MCAllSeverities
  ToUpper <- MCToUpper
  Dotted <- MCDotted
  Searches <- MCSearches
  PathSearches <- MCPathSearches
  Detections <- MCDetections
  Alphabet <- MCAlphabet
  Vanished <- MCVanished
  OutputPath <- MCOutputPath
  Scans <- MCScans
  Fixes <- MCFixes
INVARIANTS
  ShortChainsExpanded
  ResolverBounded
  YamlLinesRight
  IgnoreBlockExact
  JsonLinesRight
  PlanKeepsResources
  FiltersReadAsWritten
  BicepProgramKept
  ReferencesOfOwnFolder
  TerraformBlocksKept
  
  FindingsReported
  OutcomeRight
  FixKeepsRest
  
  FoundLineShown
  InsertionStaysInside
  HelmLineRight
  SearchLineFindsKey
  ReferenceLineFound
