SPECIFICATION FairSpec
CONSTANTS
  Files <- MCFiles
  Ext <- MCExt
  Matches <- MCMatches
  YamlPlatform <- MCYamlPlatform
  Lines <- MCLines
  Unreadable <- MCUnreadable
  Ignored <- MCIgnored
  ConfigFiles <- MCConfigFiles
  Excluded <- MCExcluded
  Flags <- MCFlags

  
PROPERTIES
  Returns
