CONSTANTS
  Classes <- MCClasses
  Keys <- MCKeys
  Name <- MCName
  Covers <- MCCovers
  KeyOrder <- MCKeyOrder
  UrlOrder <- MCUrlOrder
  Loader <- MCLoader
  Boot = "boot"
  Methods <- MCMethods
  Has <- MCHas
  Interfaces = {}
  Configs <- MCConfigs
  MaxReloads = 2
SPECIFICATION Spec
INVARIANTS
  TypeOK
  InstrumentedAsConfigured
  MethodsAreKnown
  SettingsAreCurrent
CHECK_DEADLOCK FALSE
