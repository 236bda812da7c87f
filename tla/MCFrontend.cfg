SPECIFICATION FrontSpec
CONSTANTS
  panel = panel
  sub = sub
  nobody = nobody
  a = a
  b = b
  alias = alias
  camouflage = camouflage
  apex = apex
  Panel = panel
  Sub = sub
  NoName = nobody
  Https = 10
  SplitStart = 18
  ManagedStart = 26
  LastPort = 40
  ID = {1, 2}
  Absent = Absent
  None = None
  Profiles <- McProfiles
  Later <- McLater
  NoSource <- McNoSource
  Sources <- McSources
  Settings <- McSettings
  MaxEdits = 2
INVARIANT FrontInv
INVARIANT VpnReaches
INVARIANT BrowserGetsSite
PROPERTY LiveIsFresh
CHECK_DEADLOCK FALSE
