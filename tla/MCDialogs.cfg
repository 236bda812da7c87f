SPECIFICATION DialogSpec
CONSTANTS
  None = None
  NoName = NoName
  Naive = {1}
  Xhttp = {2}
  Reality = {3}
  Databases <- MCDatabases
  Certificates <- MCCertificates
  WizardAnswers <- MCWizardAnswers
  DomainAnswers <- MCDomainAnswers
  Zones <- MCZones
  Apexes <- MCApexes
  PanelNames <- MCPanelNames
  MaxDialogs = 3
  MaxEdits = 1
  MaxFaults = 1
INVARIANT DialogInv
PROPERTIES Protected ZoneOnly
CHECK_DEADLOCK FALSE
