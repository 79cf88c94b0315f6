SPECIFICATION Spec
CONSTANTS
  Sentences <- MCSentences
  Damaged <- MCDamaged
  NoPlace = NoPlace
  LineMax = 4
  Channels <- MCChannels
  Aps <- MCAps
  Rssis <- MCRssis
  MaxRows = 2
  Cuts = {4}
INVARIANTS PinsAreReal OnePinPerAp ReportAgrees
CHECK_DEADLOCK TRUE
