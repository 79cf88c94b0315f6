SPECIFICATION Spec
CONSTANTS
  PoolSize = 2
  QueueDepth = 1
  Macs = {d1, d2, d3}
  Rssis <- MCRssis
  NoName = NoName
  NoMac = NoMac
  NameOf <- MCNameOf
  MaxTicks = 2
PROPERTIES DeviceKeepsItsName RefinesApTable ScanningResumes
CHECK_DEADLOCK TRUE
