SPECIFICATION Spec
CONSTANTS
  Tabs = {"wifi", "ble", "settings"}
  old = old
  new = new
  sound = sound
  damaged = damaged
  MaxRows <- MCMaxRows
  BuildBatch <- MCBuildBatch
  OtaCount = 2
  Files = {}
  Firmware = Firmware
  Blocks = 1
  HasMagic <- MCHasMagic
  IsSound <- MCIsSound
  NoFile = NoFile
  Ssids = {home}
  MaxTargets = 1
  MaxOffer = 1
  Cards <- MCCards
  NoSession = NoSession
  MaxRescans = 1
INVARIANTS OneDialog LabelTells OnlyShownRefreshes
PROPERTIES FastBuildEnds
CHECK_DEADLOCK TRUE
