SPECIFICATION Spec
CONSTANTS
  Tabs = {"wifi", "ble", "settings"}
  old = old
  new = new
  sound = sound
  damaged = damaged
  MaxRows <- MCOneRow
  BuildBatch <- MCBuildBatch
  OtaCount = 2
  Files = {sound, damaged}
  Firmware = Firmware
  Blocks = 2
  HasMagic <- MCHasMagic
  IsSound <- MCIsSound
  NoFile = NoFile
  Ssids = {}
  MaxTargets = 0
  MaxOffer = 0
  Cards <- MCOneCard
  NoSession = NoSession
  MaxRescans = 0
INVARIANTS BootSafe FlashHoldsScreen
PROPERTIES FlashEnds
CHECK_DEADLOCK TRUE
