SPECIFICATION FairSpec
CONSTANTS
  ActionPins = {a}
  DoorPins = {d}
  GeneralPins = {}
  NoPin = NoPin
  MaxChanges = 2
  MaxGlitches = 1
  MaxBoots = 1
  MaxReloads = 1
INVARIANT GpioTypeOK
INVARIANT OneActionPerPress
INVARIANT PressActs
PROPERTY InputsCatchUp
