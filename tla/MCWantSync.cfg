SPECIFICATION RetrySpec
CONSTANTS
  r = r
  a = a
  b = b
  c = c
  d = d
  ctrl = ctrl
  data = data
  Root = r
  Ctrl = ctrl
  Key <- WebKeys
  Kids <- Web
  Channel = {ctrl, data}
  Rogue = {data}
  RoguePacks <- Mischief
  SenderStore <- WebKeys
  StartStores <- Parts
  OtherKeys = {b}
  MaxWants = 2
  MaxFaults = 1
INVARIANTS IInv SyncedOnOk SenderReleased AlignedAtScan NoSpuriousFailure
PROPERTIES Contract AttemptEnds EventuallySynced SendersReturn
