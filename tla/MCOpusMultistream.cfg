SPECIFICATION Spec
CONSTANTS
  Byte = 16
  Duration <- MCDuration
  MaxDuration = 8
  Layouts <- MCLayouts
  FrameSize = {0, 12}
  Units = {2, 4, 6, 8}
  LongD = 6
  EncodeMax = {1, 5, 8, 17, 34}
  Growth = {0, 1, 18}
  Garbage <- MCGarbage
  DecodeSize = {3, 8}
  F2_5 = 2
INVARIANTS
  EncodeFits
  DeliveredWhole
  AllOrNothing
  WithinPacket
CHECK_DEADLOCK FALSE
