SPECIFICATION Spec
CONSTANTS
  Caller = {a, b}
  NoCaller = NoCaller
  NoPacket = NoPacket
  Packet <- MCPacket
  AskedSize <- MCAskedSize
  F2_5 = 2
INVARIANTS
  NoStaleAudio
  AssertionsHold
  RefusedUntouched
  DurationTrue
  DeliveredIsDecoded
PROPERTIES
  CallsReturn
