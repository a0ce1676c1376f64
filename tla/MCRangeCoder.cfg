CONSTANTS
  SymBits = 2
  CodeBits = 8
  Window = 8
  UintBits = 2
  LaplaceBits = 4
  LaplaceMin = 2
  Symbol <- MCSymbol
  Storage = {1, 3, 5}
  MaxSymbols = 4
  Noise <- MCNoise
  MaxNoise = 6
SPECIFICATION Spec
INVARIANTS RoundTrip RoomEnough DecoderSound
CHECK_DEADLOCK FALSE
